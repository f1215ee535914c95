-------------------------- MODULE RingBufferProofs --------------------------
(***************************************************************************)
(* Proofs about RingBuffer for calls that do not overlap: for every        *)
(* capacity, every set of values and every set of threads, the buffer is a *)
(* bounded FIFO queue.                                                     *)
(*                                                                         *)
(* The invariant says which slots of the circle are occupied: the Size     *)
(* slots from start on, less the one whose element a pop has taken, plus   *)
(* the one that a push has filled and not yet published.                   *)
(***************************************************************************)
EXTENDS RingBuffer, TLAPS

(* At most one thread is inside push or pop.                                *)
OneInside ==
  \A t, u \in Threads : pc[t] # "idle" /\ pc[u] # "idle" => t = u

(* A push has filled the slot at end.                                       *)
Filled == \E t \in Threads : pc[t] \in {"push_add", "push_store"}

Occupied(k) ==
  \/ k < Size /\ ~(k = 0 /\ Holders # {})
  \/ k = Size /\ Filled

(* What a thread inside push or pop has established.                        *)
Local(t) ==
  /\ pc[t] \in PushPC => Size < Cap /\ val[t] \in Values
  /\ pc[t] \in {"push_insert", "push_add", "push_store"} => idx[t] = end
  /\ pc[t] \in {"push_add", "push_store"} => buffer[end] = val[t]
  /\ pc[t] \in PopPC => idx[t] = start
  /\ pc[t] = "pop_count" => start = end
  /\ pc[t] \in {"pop_get", "pop_sub", "pop_store"} => Size > 0
  /\ pc[t] \in {"pop_sub", "pop_store"} => val[t] \in Values

Shape ==
  /\ Size \in 0 .. Cap
  /\ end = At(Size)
  /\ \A k \in Slots : buffer[At(k)] # Uninit <=> Occupied(k)
  /\ \A t \in Threads : Local(t)

RInv == TypeOK /\ OneInside /\ Shape

(* The invariant and the shape of the queue only depend on where the one    *)
(* thread inside is.                                                        *)
SizeAt(p, n) ==
  IF p = "push_store" THEN n - 1 ELSE IF p = "pop_store" THEN n + 1 ELSE n

HoldsAt(p) == p \in {"pop_sub", "pop_store"}

FilledAt(p) == p \in {"push_add", "push_store"}

-----------------------------------------------------------------------------
(* A step of thread t, alone inside, from place from to place to.           *)
LEMMA Solo ==
  ASSUME TypeOK, NEW t \in Threads, Alone(t),
         NEW from, NEW to, Goto(t, from, to)
  PROVE  /\ pc[t] = from
         /\ pc'[t] = to
         /\ \A u \in Threads \ {t} : pc[u] = "idle" /\ pc'[u] = "idle"
         /\ Size = SizeAt(from, count)
         /\ Size' = SizeAt(to, count')
         /\ (Holders # {}) <=> HoldsAt(from)
         /\ (Holders' # {}) <=> HoldsAt(to)
         /\ Filled <=> FilledAt(from)
         /\ Filled' <=> FilledAt(to)
         /\ OneInside'
<1>1. /\ pc[t] = from
      /\ pc'[t] = to
      /\ \A u \in Threads \ {t} : pc[u] = "idle" /\ pc'[u] = "idle"
  BY DEF Goto, Alone, TypeOK
<1>2. Size = SizeAt(from, count) /\ Size' = SizeAt(to, count')
  BY <1>1 DEF Size, SizeAt
<1>3. ((Holders # {}) <=> HoldsAt(from)) /\ ((Holders' # {}) <=> HoldsAt(to))
  BY <1>1 DEF Holders, HoldsAt
<1>4. (Filled <=> FilledAt(from)) /\ (Filled' <=> FilledAt(to))
  BY <1>1 DEF Filled, FilledAt
<1>5. OneInside'
  BY <1>1 DEF OneInside
<1>. QED
  BY <1>1, <1>2, <1>3, <1>4, <1>5

(* Walking round the circle: positions below Cap are different slots, and   *)
(* one step of start shifts every position by one.                          *)
LEMMA Circle ==
  ASSUME NEW s \in Slots
  PROVE  LET at(x, k) == IF x + k < Cap THEN x + k ELSE x + k - Cap
         IN  /\ \A k \in 0 .. Cap : at(s, k) \in Slots
             /\ \A j, k \in Slots : at(s, j) = at(s, k) => j = k
             /\ \A k \in Slots : at(Succ(s), k) = at(s, k + 1)
             /\ \A k \in Slots : Succ(at(s, k)) = at(s, k + 1)
             /\ at(s, 0) = s
             /\ at(s, Cap) = s
BY RingBufferAssumption DEF Slots, Succ

(* new() establishes the invariant.                                         *)
LEMMA InitRInv == Init => RInv
<1>. SUFFICES ASSUME Init PROVE RInv
  OBVIOUS
<1>1. TypeOK /\ OneInside
  BY RingBufferAssumption DEF Init, TypeOK, OneInside, Slots, Answers
<1>2. Size = 0 /\ Holders = {} /\ ~Filled
  BY DEF Init, Size, Holders, Filled
<1>3. Shape
  BY <1>2, RingBufferAssumption DEF Shape, Init, At, Slots, Occupied, Local, PushPC, PopPC
<1>. QED
  BY <1>1, <1>3 DEF RInv

(* Every step keeps the types.                                              *)
LEMMA TypeStep ==
  ASSUME RInv, [SerialNext]_vars
  PROVE  TypeOK'
<1>. USE RingBufferAssumption DEF RInv
<1>1. CASE UNCHANGED vars
  BY <1>1 DEF vars, shared, TypeOK
<1>2. ASSUME NEW t \in Producers, PushStep(t) PROVE TypeOK'
  <2>0. t \in Threads
    BY DEF Threads
  <2>1. ASSUME NEW v \in Values, PushBegin(t, v) PROVE TypeOK'
    BY <2>0, <2>1 DEF PushBegin, Goto, Return, shared, TypeOK, PushPC, Answers
  <2>2. CASE PushLoadEnd(t)
    BY <2>0, <2>2 DEF PushLoadEnd, Goto, shared, TypeOK, PushPC
  <2>3. CASE PushInsert(t)
    BY <2>0, <2>3 DEF PushInsert, Goto, TypeOK, PushPC
  <2>4. CASE PushAdd(t)
    BY <2>0, <2>4 DEF PushAdd, Goto, TypeOK, PushPC, FetchAdd
  <2>5. CASE PushStore(t)
    BY <2>0, <2>5 DEF PushStore, Return, Goto, TypeOK, Succ, Slots, Answers
  <2>. QED
    BY <1>2, <2>1, <2>2, <2>3, <2>4, <2>5 DEF PushStep
<1>3. ASSUME NEW t \in Consumers, PopStep(t) PROVE TypeOK'
  <2>0. t \in Threads
    BY DEF Threads
  <2>1. CASE PopBegin(t)
    BY <2>0, <2>1 DEF PopBegin, Goto, shared, TypeOK, PopPC
  <2>2. CASE PopLoadEnd(t)
    BY <2>0, <2>2 DEF PopLoadEnd, Goto, shared, TypeOK, PopPC
  <2>3. CASE PopLoadCount(t)
    BY <2>0, <2>3 DEF PopLoadCount, Return, Goto, shared, TypeOK, PopPC, Answers
  <2>4. CASE PopGet(t)
    BY <2>0, <2>4 DEF PopGet, Goto, TypeOK, PopPC
  <2>5. CASE PopSub(t)
    BY <2>0, <2>5 DEF PopSub, Goto, TypeOK, PopPC, FetchSub
  <2>6. CASE PopStore(t)
    <3>1. [tag |-> "some", val |-> val[t]] \in Answers
      BY <2>0 DEF TypeOK, Answers
    <3>. QED
      BY <2>0, <2>6, <3>1 DEF PopStore, Return, Goto, TypeOK, Succ, Slots
  <2>. QED
    BY <1>3, <2>1, <2>2, <2>3, <2>4, <2>5, <2>6 DEF PopStep
<1>. QED
  BY <1>1, <1>2, <1>3 DEF SerialNext

(* The positions of the queue in the circle.                                *)
LEMMA Positions ==
  ASSUME TypeOK
  PROVE  /\ \A k \in 0 .. Cap : At(k) \in Slots
         /\ \A j, k \in Slots : At(j) = At(k) => j = k
         /\ \A k \in Slots : Succ(At(k)) = At(k + 1)
         /\ At(0) = start
         /\ At(Cap) = start
BY Circle DEF At, TypeOK

(* Steps that leave the slots, the indices and the count alone.             *)
LEMMA QuietStep ==
  ASSUME RInv, NEW t \in Threads, Alone(t), UNCHANGED shared,
         NEW from, NEW to, Goto(t, from, to),
         SizeAt(from, count) = count, SizeAt(to, count) = count,
         ~HoldsAt(from), ~HoldsAt(to), ~FilledAt(from), ~FilledAt(to),
         Local(t)'
  PROVE  Shape'
<1>1. Size' = Size /\ Size = count
  BY Solo DEF RInv, shared, SizeAt
<1>2. \A k : At(k)' = At(k)
  BY DEF At, shared
<1>3. \A k : Occupied(k)' <=> Occupied(k)
  BY <1>1, Solo DEF Occupied, RInv
<1>4. \A u \in Threads \ {t} : Local(u)'
  BY Solo DEF Local, RInv, PushPC, PopPC
<1>. QED
  BY <1>1, <1>2, <1>3, <1>4 DEF Shape, RInv, shared

(* The steps of push preserve the shape of the buffer.                      *)
LEMMA PushShape ==
  ASSUME RInv, NEW t \in Threads, Alone(t), PushStep(t)
  PROVE  Shape' /\ OneInside'
<1>. USE RingBufferAssumption
<1>0. TypeOK /\ Local(t) /\ Size \in 0 .. Cap /\ end = At(Size)
  BY DEF RInv, Shape
<1>1. ASSUME NEW v \in Values, PushBegin(t, v) PROVE Shape' /\ OneInside'
  <2>1. CASE ~IsFull
    <3>1. Goto(t, "idle", "push_end") /\ UNCHANGED shared
      BY <1>1, <2>1 DEF PushBegin
    <3>2. Size' = count /\ Size = count
      BY <3>1, <1>0, Solo DEF SizeAt, shared
    <3>3. Local(t)'
      BY <1>0, <1>1, <2>1, <3>1, <3>2, Solo DEF Local, PushBegin, IsFull, TypeOK, PushPC, PopPC
    <3>. QED
      BY <1>0, <3>1, <3>3, QuietStep, Solo DEF SizeAt, HoldsAt, FilledAt
  <2>2. CASE IsFull
    <3>1. Goto(t, "idle", "idle") /\ UNCHANGED shared
      BY <1>1, <2>2 DEF PushBegin, Return
    <3>3. Local(t)'
      BY <1>0, <3>1, Solo DEF Local, PushPC, PopPC
    <3>. QED
      BY <1>0, <3>1, <3>3, QuietStep, Solo DEF SizeAt, HoldsAt, FilledAt
  <2>. QED
    BY <2>1, <2>2
<1>2. CASE PushLoadEnd(t)
  <2>1. Goto(t, "push_end", "push_insert") /\ UNCHANGED shared
    BY <1>2 DEF PushLoadEnd
  <2>2. Size' = count /\ Size = count
    BY <2>1, <1>0, Solo DEF SizeAt, shared
  <2>3. Local(t)'
    BY <1>0, <1>2, <2>1, <2>2, Solo DEF Local, PushLoadEnd, shared, TypeOK, PushPC, PopPC
  <2>. QED
    BY <1>0, <2>1, <2>3, QuietStep, Solo DEF SizeAt, HoldsAt, FilledAt
<1>3. CASE PushInsert(t)
  <2>1. Goto(t, "push_insert", "push_add") /\ UNCHANGED <<start, end, count, idx, val, result>>
    BY <1>3 DEF PushInsert
  <2>2. Size' = count /\ Size = count /\ Holders = {} /\ Holders' = {} /\ ~Filled /\ Filled'
    BY <2>1, <1>0, Solo DEF SizeAt, HoldsAt, FilledAt
  <2>3. Size < Cap /\ val[t] \in Values /\ idx[t] = end
    BY <1>0, <2>1, Solo DEF Local, PushPC
  <2>4. buffer' = [buffer EXCEPT ![At(count)] = val[t]]
    BY <1>0, <1>3, <2>2, <2>3 DEF PushInsert
  <2>5. \A k : At(k)' = At(k)
    BY <2>1 DEF At
  <2>6. \A k \in Slots : buffer'[At(k)] # Uninit <=> k < count \/ k = count
    <3>1. \A k \in Slots : buffer[At(k)] # Uninit <=> k < count
      BY <2>2 DEF RInv, Shape, Occupied
    <3>2. count \in Slots
      BY <1>0, <2>2, <2>3 DEF Slots
    <3>3. \A k \in Slots : At(k) \in Slots /\ (At(k) = At(count) => k = count)
      BY <1>0, <3>2, Positions DEF Slots
    <3>4. \A k \in Slots : buffer'[At(k)] = IF k = count THEN val[t] ELSE buffer[At(k)]
      BY <1>0, <2>4, <3>3 DEF TypeOK
    <3>. QED
      BY <1>0, <2>3, <3>1, <3>2, <3>4 DEF Slots
  <2>7. Local(t)'
    BY <1>0, <2>1, <2>2, <2>3, <2>4, Solo, Positions DEF Local, PushPC, PopPC, TypeOK
  <2>8. \A u \in Threads \ {t} : Local(u)'
    BY <1>0, <2>1, Solo DEF Local, PushPC, PopPC
  <2>9. Shape'
    BY <1>0, <2>1, <2>2, <2>5, <2>6, <2>7, <2>8 DEF Shape, Occupied
  <2>. QED
    BY <1>0, <2>1, <2>9, Solo
<1>4. CASE PushAdd(t)
  <2>1. Goto(t, "push_add", "push_store") /\ UNCHANGED <<buffer, start, end, idx, val, result>>
    BY <1>4 DEF PushAdd
  <2>2. Size = count /\ Holders = {} /\ Holders' = {} /\ Filled /\ Filled'
    BY <2>1, <1>0, Solo DEF SizeAt, HoldsAt, FilledAt
  <2>3. Size < Cap /\ count' = count + 1
    BY <1>0, <1>4, <2>1, <2>2, Solo DEF Local, PushPC, PushAdd, FetchAdd, TypeOK
  <2>4. Size' = Size
    BY <1>0, <2>1, <2>2, <2>3, Solo DEF SizeAt, TypeOK
  <2>5. \A k : At(k)' = At(k)
    BY <2>1 DEF At
  <2>6. \A u \in Threads : Local(u)'
    BY <1>0, <2>1, <2>4, Solo DEF Local, PushPC, PopPC
  <2>7. Shape'
    BY <2>1, <2>2, <2>4, <2>5, <2>6 DEF Shape, Occupied, RInv
  <2>. QED
    BY <1>0, <2>1, <2>7, Solo
<1>5. CASE PushStore(t)
  <2>1. Goto(t, "push_store", "idle") /\ UNCHANGED <<buffer, start, count, idx, val>>
    BY <1>5 DEF PushStore, Return
  <2>2. Size' = Size + 1 /\ Holders = {} /\ Holders' = {} /\ Filled /\ ~Filled'
    BY <2>1, <1>0, Solo DEF SizeAt, HoldsAt, FilledAt, TypeOK
  <2>3. Size < Cap /\ idx[t] = end
    BY <1>0, <2>1, Solo DEF Local, PushPC
  <2>4. \A k : At(k)' = At(k)
    BY <2>1 DEF At
  <2>5. end' = At(Size + 1)
    BY <1>0, <1>5, <2>3, Positions DEF PushStore, Slots
  <2>6. \A k \in Slots : Occupied(k)' <=> Occupied(k)
    BY <1>0, <2>2 DEF Occupied, Slots
  <2>7. \A u \in Threads : Local(u)'
    BY <1>0, <2>1, Solo DEF Local, PushPC, PopPC
  <2>8. Shape'
    BY <1>0, <2>1, <2>2, <2>3, <2>4, <2>5, <2>6, <2>7 DEF Shape, RInv
  <2>. QED
    BY <1>0, <2>1, <2>8, Solo
<1>. QED
  BY <1>1, <1>2, <1>3, <1>4, <1>5 DEF PushStep

(* The steps of pop preserve the shape of the buffer.                       *)
LEMMA PopShape ==
  ASSUME RInv, NEW t \in Threads, Alone(t), PopStep(t)
  PROVE  Shape' /\ OneInside'
<1>. USE RingBufferAssumption
<1>0. TypeOK /\ Local(t) /\ Size \in 0 .. Cap /\ end = At(Size)
  BY DEF RInv, Shape
<1>1. CASE PopBegin(t)
  <2>1. Goto(t, "idle", "pop_end") /\ UNCHANGED shared
    BY <1>1 DEF PopBegin
  <2>2. Local(t)'
    BY <1>0, <1>1, <2>1, Solo DEF Local, PopBegin, shared, TypeOK, PushPC, PopPC
  <2>. QED
    BY <1>0, <2>1, <2>2, QuietStep, Solo DEF SizeAt, HoldsAt, FilledAt
<1>2. CASE PopLoadEnd(t)
  <2>1. pc[t] = "pop_end" /\ idx[t] = start /\ UNCHANGED <<shared, idx>>
    BY <1>0, <1>2 DEF PopLoadEnd, Goto, Local, PopPC
  <2>2. CASE idx[t] = end /\ Goto(t, "pop_end", "pop_count")
    <3>1. Local(t)'
      BY <1>0, <2>1, <2>2, Solo DEF Local, shared, PushPC, PopPC
    <3>. QED
      BY <1>0, <2>1, <2>2, <3>1, QuietStep, Solo DEF SizeAt, HoldsAt, FilledAt
  <2>3. CASE idx[t] # end /\ Goto(t, "pop_end", "pop_get")
    <3>1. Size' = Size
      BY <1>0, <2>1, <2>3, Solo DEF SizeAt, shared
    <3>2. Size > 0
      BY <1>0, <2>1, <2>3, Positions
    <3>3. Local(t)'
      BY <1>0, <2>1, <2>3, <3>1, <3>2, Solo DEF Local, shared, PushPC, PopPC
    <3>. QED
      BY <1>0, <2>1, <2>3, <3>3, QuietStep, Solo DEF SizeAt, HoldsAt, FilledAt
  <2>. QED
    BY <1>2, <2>2, <2>3 DEF PopLoadEnd
<1>3. CASE PopLoadCount(t)
  <2>1. pc[t] = "pop_count" /\ idx[t] = start /\ UNCHANGED <<shared, idx>>
    BY <1>0, <1>3 DEF PopLoadCount, Return, Goto, Local, PopPC
  <2>2. CASE IsEmpty /\ Goto(t, "pop_count", "idle")
    <3>1. Local(t)'
      BY <1>0, <2>2, Solo DEF Local, PushPC, PopPC
    <3>. QED
      BY <1>0, <2>1, <2>2, <3>1, QuietStep, Solo DEF SizeAt, HoldsAt, FilledAt
  <2>3. CASE ~IsEmpty /\ Goto(t, "pop_count", "pop_get")
    <3>1. Size' = Size /\ Size = count
      BY <1>0, <2>1, <2>3, Solo DEF SizeAt, shared
    <3>2. Size > 0
      BY <1>0, <2>3, <3>1 DEF IsEmpty
    <3>3. Local(t)'
      BY <1>0, <2>1, <2>3, <3>1, <3>2, Solo DEF Local, shared, PushPC, PopPC
    <3>. QED
      BY <1>0, <2>1, <2>3, <3>3, QuietStep, Solo DEF SizeAt, HoldsAt, FilledAt
  <2>. QED
    BY <1>3, <2>2, <2>3 DEF PopLoadCount, Return
<1>4. CASE PopGet(t)
  <2>1. Goto(t, "pop_get", "pop_sub") /\ UNCHANGED <<start, end, count, idx, result>>
    BY <1>4 DEF PopGet
  <2>2. Size' = Size /\ Holders = {} /\ Holders' # {} /\ ~Filled /\ ~Filled'
    BY <2>1, <1>0, Solo DEF SizeAt, HoldsAt, FilledAt
  <2>3. Size > 0 /\ idx[t] = start /\ 0 \in Slots
    BY <1>0, <2>1, Solo DEF Local, PopPC, Slots
  <2>4. \A k \in Slots : buffer[At(k)] # Uninit <=> k < Size
    BY <2>2 DEF RInv, Shape, Occupied
  <2>5. \A k \in Slots : At(k) \in Slots /\ (At(k) = At(0) => k = 0)
    BY <1>0, <2>3, Positions DEF Slots
  <2>6. At(0) = start
    BY <1>0, Positions
  <2>7. \A k \in Slots : buffer'[At(k)] = IF k = 0 THEN Uninit ELSE buffer[At(k)]
    BY <1>0, <1>4, <2>3, <2>5, <2>6 DEF PopGet, TypeOK
  <2>8. \A k \in Slots : buffer'[At(k)] # Uninit <=> k < Size /\ k # 0
    BY <2>4, <2>7 DEF Slots
  <2>9. \A k : At(k)' = At(k)
    BY <2>1 DEF At
  <2>10. buffer[start] # Uninit /\ val'[t] \in Values
    BY <1>0, <1>4, <2>3, <2>4, <2>6 DEF PopGet, TypeOK
  <2>11. Local(t)'
    BY <1>0, <2>1, <2>2, <2>3, <2>10, Solo DEF Local, PushPC, PopPC
  <2>12. \A u \in Threads \ {t} : Local(u)'
    BY <1>0, <2>1, Solo DEF Local, PushPC, PopPC
  <2>13. Shape'
    BY <1>0, <2>1, <2>2, <2>8, <2>9, <2>11, <2>12 DEF Shape, Occupied
  <2>. QED
    BY <1>0, <2>1, <2>13, Solo
<1>5. CASE PopSub(t)
  <2>1. Goto(t, "pop_sub", "pop_store") /\ UNCHANGED <<buffer, start, end, idx, val, result>>
    BY <1>5 DEF PopSub
  <2>2. Size = count /\ Holders # {} /\ Holders' # {} /\ ~Filled /\ ~Filled'
    BY <2>1, <1>0, Solo DEF SizeAt, HoldsAt, FilledAt
  <2>3. count' = count - 1
    BY <1>0, <1>5, <2>1, <2>2, Solo DEF Local, PopPC, PopSub, FetchSub, TypeOK
  <2>4. Size' = Size
    BY <1>0, <2>1, <2>2, <2>3, Solo DEF SizeAt, TypeOK
  <2>5. \A k : At(k)' = At(k)
    BY <2>1 DEF At
  <2>6. \A u \in Threads : Local(u)'
    BY <1>0, <2>1, <2>4, Solo DEF Local, PushPC, PopPC
  <2>7. Shape'
    BY <2>1, <2>2, <2>4, <2>5, <2>6 DEF Shape, Occupied, RInv
  <2>. QED
    BY <1>0, <2>1, <2>7, Solo
<1>6. CASE PopStore(t)
  <2>1. Goto(t, "pop_store", "idle") /\ UNCHANGED <<buffer, end, count, idx, val>>
    BY <1>6 DEF PopStore, Return
  <2>2. Size' = Size - 1 /\ Holders # {} /\ Holders' = {} /\ ~Filled /\ ~Filled'
    BY <2>1, <1>0, Solo DEF SizeAt, HoldsAt, FilledAt, TypeOK
  <2>3. Size > 0 /\ idx[t] = start /\ start' = Succ(start)
    BY <1>0, <1>6, <2>1, Solo DEF Local, PopPC, PopStore
  <2>4. \A k \in Slots : At(k)' = At(k + 1)
    BY <1>0, <2>3, Circle DEF At, TypeOK
  <2>5. (end = At(Size))'
    BY <1>0, <2>1, <2>2, <2>3 DEF At, Succ, Slots, TypeOK
  <2>6. \A k \in Slots : buffer[At(k)] # Uninit <=> k < Size /\ k # 0
    BY <1>0, <2>2 DEF RInv, Shape, Occupied
  <2>7. \A k \in Slots : buffer[At(k + 1)] # Uninit <=> k < Size - 1
    <3>1. ASSUME NEW k \in Slots PROVE buffer[At(k + 1)] # Uninit <=> k < Size - 1
      <4>1. CASE k + 1 \in Slots
        BY <1>0, <2>6, <4>1 DEF Slots
      <4>2. CASE k + 1 = Cap
        BY <1>0, <2>6, <4>2, Positions DEF Slots
      <4>. QED
        BY <4>1, <4>2 DEF Slots
    <3>. QED
      BY <3>1
  <2>8. \A u \in Threads : Local(u)'
    BY <1>0, <2>1, Solo DEF Local, PushPC, PopPC
  <2>9. Shape'
    BY <1>0, <2>1, <2>2, <2>3, <2>4, <2>5, <2>7, <2>8 DEF Shape, Occupied
  <2>. QED
    BY <1>0, <2>1, <2>9, Solo
<1>. QED
  BY <1>1, <1>2, <1>3, <1>4, <1>5, <1>6 DEF PopStep

(* The invariant is inductive.                                              *)
LEMMA StepRInv == RInv /\ [SerialNext]_vars => RInv'
<1>. SUFFICES ASSUME RInv, [SerialNext]_vars PROVE RInv'
  OBVIOUS
<1>1. TypeOK'
  BY TypeStep
<1>2. CASE UNCHANGED vars
  BY <1>2 DEF vars, shared, RInv, TypeOK, OneInside, Shape, Size, At, Occupied, Filled,
              Holders, Local
<1>3. ASSUME NEW t \in Producers, Alone(t), PushStep(t) PROVE RInv'
  BY <1>1, <1>3, PushShape DEF RInv, Threads
<1>4. ASSUME NEW t \in Consumers, Alone(t), PopStep(t) PROVE RInv'
  BY <1>1, <1>4, PopShape DEF RInv, Threads
<1>. QED
  BY <1>2, <1>3, <1>4 DEF SerialNext

(* Calls that do not overlap keep the indices, the count and the slots      *)
(* consistent, at every step inside push and pop.                           *)
THEOREM SerialInvariance == SerialSpec => []RInv
BY InitRInv, StepRInv, PTL DEF SerialSpec

(* Calls that do not overlap: every access of push and pop stays within the *)
(* buffer, and count, start and end keep their ranges.                      *)
THEOREM SerialTypeCorrect == SerialSpec => []TypeOK
<1>1. RInv => TypeOK
  BY DEF RInv
<1>. QED
  BY SerialInvariance, <1>1, PTL

(* Calls that do not overlap: get_value never reads an uninitialised slot,  *)
(* so its assume_init is sound.                                             *)
THEOREM SerialNoUninitRead == SerialSpec => []NoUninitRead
<1>1. RInv => NoUninitRead
  <2>. SUFFICES ASSUME RInv, NEW t \in Threads, pc[t] = "pop_get"
                PROVE  buffer[idx[t]] # Uninit
    BY DEF NoUninitRead
  <2>1. idx[t] = start /\ Size > 0 /\ Size \in 0 .. Cap
    BY DEF RInv, Shape, Local, PopPC
  <2>2. Holders = {}
    BY DEF RInv, OneInside, Holders
  <2>3. 0 \in Slots /\ Occupied(0)
    BY <2>1, <2>2, RingBufferAssumption DEF Slots, Occupied
  <2>4. buffer[At(0)] # Uninit
    BY <2>3 DEF RInv, Shape
  <2>. QED
    BY <2>1, <2>4, Positions DEF RInv
<1>. QED
  BY SerialInvariance, <1>1, PTL

(* Calls that do not overlap: insert_value writes only to a free slot.      *)
THEOREM SerialNoOverwrite == SerialSpec => []NoOverwrite
<1>1. RInv => NoOverwrite
  <2>. SUFFICES ASSUME RInv, NEW t \in Threads, pc[t] = "push_insert"
                PROVE  buffer[idx[t]] = Uninit
    BY DEF NoOverwrite
  <2>1. idx[t] = At(Size) /\ Size < Cap /\ Size \in 0 .. Cap
    BY DEF RInv, Shape, Local, PushPC
  <2>2. ~Filled
    BY DEF RInv, OneInside, Filled
  <2>3. Size \in Slots /\ ~Occupied(Size)
    BY <2>1, <2>2, RingBufferAssumption DEF Slots, Occupied
  <2>. QED
    BY <2>1, <2>3 DEF RInv, Shape
<1>. QED
  BY SerialInvariance, <1>1, PTL

-----------------------------------------------------------------------------
(* Refinement                                                               *)

(* The queue is a sequence of values whose first element is held by a pop   *)
(* that has taken it, if there is one.                                      *)
LEMMA QueueType ==
  ASSUME RInv
  PROVE  /\ Size \in 0 .. Cap
         /\ Contents \in Seq(Values)
         /\ Len(Contents) = Size
         /\ \A k \in 1 .. Size : Contents[k] = Element(k)
<1>0. TypeOK /\ Size \in 0 .. Cap
  BY DEF RInv, Shape
<1>1. ASSUME NEW k \in 1 .. Size PROVE Element(k) \in Values
  <2>1. CASE k = 1 /\ Holders # {}
    <3>1. (CHOOSE t \in Holders : TRUE) \in Holders
      BY <2>1
    <3>2. \A t \in Holders : val[t] \in Values
      BY DEF Holders, RInv, Shape, Local
    <3>. QED
      BY <2>1, <3>1, <3>2 DEF Element
  <2>2. CASE ~(k = 1 /\ Holders # {})
    <3>1. k - 1 \in Slots /\ Occupied(k - 1)
      BY <1>0, <2>2, RingBufferAssumption DEF Slots, Occupied
    <3>2. buffer[At(k - 1)] # Uninit
      BY <3>1 DEF RInv, Shape
    <3>3. At(k - 1) \in Slots
      BY <1>0, <3>1, Positions, RingBufferAssumption DEF Slots
    <3>. QED
      BY <1>0, <2>2, <3>2, <3>3 DEF Element, TypeOK
  <2>. QED
    BY <2>1, <2>2
<1>. QED
  BY <1>0, <1>1, RingBufferAssumption DEF Contents

(* A pop that holds the first element is the one thread inside.             *)
LEMMA Holder ==
  ASSUME TypeOK, NEW t \in Threads, Alone(t),
         NEW from, NEW to, Goto(t, from, to)
  PROVE  /\ \A k : Element(k) = IF k = 1 /\ HoldsAt(from) THEN val[t] ELSE buffer[At(k - 1)]
         /\ \A k : Element(k)' = IF k = 1 /\ HoldsAt(to) THEN val'[t] ELSE buffer'[At(k - 1)']
<1>1. HoldsAt(from) => Holders = {t}
  BY Solo DEF HoldsAt, Holders
<1>2. HoldsAt(to) => Holders' = {t}
  BY Solo DEF HoldsAt, Holders
<1>3. (CHOOSE u \in {t} : TRUE) = t
  OBVIOUS
<1>4. (Holders # {} <=> HoldsAt(from)) /\ (Holders' # {} <=> HoldsAt(to))
  BY Solo
<1>5. HoldsAt(from) => val[CHOOSE u \in Holders : TRUE] = val[t]
  BY <1>1, <1>3
<1>6. HoldsAt(to) => val'[CHOOSE u \in Holders' : TRUE] = val'[t]
  BY <1>2, <1>3
<1>. QED
  BY <1>4, <1>5, <1>6 DEF Element

(* A step that changes neither the length nor an element.                   *)
LEMMA SameContents ==
  ASSUME Size' = Size, \A k \in 1 .. Size : Element(k)' = Element(k)
  PROVE  Contents' = Contents
BY DEF Contents

(* A step of push is a push of the queue, when it returns, or a stutter.    *)
LEMMA PushRefines ==
  ASSUME RInv, RInv', NEW t \in Threads, Alone(t), PushStep(t)
  PROVE  (\E v \in Values : Fifo!Push(t, v)) \/ UNCHANGED <<Contents, result>>
<1>. USE RingBufferAssumption
<1>0. TypeOK /\ Local(t) /\ Size \in 0 .. Cap
  BY DEF RInv, Shape
<1>1. ASSUME NEW v \in Values, PushBegin(t, v)
      PROVE  Fifo!Push(t, v) \/ UNCHANGED <<Contents, result>>
  <2>1. CASE ~IsFull
    <3>1. Goto(t, "idle", "push_end") /\ UNCHANGED <<shared, result>>
      BY <1>1, <2>1 DEF PushBegin
    <3>2. Size' = Size /\ \A k \in 1 .. Size : Element(k)' = Element(k)
      BY <1>0, <3>1, Solo, Holder DEF SizeAt, HoldsAt, shared, At
    <3>. QED
      BY <3>1, <3>2, SameContents
  <2>2. CASE IsFull
    <3>1. Goto(t, "idle", "idle") /\ UNCHANGED <<shared, val>>
          /\ result' = [result EXCEPT ![t] = [tag |-> "full"]]
      BY <1>1, <2>2 DEF PushBegin, Return
    <3>2. Size' = Size /\ \A k \in 1 .. Size : Element(k)' = Element(k)
      BY <1>0, <3>1, Solo, Holder DEF SizeAt, HoldsAt, shared, At
    <3>3. Len(Contents) = Cap
      BY <1>0, <2>2, <3>1, Solo, QueueType DEF SizeAt, IsFull
    <3>. QED
      BY <3>1, <3>2, <3>3, SameContents DEF Fifo!Push, Fifo!Returns, Fifo!Full
  <2>. QED
    BY <2>1, <2>2
<1>2. CASE PushLoadEnd(t)
  <2>1. Goto(t, "push_end", "push_insert") /\ UNCHANGED <<shared, val, result>>
    BY <1>2 DEF PushLoadEnd
  <2>2. Size' = Size /\ \A k \in 1 .. Size : Element(k)' = Element(k)
    BY <1>0, <2>1, Solo, Holder DEF SizeAt, HoldsAt, shared, At
  <2>. QED
    BY <2>1, <2>2, SameContents
<1>3. CASE PushInsert(t)
  <2>1. Goto(t, "push_insert", "push_add") /\ UNCHANGED <<start, end, count, val, result>>
        /\ buffer' = [buffer EXCEPT ![end] = val[t]]
    BY <1>0, <1>3, Solo DEF PushInsert, Local, Goto
  <2>2. Size' = Size /\ Size < Cap /\ end = At(Size)
    BY <1>0, <2>1, Solo DEF SizeAt, Local, PushPC, RInv, Shape
  <2>3. \A k \in 1 .. Size : At(k - 1) \in Slots /\ At(k - 1) # end
    <3>1. Size \in Slots
      BY <1>0, <2>2 DEF Slots
    <3>2. \A k \in 1 .. Size : k - 1 \in Slots /\ k - 1 # Size
      BY <1>0, <2>2 DEF Slots
    <3>3. \A k \in 1 .. Size : k - 1 \in 0 .. Cap
      BY <1>0
    <3>. QED
      BY <1>0, <2>2, <3>1, <3>2, <3>3, Positions
  <2>4. \A k \in 1 .. Size : buffer'[At(k - 1)] = buffer[At(k - 1)]
    BY <1>0, <2>1, <2>3 DEF TypeOK
  <2>5. \A k \in 1 .. Size : Element(k)' = Element(k)
    BY <1>0, <2>1, <2>4, Holder DEF HoldsAt, At
  <2>. QED
    BY <2>1, <2>2, <2>5, SameContents
<1>4. CASE PushAdd(t)
  <2>1. Goto(t, "push_add", "push_store") /\ UNCHANGED <<buffer, start, end, val, result>>
    BY <1>4 DEF PushAdd
  <2>2. Size' = Size
    <3>1. Size = count /\ Size < Cap
      BY <1>0, <2>1, Solo DEF SizeAt, Local, PushPC
    <3>2. count' = count + 1
      BY <1>0, <1>4, <3>1 DEF PushAdd, FetchAdd, TypeOK
    <3>. QED
      BY <1>0, <2>1, <3>1, <3>2, Solo DEF SizeAt, TypeOK
  <2>3. \A k \in 1 .. Size : Element(k)' = Element(k)
    BY <1>0, <2>1, Holder DEF HoldsAt, At
  <2>. QED
    BY <2>1, <2>2, <2>3, SameContents
<1>5. CASE PushStore(t)
  <2>1. Goto(t, "push_store", "idle") /\ UNCHANGED <<buffer, start, count, idx, val>>
        /\ result' = [result EXCEPT ![t] = [tag |-> "ok"]]
    BY <1>5 DEF PushStore, Return
  <2>2. Size' = Size + 1 /\ Size < Cap /\ val[t] \in Values /\ buffer[At(Size)] = val[t]
    BY <1>0, <2>1, Solo DEF SizeAt, Local, PushPC, RInv, Shape, TypeOK
  <2>3. /\ \A k \in 1 .. Size : Element(k)' = Element(k)
        /\ Element(Size)' = val[t]
    <3>1. \A k : Element(k) = buffer[At(k - 1)] /\ Element(k)' = buffer[At(k - 1)]
      BY <1>0, <2>1, Holder DEF HoldsAt, At
    <3>. QED
      BY <1>0, <2>2, <3>1
  <2>4. Contents' = Append(Contents, val[t])
    BY <1>0, <2>2, <2>3, QueueType DEF Contents
  <2>5. Fifo!Push(t, val[t])
    BY <1>0, <2>1, <2>2, <2>4, QueueType DEF Fifo!Push, Fifo!Returns, Fifo!Ok
  <2>. QED
    BY <2>2, <2>5
<1>. QED
  BY <1>1, <1>2, <1>3, <1>4, <1>5 DEF PushStep

(* A step of pop is a pop of the queue, when it returns, or a stutter.      *)
LEMMA PopRefines ==
  ASSUME RInv, RInv', NEW t \in Threads, Alone(t), PopStep(t)
  PROVE  Fifo!Pop(t) \/ UNCHANGED <<Contents, result>>
<1>. USE RingBufferAssumption
<1>0. TypeOK /\ Local(t) /\ Size \in 0 .. Cap
  BY DEF RInv, Shape
<1>1. CASE PopBegin(t)
  <2>1. Goto(t, "idle", "pop_end") /\ UNCHANGED <<shared, val, result>>
    BY <1>1 DEF PopBegin
  <2>2. Size' = Size /\ \A k \in 1 .. Size : Element(k)' = Element(k)
    BY <1>0, <2>1, Solo, Holder DEF SizeAt, HoldsAt, shared, At
  <2>. QED
    BY <2>1, <2>2, SameContents
<1>2. CASE PopLoadEnd(t)
  <2>1. PICK to \in {"pop_count", "pop_get"} : Goto(t, "pop_end", to)
    BY <1>2 DEF PopLoadEnd
  <2>2. UNCHANGED <<shared, val, result>>
    BY <1>2 DEF PopLoadEnd
  <2>3. Size' = Size /\ \A k \in 1 .. Size : Element(k)' = Element(k)
    BY <1>0, <2>1, <2>2, Solo, Holder DEF SizeAt, HoldsAt, shared, At
  <2>. QED
    BY <2>2, <2>3, SameContents
<1>3. CASE PopLoadCount(t)
  <2>1. CASE IsEmpty
    <3>1. Goto(t, "pop_count", "idle") /\ UNCHANGED <<shared, val>>
          /\ result' = [result EXCEPT ![t] = [tag |-> "none"]]
      BY <1>3, <2>1 DEF PopLoadCount, Return
    <3>2. Size' = Size /\ \A k \in 1 .. Size : Element(k)' = Element(k)
      BY <1>0, <3>1, Solo, Holder DEF SizeAt, HoldsAt, shared, At
    <3>3. Contents = <<>>
      BY <1>0, <2>1, <3>1, Solo, QueueType DEF SizeAt, IsEmpty
    <3>. QED
      BY <3>1, <3>2, <3>3, SameContents DEF Fifo!Pop, Fifo!Returns, Fifo!Empty
  <2>2. CASE ~IsEmpty
    <3>1. Goto(t, "pop_count", "pop_get") /\ UNCHANGED <<shared, val, result>>
      BY <1>3, <2>2 DEF PopLoadCount
    <3>2. Size' = Size /\ \A k \in 1 .. Size : Element(k)' = Element(k)
      BY <1>0, <3>1, Solo, Holder DEF SizeAt, HoldsAt, shared, At
    <3>. QED
      BY <3>1, <3>2, SameContents
  <2>. QED
    BY <2>1, <2>2
<1>4. CASE PopGet(t)
  <2>1. Goto(t, "pop_get", "pop_sub") /\ UNCHANGED <<start, end, count, idx, result>>
    BY <1>4 DEF PopGet
  <2>2. Size' = Size /\ idx[t] = start
    BY <1>0, <2>1, Solo DEF SizeAt, Local, PopPC
  <2>3. val'[t] = buffer[start] /\ buffer' = [buffer EXCEPT ![start] = Uninit]
    BY <1>0, <1>4, <2>2 DEF PopGet, TypeOK
  <2>4. At(0) = start /\ \A k \in 2 .. Size : At(k - 1) \in Slots /\ At(k - 1) # start
    <3>1. 0 \in Slots /\ \A k \in 2 .. Size : k - 1 \in Slots /\ k - 1 \in 0 .. Cap /\ k - 1 # 0
      BY <1>0 DEF Slots
    <3>. QED
      BY <1>0, <3>1, Positions
  <2>5. \A k \in 2 .. Size : buffer'[At(k - 1)] = buffer[At(k - 1)]
    BY <1>0, <2>3, <2>4 DEF TypeOK
  <2>6. \A k \in 2 .. Size : Element(k)' = Element(k)
    BY <1>0, <2>1, <2>5, Holder DEF HoldsAt, At
  <2>7. Element(1)' = Element(1)
    <3>1. Element(1)' = val'[t]
      BY <1>0, <2>1, Holder DEF HoldsAt
    <3>2. Element(1) = buffer[At(1 - 1)]
      BY <1>0, <2>1, Holder DEF HoldsAt
    <3>. QED
      BY <2>3, <2>4, <3>1, <3>2
  <2>8. \A k \in 1 .. Size : Element(k)' = Element(k)
    BY <1>0, <2>6, <2>7
  <2>. QED
    BY <2>1, <2>2, <2>8, SameContents
<1>5. CASE PopSub(t)
  <2>1. Goto(t, "pop_sub", "pop_store") /\ UNCHANGED <<buffer, start, end, val, result>>
    BY <1>5 DEF PopSub
  <2>2. Size' = Size
    <3>1. Size = count /\ Size > 0
      BY <1>0, <2>1, Solo DEF SizeAt, Local, PopPC
    <3>2. count' = count - 1
      BY <1>0, <1>5, <3>1 DEF PopSub, FetchSub, TypeOK
    <3>. QED
      BY <1>0, <2>1, <3>1, <3>2, Solo DEF SizeAt, TypeOK
  <2>3. \A k \in 1 .. Size : Element(k)' = Element(k)
    BY <1>0, <2>1, Holder DEF HoldsAt, At
  <2>. QED
    BY <2>1, <2>2, <2>3, SameContents
<1>6. CASE PopStore(t)
  <2>1. Goto(t, "pop_store", "idle") /\ UNCHANGED <<buffer, end, count, idx, val>>
        /\ result' = [result EXCEPT ![t] = [tag |-> "some", val |-> val[t]]]
    BY <1>6 DEF PopStore, Return
  <2>2. Size' = Size - 1 /\ Size > 0 /\ start' = Succ(start)
    BY <1>0, <1>6, <2>1, Solo DEF SizeAt, Local, PopPC, PopStore, TypeOK
  <2>3. Element(1) = val[t]
    BY <1>0, <2>1, Holder DEF HoldsAt
  <2>4. \A k \in 1 .. Size - 1 : At(k - 1)' = At(k)
    BY <1>0, <2>2 DEF At, Succ, Slots, TypeOK
  <2>5. \A k \in 1 .. Size - 1 : Element(k)' = Element(k + 1)
    <3>1. \A k \in 1 .. Size - 1 : Element(k)' = buffer[At(k - 1)']
      BY <1>0, <2>1, Holder DEF HoldsAt
    <3>2. \A k \in 1 .. Size - 1 : Element(k + 1) = buffer[At(k)]
      BY <1>0, <2>1, Holder DEF HoldsAt
    <3>. QED
      BY <2>4, <3>1, <3>2
  <2>6. Contents' = Tail(Contents) /\ Head(Contents) = val[t] /\ Contents # <<>>
    BY <1>0, <2>2, <2>3, <2>5, QueueType DEF Contents
  <2>. QED
    BY <2>1, <2>6 DEF Fifo!Pop, Fifo!Returns, Fifo!Some
<1>. QED
  BY <1>1, <1>2, <1>3, <1>4, <1>5, <1>6 DEF PopStep

(* Calls that do not overlap are those of a bounded FIFO queue: push and    *)
(* pop of LockFreeBoundedRingBuffer implement BoundedFifo for every         *)
(* capacity.                                                                *)
THEOREM SerialRefinement == SerialSpec => IsFifo
<1>1. Init => Fifo!Init
  <2>. SUFFICES ASSUME Init PROVE Fifo!Init
    OBVIOUS
  <2>1. Size = 0
    BY DEF Init, Size
  <2>2. Contents = <<>>
    BY <2>1 DEF Contents
  <2>. QED
    BY <2>2 DEF Init, Fifo!Init, Fifo!Unused
<1>2. RInv /\ RInv' /\ [SerialNext]_vars => [Fifo!Next]_<<Contents, result>>
  <2>. SUFFICES ASSUME RInv, RInv', [SerialNext]_vars
                PROVE  Fifo!Next \/ UNCHANGED <<Contents, result>>
    OBVIOUS
  <2>1. CASE UNCHANGED vars
    BY <2>1 DEF vars, shared, Contents, Size, Element, Holders, At
  <2>2. ASSUME NEW t \in Producers, Alone(t), PushStep(t)
        PROVE  Fifo!Next \/ UNCHANGED <<Contents, result>>
    BY <2>2, PushRefines DEF Fifo!Next, Threads
  <2>3. ASSUME NEW t \in Consumers, Alone(t), PopStep(t)
        PROVE  Fifo!Next \/ UNCHANGED <<Contents, result>>
    BY <2>3, PopRefines DEF Fifo!Next, Threads
  <2>. QED
    BY <2>1, <2>2, <2>3 DEF SerialNext
<1>. QED
  BY <1>1, <1>2, SerialInvariance, PTL DEF SerialSpec, IsFifo, Fifo!Spec

=============================================================================
