---------------------------- MODULE OffloadProofs ----------------------------
(***************************************************************************)
(* Proofs about Offload, for any operations, pool size and bounds.         *)
(***************************************************************************)
EXTENDS Offload, SequenceLemmas, TLAPS

(* The phases in which an operation has not reached the pool.               *)
Before == {"new", "created", "tag", "waker", "addr", "load", "store", "send", "panicked"}

(* The closure of o is nowhere in the pool.                                 *)
Absent(o) == \A i \in Pool : ~Running(o, i) /\ ~In(senders[i], o)

(* No closure is queued twice, or queued and running.                       *)
UniqueInv ==
  /\ \A i \in Pool : Injective(senders[i])
  /\ \A o \in Ops, i, j \in Pool : In(senders[i], o) /\ In(senders[j], o) => i = j
  /\ \A o \in Ops, i, j \in Pool :
       Running(o, i) => ~In(senders[j], o) /\ (Running(o, j) => i = j)

(* How the phase and the result of an operation tell where its closure is.  *)
PlaceInv ==
  /\ \A o \in Ops : phase[o] \in Before => slot[o] = "none"
  /\ \A o \in Ops : phase[o] \in Before \/ slot[o] # "none" => Absent(o)
  /\ \A o \in Ops : Waits(o) /\ slot[o] = "none" => PoolDamaged \/ ~Absent(o)

(* A future has set has_polled once its first poll has begun.               *)
PolledInv == \A o \in Ops : phase[o] \in {"new", "created"} <=> o \notin has_polled

(* A pool thread at work has a closure; one that wakes has stored a result. *)
JobInv ==
  /\ \A i \in Pool : ppc[i] \in {"run", "wake"} => job[i] \in Ops
  /\ \A i \in Pool : ppc[i] = "wake" => slot[job[i]] # "none"

WakeInv == NetNoLostWake /\ TagServed

OInv == TypeOK /\ UniqueInv /\ PlaceInv /\ PolledInv /\ JobInv /\ WakeInv

-----------------------------------------------------------------------------
(* The channels of UniqueInv, read as ClosureOnce reads them.               *)
LEMMA UniqueGivesOnce ==
  ASSUME TypeOK, UniqueInv, PlaceInv
  PROVE  ClosureOnce
<1>1. \A o, i : Queued(o, i) <=> In(senders[i], o)
  BY DEF Queued, In
<1>2. ASSUME NEW i \in Pool, NEW j \in Pool,
             NEW k \in DOMAIN senders[i], NEW l \in DOMAIN senders[j],
             senders[i][k] = senders[j][l]
      PROVE  i = j /\ k = l
  <2>1. senders[i][k] \in Ops
    BY DEF TypeOK
  <2>2. In(senders[i], senders[i][k]) /\ In(senders[j], senders[i][k])
    BY <1>2 DEF In
  <2>3. i = j
    BY <2>1, <2>2 DEF UniqueInv
  <2>4. QED
    BY <1>2, <2>3 DEF UniqueInv, Injective
<1>3. ASSUME NEW o \in Ops
      PROVE  /\ \A i, j \in Pool : Running(o, i) => ~Queued(o, j) /\ (Running(o, j) => i = j)
             /\ slot[o] # "none" => \A i \in Pool : ~Running(o, i) /\ ~Queued(o, i)
             /\ Waits(o) /\ slot[o] = "none" =>
                  PoolDamaged \/ \E i \in Pool : Running(o, i) \/ Queued(o, i)
  BY <1>1 DEF UniqueInv, PlaceInv, Absent
<1>4. QED
  BY <1>2, <1>3 DEF ClosureOnce

(* HoochPool::init establishes the invariant.                               *)
LEMMA InitOInv == Init => OInv
<1> SUFFICES ASSUME Init PROVE OInv
  OBVIOUS
<1> USE OffloadAssumption
<1>1. TypeOK
  <2>1. 0 \in Pool /\ 0 \in 0 .. MaxOther /\ 0 \in 0 .. MaxPanics
    BY DEF Pool
  <2>2. {} \subseteq Ops /\ <<>> \in Seq(Ops) /\ "new" \in Phase
    BY DEF Phase
  <2>3. QED
    BY <2>1, <2>2 DEF Init, TypeOK
<1>2. \A i \in Pool : senders[i] = <<>> /\ ppc[i] = "recv"
  BY DEF Init
<1>3. \A i \in Pool : \A o : ~In(senders[i], o) /\ ~Running(o, i)
  BY <1>2 DEF In, Running
<1>4. UniqueInv
  BY <1>2, <1>3 DEF UniqueInv, Injective
<1>5. PlaceInv /\ PolledInv
  BY <1>3 DEF Init, PlaceInv, PolledInv, Absent, Waits
<1>6. JobInv
  BY <1>2 DEF JobInv
<1>7. WakeInv
  BY DEF Init, WakeInv, NetNoLostWake, TagServed, Waits, Ops
<1>8. QED
  BY <1>1, <1>4, <1>5, <1>6, <1>7 DEF OInv

-----------------------------------------------------------------------------
(* Every step keeps the types; the cursor stays an index of the pool even   *)
(* when two calls of get_and_update_index interleave.                       *)
LEMMA TypeStep ==
  ASSUME TypeOK, JobInv, [Next]_vars
  PROVE  TypeOK'
<1> USE OffloadAssumption DEF poolVars, futureVars, reactorVars, boundVars
<1>1. CASE UNCHANGED vars
  BY <1>1 DEF TypeOK, vars
<1>2. ASSUME NEW o \in Ops, Create(o) PROVE TypeOK'
  BY <1>2, AppendMember DEF TypeOK, Create, Goto, Phase
<1>3. ASSUME NEW o \in Ops, FutureStep(o) PROVE TypeOK'
  <2>1. CASE RegisterTag(o)
    BY <2>1, AppendMember DEF TypeOK, RegisterTag, Goto, Phase
  <2>2. CASE StoreWaker(o)
    BY <2>2 DEF TypeOK, StoreWaker, Goto, Phase
  <2>3. CASE ResolveAddr(o)
    BY <2>3 DEF TypeOK, ResolveAddr, Goto, Phase
  <2>4. CASE LoadCursor(o)
    BY <2>4 DEF TypeOK, LoadCursor, Goto, Phase
  <2>5. CASE StoreCursor(o)
    <3>1. NextIdx(idx[o]) \in Pool
      BY DEF TypeOK, NextIdx, Pool
    <3>2. QED
      BY <2>5, <3>1 DEF TypeOK, StoreCursor, Goto, Phase
  <2>6. CASE Execute(o)
    <3>1. idx[o] \in Pool /\ Append(senders[idx[o]], o) \in Seq(Ops)
      BY AppendMember DEF TypeOK
    <3>2. phase' \in [Ops -> Phase]
      BY <2>6 DEF TypeOK, Execute, Goto, Phase
    <3>3. senders' \in [Pool -> Seq(Ops)]
      <4>1. \/ senders' = senders
            \/ senders' = [senders EXCEPT ![idx[o]] = Append(senders[idx[o]], o)]
        BY <2>6 DEF Execute
      <4>2. QED
        BY <3>1, <4>1 DEF TypeOK
    <3>4. QED
      BY <2>6, <3>2, <3>3 DEF TypeOK, Execute
  <2>7. CASE ReturnPending(o)
    BY <2>7 DEF TypeOK, ReturnPending, Goto, Phase
  <2>8. CASE Poll(o)
    <3>1. phase' \in [Ops -> Phase] /\ slot' \in [Ops -> {"none", "some", "taken"}]
      BY <2>8 DEF TypeOK, Poll, Phase
    <3>2. has_polled' \subseteq Ops /\ scheduled' \subseteq Ops
      BY <2>8 DEF TypeOK, Poll, SetsHasPolled
    <3>3. QED
      BY <2>8, <3>1, <3>2 DEF TypeOK, Poll
  <2>9. QED
    BY <1>3, <2>1, <2>2, <2>3, <2>4, <2>5, <2>6, <2>7, <2>8 DEF FutureStep
<1>4. ASSUME NEW o \in Ops, DropFuture(o) \/ Move(o) PROVE TypeOK'
  BY <1>4 DEF TypeOK, DropFuture, Move, Goto, Phase
<1>5. ASSUME NEW o \in Ops, OtherWake(o) PROVE TypeOK'
  BY <1>5 DEF TypeOK, OtherWake
<1>6. ASSUME NEW i \in Pool, PoolStep(i) PROVE TypeOK'
  <2>1. CASE PoolRecv(i)
    <3>1. Head(senders[i]) \in Ops /\ Tail(senders[i]) \in Seq(Ops)
      BY <2>1, TailMember DEF TypeOK, PoolRecv
    <3>2. QED
      BY <2>1, <3>1 DEF TypeOK, PoolRecv
  <2>2. CASE PoolRun(i)
    <3>1. job[i] \in Ops
      BY <2>2 DEF PoolRun, JobInv
    <3>2. QED
      BY <2>2, <3>1 DEF TypeOK, PoolRun
  <2>3. CASE PoolWake(i)
    <3>1. job[i] \in Ops
      BY <2>3 DEF PoolWake, JobInv
    <3>2. mio_wake' \in BOOLEAN
      BY <2>3, Zenon DEF TypeOK, PoolWake, Signal
    <3>3. scheduled' \subseteq Ops
      BY <2>3, <3>1 DEF TypeOK, PoolWake, WakeTask
    <3>4. QED
      BY <2>3, <3>2, <3>3 DEF TypeOK, PoolWake
  <2>4. QED
    BY <1>6, <2>1, <2>2, <2>3 DEF PoolStep
<1>7. ASSUME NEW i \in Pool, PoolPanic(i) PROVE TypeOK'
  BY <1>7 DEF TypeOK, PoolPanic
<1>8. CASE ReactorStep
  <2>1. CASE ReactorPoll
    BY <2>1 DEF TypeOK, ReactorPoll
  <2>2. CASE ReactorPop
    <3>1. CASE tags # <<>>
      <4>1. Head(tags) \in Ops /\ Tail(tags) \in Seq(Ops)
        BY <3>1, TailMember DEF TypeOK
      <4>2. QED
        BY <2>2, <3>1, <4>1 DEF TypeOK, ReactorPop
    <3>2. CASE tags = <<>>
      BY <2>2, <3>2 DEF TypeOK, ReactorPop
    <3>3. QED
      BY <3>1, <3>2
  <2>3. CASE ReactorLookup
    BY <2>3 DEF TypeOK, ReactorLookup
  <2>4. QED
    BY <1>8, <2>1, <2>2, <2>3 DEF ReactorStep
<1>9. CASE OtherMioWake
  BY <1>9 DEF TypeOK, OtherMioWake
<1>10. QED
  BY <1>1, <1>2, <1>3, <1>4, <1>5, <1>6, <1>7, <1>8, <1>9 DEF Next

(* Only a poll that finds has_polled unset sets it, and leaves "created".   *)
LEMMA PolledStep ==
  ASSUME TypeOK, PolledInv, [Next]_vars
  PROVE  PolledInv'
<1>1. ASSUME UNCHANGED has_polled,
             \A o \in Ops : phase'[o] \in {"new", "created"} <=> phase[o] \in {"new", "created"}
      PROVE  PolledInv'
  BY <1>1 DEF PolledInv
<1>2. ASSUME UNCHANGED vars PROVE PolledInv'
  BY <1>1, <1>2 DEF vars, futureVars
<1>3. ASSUME NEW o \in Ops, Create(o) \/ FutureStep(o) \/ DropFuture(o), ~Poll(o)
      PROVE  PolledInv'
  <2>1. UNCHANGED has_polled
    BY <1>3 DEF Create, FutureStep, RegisterTag, StoreWaker, ResolveAddr, LoadCursor, StoreCursor,
                Execute, ReturnPending, DropFuture
  <2>2. PICK from \in Phase, to \in Phase :
          /\ Goto(o, from, to)
          /\ from \in {"new", "created"} <=> to \in {"new", "created"}
    BY <1>3 DEF Create, FutureStep, RegisterTag, StoreWaker, ResolveAddr, LoadCursor, StoreCursor,
                Execute, ReturnPending, DropFuture, Phase
  <2>3. \A x \in Ops : phase'[x] \in {"new", "created"} <=> phase[x] \in {"new", "created"}
    BY <2>2 DEF Goto, TypeOK
  <2>4. QED
    BY <1>1, <2>1, <2>3
<1>4. ASSUME NEW o \in Ops, Poll(o) PROVE PolledInv'
  <2>1. has_polled' = has_polled \cup {o}
    BY <1>4 DEF Poll, SetsHasPolled
  <2>2. /\ phase'[o] \notin {"new", "created"}
        /\ \A x \in Ops : x # o => phase'[x] = phase[x]
    BY <1>4 DEF Poll, TypeOK
  <2>3. QED
    BY <2>1, <2>2 DEF PolledInv
<1>5. ASSUME NEW o \in Ops, Move(o) \/ OtherWake(o) PROVE PolledInv'
  BY <1>1, <1>5 DEF Move, OtherWake, futureVars
<1>6. ASSUME NEW i \in Pool, PoolStep(i) \/ PoolPanic(i) PROVE PolledInv'
  BY <1>1, <1>6 DEF PoolStep, PoolRecv, PoolRun, PoolWake, PoolPanic, futureVars
<1>7. ASSUME ReactorStep \/ OtherMioWake PROVE PolledInv'
  BY <1>1, <1>7 DEF ReactorStep, ReactorPoll, ReactorPop, ReactorLookup, OtherMioWake, futureVars
<1>8. QED
  BY <1>2, <1>3, <1>4, <1>5, <1>6, <1>7 DEF Next

-----------------------------------------------------------------------------
(* A step that leaves pool and results alone and parks nothing keeps the    *)
(* places of the closures.                                                  *)
LEMMA PlacesUntouched ==
  ASSUME UniqueInv, PlaceInv, JobInv, UNCHANGED <<poolVars, slot>>,
         \A o \in Ops : /\ phase'[o] \in Before => phase[o] \in Before
                        /\ Waits(o)' => Waits(o)
  PROVE  UniqueInv' /\ PlaceInv' /\ JobInv'
<1>1. senders' = senders /\ ppc' = ppc /\ job' = job /\ slot' = slot
  BY DEF poolVars
<1>2. /\ \A o, i : Running(o, i)' <=> Running(o, i)
      /\ PoolDamaged' <=> PoolDamaged
  BY <1>1 DEF Running, PoolDamaged
<1>3. \A o : Absent(o)' <=> Absent(o)
  BY <1>1, <1>2 DEF Absent
<1>4. UniqueInv'
  BY <1>1, <1>2 DEF UniqueInv
<1>5. PlaceInv'
  BY <1>1, <1>2, <1>3 DEF PlaceInv
<1>6. JobInv'
  BY <1>1 DEF JobInv
<1>7. QED
  BY <1>4, <1>5, <1>6

(* execute: the closure enters the pool, in one channel.                    *)
LEMMA PlacesExecute ==
  ASSUME TypeOK, UniqueInv, PlaceInv, JobInv, NEW o \in Ops, Execute(o)
  PROVE  UniqueInv' /\ PlaceInv' /\ JobInv'
<1> DEFINE p == idx[o]
<1>1. p \in Pool /\ phase[o] = "send" /\ slot[o] = "none" /\ Absent(o)
  BY DEF TypeOK, Execute, Goto, PlaceInv, Before
<1>2. CASE ppc[p] = "dead"
  <2>1. UNCHANGED <<poolVars, slot>> /\ phase' = [phase EXCEPT ![o] = "panicked"]
    BY <1>2 DEF Execute, Goto, poolVars
  <2>2. QED
    BY <1>1, <2>1, PlacesUntouched DEF TypeOK, Before, Waits
<1>3. CASE ppc[p] # "dead"
  <2>1. /\ senders' = [senders EXCEPT ![p] = Append(@, o)]
        /\ phase' = [phase EXCEPT ![o] = "return"]
        /\ UNCHANGED <<ppc, job, slot>>
    BY <1>3 DEF Execute, Goto
  <2>2. /\ \A x, i : Running(x, i)' <=> Running(x, i)
        /\ PoolDamaged' <=> PoolDamaged
    BY <2>1 DEF Running, PoolDamaged
  <2>3. senders[p] \in Seq(Ops) /\ ~In(senders[p], o)
    BY <1>1 DEF TypeOK, Absent
  <2>4. /\ Injective(senders[p]) => Injective(senders'[p])
        /\ \A x : In(senders'[p], x) <=> In(senders[p], x) \/ x = o
        /\ \A i \in Pool \ {p} : senders'[i] = senders[i]
    BY <1>1, <2>1, <2>3, AppendMember DEF TypeOK
  <2>5. UniqueInv'
    <3>1. \A i \in Pool : Injective(senders'[i])
      BY <2>4 DEF UniqueInv
    <3>2. \A x \in Ops, i, j \in Pool : In(senders'[i], x) /\ In(senders'[j], x) => i = j
      BY <1>1, <2>4 DEF UniqueInv, Absent
    <3>3. \A x \in Ops, i, j \in Pool :
            Running(x, i) => ~In(senders'[j], x) /\ (Running(x, j) => i = j)
      BY <1>1, <2>4 DEF UniqueInv, Absent
    <3>4. QED
      BY <2>2, <3>1, <3>2, <3>3 DEF UniqueInv
  <2>6. PlaceInv'
    <3>1. \A x \in Ops : x # o => (Absent(x)' <=> Absent(x))
      BY <1>1, <2>2, <2>4 DEF Absent
    <3>2. ~Absent(o)'
      BY <1>1, <2>4 DEF Absent
    <3>3. \A x \in Ops : x # o => phase'[x] = phase[x]
      BY <2>1 DEF TypeOK
    <3>4. phase'[o] = "return" /\ slot' = slot
      BY <2>1 DEF TypeOK
    <3>5. QED
      BY <1>1, <2>2, <3>1, <3>2, <3>3, <3>4 DEF PlaceInv, Before, Waits
  <2>7. JobInv'
    BY <2>1 DEF JobInv
  <2>8. QED
    BY <2>5, <2>6, <2>7
<1>4. QED
  BY <1>2, <1>3

(* recv of a pool thread: the closure moves from the channel to the thread. *)
LEMMA PlacesRecv ==
  ASSUME TypeOK, UniqueInv, PlaceInv, JobInv, NEW p \in Pool, PoolRecv(p)
  PROVE  UniqueInv' /\ PlaceInv' /\ JobInv'
<1>0. PICK o \in Ops : o = Head(senders[p])
  BY TailMember DEF PoolRecv, TypeOK
<1>1. /\ ppc[p] = "recv"
      /\ senders[p] # <<>> /\ senders[p] \in Seq(Ops)
      /\ job' = [job EXCEPT ![p] = o]
      /\ senders' = [senders EXCEPT ![p] = Tail(@)]
      /\ ppc' = [ppc EXCEPT ![p] = "run"]
      /\ UNCHANGED <<phase, slot>>
  BY <1>0 DEF PoolRecv, futureVars, TypeOK
<1>2. /\ In(senders[p], o)
      /\ ~In(senders'[p], o)
      /\ Injective(senders'[p])
      /\ \A x : In(senders[p], x) <=> In(senders'[p], x) \/ x = o
      /\ \A i \in Pool \ {p} : senders'[i] = senders[i]
  BY <1>0, <1>1, TailMember DEF TypeOK, UniqueInv
<1>3. \A x \in Ops, i \in Pool :
        Running(x, i)' <=> Running(x, i) \/ (x = o /\ i = p)
  BY <1>1 DEF Running, TypeOK
<1>4. UniqueInv'
  <2>1. \A i \in Pool : Injective(senders'[i])
    BY <1>2 DEF UniqueInv
  <2>2. \A x \in Ops, i, j \in Pool : In(senders'[i], x) /\ In(senders'[j], x) => i = j
    BY <1>2 DEF UniqueInv
  <2>3. \A i \in Pool : ~In(senders'[i], o) /\ ~Running(o, i)
    BY <1>2 DEF UniqueInv
  <2>4. \A x \in Ops, i, j \in Pool :
          Running(x, i)' => ~In(senders'[j], x) /\ (Running(x, j)' => i = j)
    BY <1>2, <1>3, <2>3 DEF UniqueInv
  <2>5. QED
    BY <2>1, <2>2, <2>4 DEF UniqueInv
<1>5. PlaceInv'
  <2>1. \A x \in Ops : x # o => (Absent(x)' <=> Absent(x))
    BY <1>2, <1>3 DEF Absent
  <2>2. ~Absent(o)' /\ ~Absent(o)
    BY <1>2, <1>3 DEF Absent
  <2>3. PoolDamaged => PoolDamaged'
    BY <1>1 DEF PoolDamaged, TypeOK
  <2>4. QED
    BY <1>1, <2>1, <2>2, <2>3 DEF PlaceInv, Waits
<1>6. JobInv'
  BY <1>1, <1>2 DEF JobInv, TypeOK
<1>7. QED
  BY <1>4, <1>5, <1>6

(* A pool thread stores the result, wakes, or dies: its closure is gone.    *)
LEMMA PlacesLeave ==
  ASSUME TypeOK, UniqueInv, PlaceInv, JobInv, NEW p \in Pool,
         PoolRun(p) \/ PoolWake(p) \/ PoolPanic(p)
  PROVE  UniqueInv' /\ PlaceInv' /\ JobInv'
<1>1. PICK o \in Ops : o = job[p]
  BY DEF PoolRun, PoolWake, PoolPanic, JobInv
<1>2. CASE PoolRun(p)
  <2>1. /\ Running(o, p)
        /\ slot' = [slot EXCEPT ![o] = "some"]
        /\ ppc' = [ppc EXCEPT ![p] = "wake"]
        /\ UNCHANGED <<senders, job, phase>>
    BY <1>1, <1>2 DEF PoolRun, Running, futureVars
  <2>2. \A x \in Ops, i \in Pool : Running(x, i)' <=> Running(x, i) /\ i # p
    BY <2>1 DEF Running, TypeOK
  <2>3. /\ \A x \in Ops : Absent(x) => Absent(x)'
        /\ \A x \in Ops : x # o /\ Absent(x)' => Absent(x)
        /\ Absent(o)'
    BY <1>1, <2>1, <2>2 DEF Absent, Running, UniqueInv
  <2>4. PoolDamaged => PoolDamaged'
    BY <1>2, <2>1 DEF PoolDamaged, TypeOK, PoolRun
  <2>5. /\ slot'[o] = "some" /\ \A x \in Ops : x # o => slot'[x] = slot[x]
        /\ phase[o] \notin Before
    BY <1>1, <2>1 DEF TypeOK, PlaceInv, Absent
  <2>6. PlaceInv'
    BY <2>1, <2>3, <2>4, <2>5 DEF PlaceInv, Waits
  <2>7. UniqueInv'
    BY <2>1, <2>2 DEF UniqueInv
  <2>8. JobInv'
    <3>1. \A i \in Pool : ppc'[i] \in {"run", "wake"} => ppc[i] \in {"run", "wake"}
      BY <1>2, <2>1 DEF TypeOK, PoolRun
    <3>2. \A i \in Pool : ppc'[i] = "wake" => slot'[job[i]] # "none"
      BY <1>1, <2>1, <2>5 DEF TypeOK, JobInv
    <3>3. QED
      BY <2>1, <3>1, <3>2 DEF JobInv
  <2>9. QED
    BY <2>6, <2>7, <2>8
<1>3. CASE PoolWake(p) \/ PoolPanic(p)
  <2>1. /\ ppc[p] = "wake"
        /\ ppc' = [ppc EXCEPT ![p] = "recv"] \/ ppc' = [ppc EXCEPT ![p] = "dead"]
        /\ job' = [job EXCEPT ![p] = None]
        /\ UNCHANGED <<phase, slot>>
        /\ \/ UNCHANGED senders
           \/ /\ senders' = [senders EXCEPT ![p] = <<>>]
              /\ ppc' = [ppc EXCEPT ![p] = "dead"]
    BY <1>3 DEF PoolWake, PoolPanic, futureVars
  <2>2. \A x \in Ops, i \in Pool : Running(x, i)' <=> Running(x, i)
    BY <2>1 DEF Running, TypeOK
  <2>3. PoolDamaged => PoolDamaged'
    BY <2>1 DEF PoolDamaged, TypeOK
  <2>4. JobInv'
    BY <2>1 DEF JobInv, TypeOK
  <2>5. CASE senders' = senders
    <3>1. \A x \in Ops : Absent(x)' <=> Absent(x)
      BY <2>2, <2>5 DEF Absent
    <3>2. UniqueInv' /\ PlaceInv'
      BY <2>1, <2>2, <2>3, <2>5, <3>1 DEF UniqueInv, PlaceInv, Waits
    <3>3. QED
      BY <2>4, <3>2
  <2>6. CASE /\ senders' = [senders EXCEPT ![p] = <<>>]
             /\ ppc' = [ppc EXCEPT ![p] = "dead"]
    <3>1. PoolDamaged'
      BY <2>6 DEF PoolDamaged, TypeOK
    <3>2. /\ senders'[p] = <<>> /\ \A i \in Pool \ {p} : senders'[i] = senders[i]
          /\ \A x : ~In(<<>>, x)
          /\ Injective(<<>>)
      BY <2>6 DEF TypeOK, In, Injective
    <3>3. /\ \A i \in Pool : Injective(senders'[i])
          /\ \A x \in Ops, i \in Pool : In(senders'[i], x) => In(senders[i], x)
      BY <3>2 DEF UniqueInv
    <3>4. UniqueInv'
      BY <2>2, <3>3 DEF UniqueInv
    <3>5. \A x \in Ops : Absent(x) => Absent(x)'
      BY <2>2, <3>3 DEF Absent
    <3>6. PlaceInv'
      BY <2>1, <3>1, <3>5 DEF PlaceInv, Waits
    <3>7. QED
      BY <2>4, <3>4, <3>6
  <2>7. QED
    BY <2>1, <2>5, <2>6
<1>4. QED
  BY <1>2, <1>3

-----------------------------------------------------------------------------
(* TagServed, with membership.                                              *)
LEMMA TagServedIn ==
  TagServed <=>
    \A f \in Files :
      Waits(f) /\ slot[f] = "some" /\ In(tags, f) =>
        mio_wake \/ loop # "poll" \/ PoolDamaged \/ \E i \in Pool : Waking(f, i)
BY DEF TagServed, In

(* A step keeps WakeInv if it stores no result of a waiting future, loses   *)
(* no wake, and leaves no tag behind a sleeping reactor.                    *)
LEMMA WakesKept ==
  ASSUME WakeInv,
         \A o \in Ops : Waits(o)' /\ slot'[o] = "some" =>
           /\ Waits(o) /\ slot[o] = "some"
           /\ o \in scheduled \cup moved => o \in scheduled' \cup moved'
           /\ In(tags', o) => In(tags, o),
         \A o \in Ops, i \in Pool : Waking(o, i) => Waking(o, i)',
         PoolDamaged => PoolDamaged',
         mio_wake \/ loop # "poll" => mio_wake' \/ loop' # "poll" \/ tags' = <<>>
  PROVE  WakeInv'
<1>1. NetNoLostWake'
  BY DEF WakeInv, NetNoLostWake, Ops
<1>2. TagServed'
  <2>1. \A x : ~In(<<>>, x)
    BY DEF In
  <2>2. \A f \in Files :
          Waits(f)' /\ slot'[f] = "some" /\ In(tags', f) =>
            mio_wake' \/ loop' # "poll" \/ PoolDamaged' \/ \E i \in Pool : Waking(f, i)'
    BY <2>1, TagServedIn DEF WakeInv, Ops
  <2>3. QED
    BY <2>2 DEF TagServed, In
<1>3. QED
  BY <1>1, <1>2 DEF WakeInv

(* The closure stores its result, then wakes, or its thread dies.           *)
LEMMA WakesPool ==
  ASSUME TypeOK, UniqueInv, PlaceInv, JobInv, WakeInv, NEW p \in Pool,
         PoolRun(p) \/ PoolWake(p) \/ PoolPanic(p)
  PROVE  WakeInv'
<1> USE DEF reactorVars, futureVars, Waits
<1>1. PICK o \in Ops : o = job[p]
  BY DEF PoolRun, PoolWake, PoolPanic, JobInv
<1>2. CASE PoolPanic(p)
  <2>1. PoolDamaged'
    BY <1>2 DEF PoolPanic, PoolDamaged, TypeOK
  <2>2. QED
    BY <2>1 DEF WakeInv, NetNoLostWake, TagServed
<1>3. CASE PoolRun(p)
  <2>1. /\ Waking(o, p)'
        /\ slot' = [slot EXCEPT ![o] = "some"]
        /\ UNCHANGED <<phase, moved, scheduled, tags, mio_wake, loop>>
    BY <1>1, <1>3 DEF PoolRun, Waking, TypeOK
  <2>2. \A x \in Ops, i \in Pool : Waking(x, i) => Waking(x, i)'
    BY <1>3 DEF PoolRun, Waking, TypeOK
  <2>3. PoolDamaged => PoolDamaged'
    BY <1>3 DEF PoolRun, PoolDamaged, TypeOK
  <2>4. \A x \in Ops : x # o => slot'[x] = slot[x]
    BY <2>1 DEF TypeOK
  <2>5. NetNoLostWake'
    BY <2>1, <2>2, <2>3, <2>4 DEF WakeInv, NetNoLostWake, Ops
  <2>6. TagServed'
    BY <2>1, <2>2, <2>3, <2>4 DEF WakeInv, TagServed, Ops
  <2>7. QED
    BY <2>5, <2>6 DEF WakeInv
<1>4. CASE PoolWake(p)
  <2>1. /\ mio_wake' = (mio_wake \/ o \in Files)
        /\ scheduled' = IF o \in Nets \ moved THEN scheduled \cup {o} ELSE scheduled
        /\ UNCHANGED <<phase, moved, slot, tags, loop>>
    BY <1>1, <1>4 DEF PoolWake, Signal, WakeTask
  <2>2. \A x \in Ops, i \in Pool : Waking(x, i) => Waking(x, i)' \/ x = o
    BY <1>1, <1>4 DEF PoolWake, Waking, TypeOK
  <2>3. PoolDamaged => PoolDamaged'
    BY <1>4 DEF PoolWake, PoolDamaged, TypeOK
  <2>4. NetNoLostWake'
    BY <2>1, <2>2, <2>3 DEF WakeInv, NetNoLostWake, Ops
  <2>5. TagServed'
    <3>1. ASSUME NEW f \in Files, Waits(f)', slot'[f] = "some",
                 \E k \in DOMAIN tags' : tags'[k] = f
          PROVE  mio_wake' \/ loop' # "poll" \/ PoolDamaged' \/ \E i \in Pool : Waking(f, i)'
      <4>1. mio_wake \/ loop # "poll" \/ PoolDamaged \/ \E i \in Pool : Waking(f, i)
        BY <2>1, <3>1 DEF WakeInv, TagServed
      <4>2. f \in Ops
        BY DEF Ops
      <4>3. CASE f = o
        BY <2>1, <4>3
      <4>4. CASE f # o
        BY <2>1, <2>2, <2>3, <4>1, <4>2, <4>4
      <4>5. QED
        BY <4>3, <4>4
    <3>2. QED
      BY <3>1 DEF TagServed
  <2>6. QED
    BY <2>4, <2>5 DEF WakeInv
<1>5. QED
  BY <1>2, <1>3, <1>4

(* Every step keeps the invariant.                                          *)
LEMMA StepOInv ==
  ASSUME OInv, [Next]_vars
  PROVE  OInv'
<1> USE DEF poolVars, futureVars, reactorVars, boundVars
<1> DEFINE P == UniqueInv' /\ PlaceInv' /\ JobInv' /\ WakeInv'
<1>0. TypeOK /\ UniqueInv /\ PlaceInv /\ PolledInv /\ JobInv /\ WakeInv
  BY DEF OInv
<1>1. TypeOK' /\ PolledInv'
  BY <1>0, TypeStep, PolledStep
<1>2. ASSUME UNCHANGED <<senders, ppc, job, slot>>,
             \A o \in Ops : /\ phase'[o] \in Before => phase[o] \in Before
                            /\ Waits(o)' => Waits(o)
                            /\ Waits(o)' /\ In(tags', o) => In(tags, o),
             scheduled \subseteq scheduled' /\ moved \subseteq moved',
             mio_wake \/ loop # "poll" => mio_wake' \/ loop' # "poll" \/ tags' = <<>>
      PROVE  P
  <2>1. UniqueInv' /\ PlaceInv' /\ JobInv'
    BY <1>0, <1>2, PlacesUntouched
  <2>2. /\ \A o \in Ops, i \in Pool : Waking(o, i) => Waking(o, i)'
        /\ PoolDamaged => PoolDamaged'
    BY <1>2 DEF Waking, PoolDamaged
  <2>3. WakeInv'
    BY <1>0, <1>2, <2>2, WakesKept
  <2>4. QED
    BY <2>1, <2>3
<1>3. ASSUME UNCHANGED vars PROVE P
  BY <1>2, <1>3 DEF vars, Waits
<1>4. ASSUME NEW o \in Ops, Create(o) \/ RegisterTag(o) PROVE P
  <2>1. /\ tags' = Append(tags, o)
        /\ UNCHANGED <<senders, ppc, job, moved, slot, scheduled, mio_wake, loop>>
    BY <1>4 DEF Create, RegisterTag
  <2>2. \A x : In(tags', x) <=> In(tags, x) \/ x = o
    BY <1>0, <2>1, AppendMember DEF TypeOK
  <2>3. /\ phase[o] \in Before /\ ~Waits(o)'
        /\ \A x \in Ops : x # o => phase'[x] = phase[x]
    BY <1>0, <1>4 DEF Create, RegisterTag, Goto, Before, Waits, TypeOK
  <2>4. QED
    BY <1>2, <2>1, <2>2, <2>3 DEF Waits
<1>5. ASSUME NEW o \in Ops,
             StoreWaker(o) \/ ResolveAddr(o) \/ LoadCursor(o) \/ StoreCursor(o)
      PROVE  P
  <2>1. UNCHANGED <<senders, ppc, job, moved, slot, tags, scheduled, mio_wake, loop>>
    BY <1>5 DEF StoreWaker, ResolveAddr, LoadCursor, StoreCursor
  <2>2. /\ phase[o] \in Before /\ ~Waits(o)'
        /\ \A x \in Ops : x # o => phase'[x] = phase[x]
    BY <1>0, <1>5 DEF StoreWaker, ResolveAddr, LoadCursor, StoreCursor, Goto, Before, Waits, TypeOK
  <2>3. QED
    BY <1>2, <2>1, <2>2 DEF Waits
<1>6. ASSUME NEW o \in Ops, Execute(o) PROVE P
  <2>1. UniqueInv' /\ PlaceInv' /\ JobInv'
    BY <1>0, <1>6, PlacesExecute
  <2>2. /\ UNCHANGED <<ppc, job, moved, slot, tags, scheduled, mio_wake, loop>>
        /\ slot[o] = "none"
        /\ \A x \in Ops : x # o => phase'[x] = phase[x]
    BY <1>0, <1>6 DEF Execute, Goto, PlaceInv, Before, TypeOK
  <2>3. /\ \A x \in Ops, i \in Pool : Waking(x, i) => Waking(x, i)'
        /\ PoolDamaged => PoolDamaged'
    BY <2>2 DEF Waking, PoolDamaged
  <2>4. WakeInv'
    BY <1>0, <2>2, <2>3, WakesKept DEF Waits
  <2>5. QED
    BY <2>1, <2>4
<1>7. ASSUME NEW o \in Ops, Poll(o) PROVE P
  <2>1. /\ UNCHANGED <<senders, ppc, job, moved, tags, mio_wake, loop>>
        /\ \A x \in Ops : x # o =>
             /\ phase'[x] = phase[x] /\ slot'[x] = slot[x]
             /\ x \in scheduled => x \in scheduled'
    BY <1>0, <1>7 DEF Poll, TypeOK
  <2>2. \/ /\ phase[o] \in Before /\ phase'[o] \in Before
           /\ slot'[o] = slot[o]
        \/ /\ phase[o] = "parked" /\ phase'[o] = "parked"
           /\ slot[o] # "some" /\ slot'[o] = slot[o]
        \/ /\ phase[o] = "parked" /\ phase'[o] = "ready"
           /\ slot[o] = "some" /\ slot'[o] = "taken"
    BY <1>0, <1>7 DEF Poll, PolledInv, HasResult, Before, TypeOK
  <2>3. /\ \A x \in Ops, i \in Pool : Waking(x, i) <=> Waking(x, i)'
        /\ \A x \in Ops, i \in Pool : Running(x, i) <=> Running(x, i)'
        /\ PoolDamaged <=> PoolDamaged'
    BY <2>1 DEF Waking, Running, PoolDamaged
  <2>4. \A x \in Ops : Absent(x)' <=> Absent(x)
    BY <2>1, <2>3 DEF Absent
  <2>5. UniqueInv'
    BY <1>0, <2>1, <2>3 DEF UniqueInv
  <2>6. PlaceInv'
    BY <1>0, <2>1, <2>2, <2>3, <2>4 DEF PlaceInv, Before, Waits
  <2>7. JobInv'
    <3>1. \A x \in Ops : slot[x] # "none" => slot'[x] # "none"
      BY <2>1, <2>2
    <3>2. QED
      BY <1>0, <2>1, <3>1 DEF JobInv
  <2>8. WakeInv'
    <3>1. \A x \in Ops : Waits(x)' /\ slot'[x] = "some" =>
            /\ Waits(x) /\ slot[x] = "some"
            /\ x \in scheduled \cup moved => x \in scheduled' \cup moved'
            /\ In(tags', x) => In(tags, x)
      BY <2>1, <2>2 DEF Before, Waits
    <3>2. QED
      BY <1>0, <2>1, <2>3, <3>1, WakesKept
  <2>9. QED
    BY <2>5, <2>6, <2>7, <2>8
<1>8. ASSUME NEW o \in Ops, DropFuture(o) PROVE P
  <2>1. /\ UNCHANGED <<senders, ppc, job, moved, slot, tags, scheduled, mio_wake, loop>>
        /\ phase'[o] = "dropped"
        /\ \A x \in Ops : x # o => phase'[x] = phase[x]
    BY <1>0, <1>8 DEF DropFuture, Goto, TypeOK
  <2>2. QED
    BY <1>2, <2>1 DEF Before, Waits
<1>9. ASSUME NEW o \in Ops, ReturnPending(o) PROVE P
  <2>1. /\ UNCHANGED <<senders, ppc, job, moved, slot, tags, scheduled, mio_wake, loop>>
        /\ phase[o] = "return" /\ phase'[o] = "parked"
        /\ \A x \in Ops : x # o => phase'[x] = phase[x]
    BY <1>0, <1>9 DEF ReturnPending, Goto, TypeOK
  <2>2. QED
    BY <1>2, <2>1 DEF Before, Waits
<1>10. ASSUME NEW o \in Ops, Move(o) \/ OtherWake(o) PROVE P
  BY <1>2, <1>10 DEF Move, OtherWake, Waits
<1>11. ASSUME NEW i \in Pool, PoolRecv(i) PROVE P
  <2>1. UniqueInv' /\ PlaceInv' /\ JobInv'
    BY <1>0, <1>11, PlacesRecv
  <2>2. UNCHANGED <<phase, moved, slot, tags, scheduled, mio_wake, loop>>
    BY <1>11 DEF PoolRecv
  <2>3. /\ \A x \in Ops, j \in Pool : Waking(x, j) => Waking(x, j)'
        /\ PoolDamaged => PoolDamaged'
    BY <1>0, <1>11 DEF PoolRecv, Waking, PoolDamaged, TypeOK
  <2>4. WakeInv'
    BY <1>0, <2>2, <2>3, WakesKept DEF Waits
  <2>5. QED
    BY <2>1, <2>4
<1>12. ASSUME NEW i \in Pool, PoolRun(i) \/ PoolWake(i) \/ PoolPanic(i) PROVE P
  BY <1>0, <1>12, PlacesLeave, WakesPool
<1>13. ASSUME ReactorPoll PROVE P
  BY <1>2, <1>13 DEF ReactorPoll, Waits
<1>14. ASSUME ReactorPop PROVE P
  <2>1. CASE tags # <<>>
    <3>1. \A x : In(tags, x) <=> In(Tail(tags), x) \/ x = Head(tags)
      BY <1>0, <2>1, TailMember DEF TypeOK
    <3>2. QED
      BY <1>2, <1>14, <2>1, <3>1 DEF ReactorPop, Waits
  <2>2. CASE tags = <<>>
    BY <1>2, <1>14, <2>2 DEF ReactorPop, Waits
  <2>3. QED
    BY <2>1, <2>2
<1>15. ASSUME ReactorLookup PROVE P
  BY <1>2, <1>15 DEF ReactorLookup, Waits
<1>16. ASSUME OtherMioWake PROVE P
  BY <1>2, <1>16 DEF OtherMioWake, Waits
<1>17. P
  BY <1>3, <1>4, <1>5, <1>6, <1>7, <1>8, <1>9, <1>10, <1>11, <1>12, <1>13, <1>14, <1>15,
     <1>16
  DEF Next, FutureStep, PoolStep, ReactorStep
<1>18. QED
  BY <1>1, <1>17 DEF OInv

(* The invariant holds in every reachable state of the pool.                *)
THEOREM OffloadInvariance == Spec => []OInv
BY InitOInv, StepOInv, PTL DEF Spec

(* Type correctness: the cursor of HoochPool always is the index of a       *)
(* thread, although its load and store are two steps.                       *)
THEOREM OffloadTypeCorrect == Spec => []TypeOK
<1>1. OInv => TypeOK
  BY DEF OInv
<1>2. QED
  BY <1>1, OffloadInvariance, PTL

(* execute neither loses nor doubles a closure, for any number of threads   *)
(* and any interleaving of get_and_update_index.                            *)
THEOREM ClosuresOnce == Spec => []ClosureOnce
<1>1. OInv => ClosureOnce
  BY UniqueGivesOnce DEF OInv
<1>2. QED
  BY <1>1, OffloadInvariance, PTL

(* A connect or bind that waits with its result there has its wake under    *)
(* way, for any interleaving of its first poll with the pool thread, unless *)
(* the future has moved to another task.                                    *)
THEOREM NetsWoken == Spec => []NetNoLostWake
<1>1. OInv => NetNoLostWake
  BY DEF OInv, WakeInv
<1>2. QED
  BY <1>1, OffloadInvariance, PTL

(* A file's tag that is still registered when its result arrives is served  *)
(* by the reactor.                                                          *)
THEOREM TagsServed == Spec => []TagServed
<1>1. OInv => TagServed
  BY DEF OInv, WakeInv
<1>2. QED
  BY <1>1, OffloadInvariance, PTL

=============================================================================
