--------------------------- MODULE SequenceLemmas ---------------------------
(***************************************************************************)
(* Members of the runtime's channels and buffers under a push and a pop:   *)
(* what the proofs of the scheduler and of the thread pool share.          *)
(***************************************************************************)
EXTENDS Naturals, Sequences, TLAPS

(* Sequences without duplicates, and membership.                            *)
Injective(s) == \A i, j \in DOMAIN s : s[i] = s[j] => i = j
In(s, x)     == \E i \in DOMAIN s : s[i] = x

(* Appending adds one member at the end and keeps an injective sequence     *)
(* injective if the member is new: a push of waiting_executors or a send.   *)
LEMMA AppendMember ==
  ASSUME NEW S, NEW s \in Seq(S), NEW x \in S
  PROVE  /\ Append(s, x) \in Seq(S)
         /\ Append(s, x) # <<>>
         /\ Len(Append(s, x)) = Len(s) + 1
         /\ \A y : In(Append(s, x), y) <=> In(s, y) \/ y = x
         /\ Injective(s) /\ ~In(s, x) => Injective(Append(s, x))
<1>1. /\ Append(s, x) \in Seq(S)
      /\ Len(Append(s, x)) = Len(s) + 1
      /\ DOMAIN s = 1..Len(s)
      /\ DOMAIN Append(s, x) = 1..(Len(s) + 1)
      /\ Len(s) \in Nat
      /\ \A i \in 1..Len(s) : Append(s, x)[i] = s[i]
      /\ Append(s, x)[Len(s) + 1] = x
  OBVIOUS
<1>2. Append(s, x) # <<>>
  BY <1>1
<1>3. \A y : In(Append(s, x), y) <=> In(s, y) \/ y = x
  BY <1>1 DEF In
<1>4. Injective(s) /\ ~In(s, x) => Injective(Append(s, x))
  BY <1>1 DEF In, Injective
<1>5. QED
  BY <1>1, <1>2, <1>3, <1>4

(* Removing the head of an injective sequence removes exactly that member:  *)
(* a pop of waiting_executors or a receive.                                 *)
LEMMA TailMember ==
  ASSUME NEW S, NEW s \in Seq(S), s # <<>>
  PROVE  /\ Head(s) \in S
         /\ Tail(s) \in Seq(S)
         /\ Len(Tail(s)) = Len(s) - 1
         /\ \A y : In(s, y) <=> In(Tail(s), y) \/ y = Head(s)
         /\ Injective(s) => Injective(Tail(s)) /\ ~In(Tail(s), Head(s))
<1>1. /\ Tail(s) \in Seq(S)
      /\ Len(s) \in Nat
      /\ Len(s) > 0
      /\ Len(Tail(s)) = Len(s) - 1
      /\ DOMAIN s = 1..Len(s)
      /\ DOMAIN Tail(s) = 1..(Len(s) - 1)
      /\ \A i \in 1..(Len(s) - 1) : Tail(s)[i] = s[i + 1]
      /\ Head(s) = s[1]
      /\ Head(s) \in S
  OBVIOUS
<1>2. \A y : In(s, y) <=> In(Tail(s), y) \/ y = Head(s)
  <2>1. \A i \in 1..Len(s) : i = 1 \/ i - 1 \in 1..(Len(s) - 1)
    BY <1>1
  <2>2. \A i \in 2..Len(s) : s[i] = Tail(s)[i - 1]
    BY <1>1
  <2>3. ASSUME NEW i \in 1..Len(s), i # 1
        PROVE  In(Tail(s), s[i])
    <3>1. i - 1 \in DOMAIN Tail(s) /\ Tail(s)[i - 1] = s[i]
      BY <1>1, <2>1, <2>2, <2>3
    <3>2. QED
      BY <3>1 DEF In
  <2>4. ASSUME NEW i \in 1..(Len(s) - 1)
        PROVE  In(s, Tail(s)[i])
    <3>1. i + 1 \in DOMAIN s /\ s[i + 1] = Tail(s)[i]
      BY <1>1
    <3>2. QED
      BY <3>1 DEF In
  <2>5. In(s, Head(s))
    BY <1>1 DEF In
  <2>6. ASSUME NEW y, In(s, y)
        PROVE  In(Tail(s), y) \/ y = Head(s)
    BY <1>1, <2>3, <2>6 DEF In
  <2>7. ASSUME NEW y, In(Tail(s), y) \/ y = Head(s)
        PROVE  In(s, y)
    <3>1. CASE In(Tail(s), y)
      <4>1. PICK i \in 1..(Len(s) - 1) : Tail(s)[i] = y
        BY <1>1, <3>1 DEF In
      <4>2. QED
        BY <2>4, <4>1
    <3>2. QED
      BY <2>5, <2>7, <3>1
  <2>8. QED
    BY <2>6, <2>7
<1>3. Injective(s) => Injective(Tail(s)) /\ ~In(Tail(s), Head(s))
  <2>1. \A i \in 1..(Len(s) - 1) : i + 1 \in 1..Len(s) /\ i + 1 # 1
    BY <1>1
  <2>2. QED
    BY <1>1, <2>1 DEF In, Injective
<1>4. QED
  BY <1>1, <1>2, <1>3

(* The tail of a sequence of one element is empty: the receive from a       *)
(* channel that holds one task.                                             *)
LEMMA TailOfSingleton ==
  ASSUME NEW S, NEW s \in Seq(S), s # <<>>, Len(s) <= 1
  PROVE  Tail(s) = <<>>
<1>1. Len(s) \in Nat /\ Len(s) # 0
  OBVIOUS
<1>2. Len(s) = 1
  BY <1>1
<1>3. Tail(s) \in Seq(S) /\ Len(Tail(s)) = 0
  BY <1>2, TailMember
<1>4. QED
  BY <1>3

=============================================================================
