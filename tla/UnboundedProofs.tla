--------------------------- MODULE UnboundedProofs ---------------------------
(***************************************************************************)
(* Proofs about the unbounded channel, for any set of producers and any    *)
(* number of Puts.                                                         *)
(***************************************************************************)
EXTENDS Unbounded, SequenceTheorems, TLAPS

(* The element that a Put makes is within the bound.                       *)
LEMMA PutMakesElement ==
  ASSUME NEW p \in Producers, TypeOK, Put(p)
  PROVE  [by |-> p, n |-> Len(accepted) + 1] \in Element
<1>1. Len(accepted) \in Nat
  BY LenProperties DEF TypeOK
<1> QED BY <1>1, MaxPutsAssumption DEF Put, Element

(* Shape of the state: the types that all the other proofs start from.     *)
THEOREM TypeCorrect == Spec => []TypeOK
<1>1. Init => TypeOK
  BY DEF Init, TypeOK
<1>2. TypeOK /\ [Next]_vars => TypeOK'
  <2> SUFFICES ASSUME TypeOK, [Next]_vars PROVE TypeOK'
    OBVIOUS
  <2> USE DEF TypeOK
  <2>1. ASSUME NEW p \in Producers, Put(p) PROVE TypeOK'
    <3>1. [by |-> p, n |-> Len(accepted) + 1] \in Element
      BY <2>1, PutMakesElement
    <3> QED BY <2>1, <3>1 DEF Put
  <2>2. ASSUME NEW p \in Producers, Signal(p) PROVE TypeOK'
    BY <2>2 DEF Signal, Send
  <2>3. CASE Wake \/ Poll
    BY <2>3 DEF Wake, Poll
  <2>4. CASE Get
    BY <2>4 DEF Get, Cleared
  <2>5. CASE Handle
    <3>1. Head(batch) \in Element /\ Tail(batch) \in Seq(Element)
      BY <2>5, HeadTailProperties DEF Handle
    <3> QED BY <2>5, <3>1 DEF Handle
  <2>6. CASE Resume
    BY <2>6 DEF Resume
  <2>7. CASE UNCHANGED vars
    BY <2>7 DEF vars
  <2> QED BY <2>1, <2>2, <2>3, <2>4, <2>5, <2>6, <2>7 DEF Next
<1> QED BY <1>1, <1>2, PTL DEF Spec

(* No element is ever stranded: while the slice is non-empty somebody      *)
(* still has to wake the consumer, or already has.  The invariant is       *)
(* inductive because only the Put that makes the slice non-empty enters    *)
(* `pending`, and only Get, which empties the slice, leaves "get".         *)
THEOREM WakeupSafe == Spec => []NoLostWakeup
<1>1. Init => NoLostWakeup
  BY DEF Init, NoLostWakeup
<1>2. NoLostWakeup /\ [Next]_vars => NoLostWakeup'
  <2> SUFFICES ASSUME NoLostWakeup, [Next]_vars PROVE NoLostWakeup'
    OBVIOUS
  <2> USE DEF NoLostWakeup
  <2>1. ASSUME NEW p \in Producers, Put(p) PROVE NoLostWakeup'
    BY <2>1 DEF Put, Empty
  <2>2. ASSUME NEW p \in Producers, Signal(p) PROVE NoLostWakeup'
    BY <2>2 DEF Signal, Send
  <2>3. CASE Wake \/ Poll
    BY <2>3 DEF Wake, Poll
  <2>4. CASE Get
    BY <2>4 DEF Get, Cleared
  <2>5. CASE Handle
    BY <2>5 DEF Handle
  <2>6. CASE Resume
    BY <2>6 DEF Resume
  <2>7. CASE UNCHANGED vars
    BY <2>7 DEF vars
  <2> QED BY <2>1, <2>2, <2>3, <2>4, <2>5, <2>6, <2>7 DEF Next
<1> QED BY <1>1, <1>2, PTL DEF Spec

-----------------------------------------------------------------------------
(***************************************************************************)
(* The order.  Fifo is inductive only once Get is known to find an empty   *)
(* batch: the consumer is in "get" only after it exhausted the last one.   *)
(***************************************************************************)
BatchOnlyWhileHandling == batch # <<>> => consumer = "handle"

(* Moving the head of the batch to the end of what was handled leaves the  *)
(* concatenation alone.                                                    *)
LEMMA HeadMoves ==
  ASSUME NEW S, NEW h \in Seq(S), NEW b \in Seq(S), b # <<>>
  PROVE  Append(h, Head(b)) \o Tail(b) = h \o b
<1>1. Head(b) \in S /\ Tail(b) \in Seq(S) /\ Len(Tail(b)) = Len(b) - 1
      /\ Head(b) = b[1] /\ \A i \in 1..Len(Tail(b)) : Tail(b)[i] = b[i + 1]
  BY HeadTailProperties
<1> DEFINE l == Append(h, Head(b)) \o Tail(b)
           r == h \o b
<1>2. Len(b) \in Nat \ {0} /\ Len(h) \in Nat
  BY EmptySeq, LenProperties
<1>3. Append(h, Head(b)) \in Seq(S)
      /\ Len(Append(h, Head(b))) = Len(h) + 1
      /\ \A i \in 1..Len(h) : Append(h, Head(b))[i] = h[i]
      /\ Append(h, Head(b))[Len(h) + 1] = b[1]
  BY <1>1, AppendProperties
<1>4. l \in Seq(S) /\ Len(l) = Len(h) + Len(b)
      /\ \A i \in 1..(Len(h) + Len(b)) :
           l[i] = IF i <= Len(h) + 1 THEN Append(h, Head(b))[i]
                                     ELSE Tail(b)[i - (Len(h) + 1)]
  BY <1>1, <1>2, <1>3, ConcatProperties
<1>5. r \in Seq(S) /\ Len(r) = Len(h) + Len(b)
      /\ \A i \in 1..(Len(h) + Len(b)) :
           r[i] = IF i <= Len(h) THEN h[i] ELSE b[i - Len(h)]
  BY <1>2, ConcatProperties
<1>6. ASSUME NEW i \in 1..Len(l) PROVE l[i] = r[i]
  <2>1. CASE i <= Len(h)
    BY <2>1, <1>2, <1>3, <1>4, <1>5
  <2>2. CASE i = Len(h) + 1
    BY <2>2, <1>2, <1>3, <1>4, <1>5
  <2>3. CASE i > Len(h) + 1
    <3>1. i - (Len(h) + 1) \in 1..Len(Tail(b))
      BY <2>3, <1>1, <1>2, <1>4
    <3>2. Tail(b)[i - (Len(h) + 1)] = b[i - Len(h)]
      BY <3>1, <1>1, <1>2
    <3> QED BY <2>3, <3>2, <1>2, <1>4, <1>5
  <2> QED BY <2>1, <2>2, <2>3, <1>2, <1>4
<1> HIDE DEF l, r
<1> QED BY <1>4, <1>5, <1>6, SeqEqual DEF l, r

(* Appending to the last of three pieces appends to their concatenation.   *)
LEMMA AppendMoves ==
  ASSUME NEW S, NEW h \in Seq(S), NEW b \in Seq(S), NEW q \in Seq(S), NEW e \in S
  PROVE  h \o b \o Append(q, e) = Append(h \o b \o q, e)
<1>1. <<e>> \in Seq(S) /\ h \o b \in Seq(S) /\ h \o b \o q \in Seq(S)
  BY ConcatProperties
<1>2. Append(q, e) = q \o <<e>> /\ Append(h \o b \o q, e) = (h \o b \o q) \o <<e>>
  BY <1>1, AppendIsConcat
<1> QED BY <1>1, <1>2, ConcatAssociative

(* Nothing is lost, duplicated or reordered between Put and the consumer.  *)
THEOREM OrderKept == Spec => []Fifo
<1> DEFINE Inv == Fifo /\ BatchOnlyWhileHandling
<1>1. Init => Inv
  BY ConcatEmptySeq DEF Init, Fifo, BatchOnlyWhileHandling
<1>2. TypeOK /\ Inv /\ [Next]_vars => Inv'
  <2> SUFFICES ASSUME TypeOK, Fifo, BatchOnlyWhileHandling, [Next]_vars
               PROVE  Fifo' /\ BatchOnlyWhileHandling'
    OBVIOUS
  <2>0. /\ queue \in Seq(Element) /\ batch \in Seq(Element)
        /\ handled \in Seq(Element) /\ accepted \in Seq(Element)
    BY DEF TypeOK
  <2>1. ASSUME NEW p \in Producers, Put(p)
        PROVE  Fifo' /\ BatchOnlyWhileHandling'
    <3>1. PICK e \in Element : queue' = Append(queue, e) /\ accepted' = Append(accepted, e)
      <4>1. [by |-> p, n |-> Len(accepted) + 1] \in Element
        BY <2>1, PutMakesElement
      <4> QED BY <2>1, <4>1 DEF Put
    <3>2. handled' = handled /\ batch' = batch /\ consumer' = consumer
      BY <2>1 DEF Put
    <3>3. handled \o batch \o Append(queue, e) = Append(handled \o batch \o queue, e)
      BY <2>0, AppendMoves
    <3> QED BY <3>1, <3>2, <3>3 DEF Fifo, BatchOnlyWhileHandling
  <2>2. ASSUME NEW p \in Producers, Signal(p)
        PROVE  Fifo' /\ BatchOnlyWhileHandling'
    BY <2>2 DEF Signal, Fifo, BatchOnlyWhileHandling
  <2>3. CASE Wake \/ Poll
    BY <2>3 DEF Wake, Poll, Fifo, BatchOnlyWhileHandling
  <2>4. CASE Get
    <3>1. batch = <<>>
      BY <2>4 DEF Get, BatchOnlyWhileHandling
    <3>2. handled \o batch \o queue = handled \o queue
      BY <3>1, <2>0, ConcatEmptySeq
    <3>3. handled \o queue \in Seq(Element)
      BY <2>0, ConcatProperties
    <3>4. (handled \o queue) \o <<>> = handled \o queue
      BY <3>3, ConcatEmptySeq
    <3> QED BY <2>4, <3>2, <3>4 DEF Get, Cleared, Fifo, BatchOnlyWhileHandling
  <2>5. CASE Handle
    <3>1. Append(handled, Head(batch)) \o Tail(batch) = handled \o batch
      BY <2>0, <2>5, HeadMoves DEF Handle
    <3> QED BY <2>5, <3>1 DEF Handle, Fifo, BatchOnlyWhileHandling
  <2>6. CASE Resume
    BY <2>6 DEF Resume, Fifo, BatchOnlyWhileHandling
  <2>7. CASE UNCHANGED vars
    BY <2>7 DEF vars, Fifo, BatchOnlyWhileHandling
  <2> QED BY <2>1, <2>2, <2>3, <2>4, <2>5, <2>6, <2>7 DEF Next
<1>3. Inv => Fifo
  OBVIOUS
<1> QED BY <1>1, <1>2, <1>3, TypeCorrect, PTL DEF Spec

-----------------------------------------------------------------------------
(* Every step of the channel is a step of the reliable mailbox, or none.   *)
THEOREM ChannelIsMailbox == Spec => IsSafeMailbox
<1>1. Init => Box!Init
  BY DEF Init, Box!Init
<1>2. TypeOK /\ Fifo /\ [Next]_vars => [Box!Next]_(Box!mailbox)
  <2> SUFFICES ASSUME TypeOK, Fifo, [Next]_vars
               PROVE  [Box!Next]_(Box!mailbox)
    OBVIOUS
  <2> USE DEF Box!Next, Box!mailbox
  <2>1. ASSUME NEW p \in Producers, Put(p)
        PROVE  \E e \in Element : Box!Send(e)
    <3>1. [by |-> p, n |-> Len(accepted) + 1] \in Element
      BY <2>1, PutMakesElement
    <3> QED BY <2>1, <3>1 DEF Put, Box!Send
  <2>2. CASE Handle
    <3> DEFINE n == Len(handled) + 1
    <3>1. /\ queue \in Seq(Element) /\ batch \in Seq(Element)
          /\ handled \in Seq(Element) /\ accepted \in Seq(Element)
          /\ batch # <<>>
      BY <2>2 DEF TypeOK, Handle
    <3>2. Len(batch) \in Nat \ {0} /\ Len(handled) \in Nat /\ Len(queue) \in Nat
      BY <3>1, EmptySeq, LenProperties
    <3>3. handled \o batch \in Seq(Element)
          /\ Len(handled \o batch) = Len(handled) + Len(batch)
          /\ (handled \o batch)[n] = batch[1]
      BY <3>1, <3>2, ConcatProperties
    <3>4. Len(accepted) = Len(handled) + Len(batch) + Len(queue)
          /\ accepted[n] = (handled \o batch)[n]
      BY <3>1, <3>2, <3>3, ConcatProperties DEF Fifo
    <3>5. Head(batch) = batch[1]
      BY <3>1, HeadTailProperties
    <3>6. Box!Receive
      BY <2>2, <3>2, <3>3, <3>4, <3>5 DEF Handle, Box!Receive
    <3> QED BY <3>6
  <2>3. ASSUME NEW p \in Producers, Signal(p)
        PROVE  UNCHANGED <<accepted, handled>>
    BY <2>3 DEF Signal
  <2>4. CASE Wake \/ Poll \/ Get \/ Resume
    BY <2>4 DEF Wake, Poll, Get, Resume
  <2>5. CASE UNCHANGED vars
    BY <2>5 DEF vars
  <2> QED BY <2>1, <2>2, <2>3, <2>4, <2>5 DEF Next
<1> QED BY <1>1, <1>2, TypeCorrect, OrderKept, PTL DEF Spec, IsSafeMailbox, Box!SafeSpec

=============================================================================
