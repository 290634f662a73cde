------------------- MODULE ActivityMultiplexerQueue_proofs -------------------
(***************************************************************************)
(* Proofs about the queue of the asynchronous multiplexer, for every       *)
(* capacity greater than one, every set of producers and every number of   *)
(* calls.  The indexes live modulo the capacity, so the argument has two   *)
(* layers: what masking does to sums and differences of two indexes, and   *)
(* the invariant IInv, which ties the slots between the indexes to the     *)
(* ordinals of the activities.                                             *)
(***************************************************************************)
EXTENDS ActivityMultiplexerQueue, FiniteSetTheorems, SequenceTheorems, TLAPS

\* An index is its own masked value.
LEMMA MaskIdentity ==
    ASSUME NEW x \in 0 .. Capacity - 1
    PROVE  Mask(x) = x
BY CapacityAssumption, Z3 DEF Mask

\* What writeIndex++ and readIndex++ do under the mask.
LEMMA MaskNext ==
    ASSUME NEW i \in 0 .. Capacity - 1
    PROVE  Mask(i + 1) = IF i = Capacity - 1 THEN 0 ELSE i + 1
<1>1. CASE i = Capacity - 1
  BY <1>1, CapacityAssumption, Z3 DEF Mask
<1>2. CASE i # Capacity - 1
  BY <1>2, MaskIdentity, CapacityAssumption
<1> QED BY <1>1, <1>2

\* indexMask & (w - r) is the distance from r to w around the ring.
LEMMA MaskDifference ==
    ASSUME NEW w \in 0 .. Capacity - 1, NEW r \in 0 .. Capacity - 1
    PROVE  Mask(w - r) = IF r <= w THEN w - r ELSE w - r + Capacity
<1>1. CASE r <= w
  BY <1>1, MaskIdentity, CapacityAssumption
<1>2. CASE w < r
  BY <1>2, CapacityAssumption, Z3 DEF Mask
<1> QED BY <1>1, <1>2

\* The size of the queue, as Push and isEmpty compute it.
LEMMA SizeType ==
    ASSUME TypeOK
    PROVE  /\ Size \in 0 .. Capacity - 1
           /\ Size = IF readIndex <= writeIndex THEN writeIndex - readIndex
                     ELSE writeIndex - readIndex + Capacity
<1> DEFINE w == writeIndex
           r == readIndex
<1>1. w \in 0 .. Capacity - 1 /\ r \in 0 .. Capacity - 1
  BY DEF TypeOK
<1>2. Size = IF r <= w THEN w - r ELSE w - r + Capacity
  BY <1>1, MaskDifference DEF Size
<1> QED BY <1>1, <1>2, CapacityAssumption

\* The position of a slot behind the read index.
LEMMA OffsetValue ==
    ASSUME TypeOK, NEW i \in 0 .. Capacity - 1
    PROVE  Offset(i) = IF readIndex <= i THEN i - readIndex
                       ELSE i - readIndex + Capacity
BY MaskDifference DEF Offset, TypeOK

\* Distances when writeIndex advances in a ring that has room.
LEMMA PublishArithmetic ==
    ASSUME NEW w \in 0 .. Capacity - 1, NEW r \in 0 .. Capacity - 1,
           Mask(w - r) < Capacity - 1
    PROVE  /\ Mask(Mask(w + 1) - r) = Mask(w - r) + 1
           /\ \A i \in 0 .. Capacity - 1 :
                 Mask(i - r) < Mask(w - r) + 1
                    => Mask(i - r) < Mask(w - r) \/ i = w
<1>1. PICK n \in 0 .. Capacity - 1 : n = Mask(w + 1)
  BY MaskNext, CapacityAssumption
<1>2. n = IF w = Capacity - 1 THEN 0 ELSE w + 1
  BY <1>1, MaskNext
<1>3. Mask(w - r) = IF r <= w THEN w - r ELSE w - r + Capacity
  BY MaskDifference
<1>4. Mask(n - r) = IF r <= n THEN n - r ELSE n - r + Capacity
  BY MaskDifference
<1>5. Mask(n - r) = Mask(w - r) + 1
  BY <1>2, <1>3, <1>4, CapacityAssumption
<1>6. ASSUME NEW i \in 0 .. Capacity - 1, Mask(i - r) < Mask(w - r) + 1
      PROVE  Mask(i - r) < Mask(w - r) \/ i = w
  <2>1. Mask(i - r) = IF r <= i THEN i - r ELSE i - r + Capacity
    BY MaskDifference
  <2> QED BY <1>3, <1>6, <2>1, CapacityAssumption
<1> QED BY <1>1, <1>5, <1>6

\* Distances when readIndex advances in a ring that is not empty.
LEMMA AdvanceArithmetic ==
    ASSUME NEW w \in 0 .. Capacity - 1, NEW r \in 0 .. Capacity - 1,
           Mask(w - r) > 0
    PROVE  /\ Mask(w - Mask(r + 1)) = Mask(w - r) - 1
           /\ \A i \in 0 .. Capacity - 1 :
                 Mask(i - Mask(r + 1)) < Mask(w - r) - 1
                    => i # r /\ Mask(i - Mask(r + 1)) = Mask(i - r) - 1
<1>1. PICK n \in 0 .. Capacity - 1 : n = Mask(r + 1)
  BY MaskNext, CapacityAssumption
<1>2. n = IF r = Capacity - 1 THEN 0 ELSE r + 1
  BY <1>1, MaskNext
<1>3. Mask(w - r) = IF r <= w THEN w - r ELSE w - r + Capacity
  BY MaskDifference
<1>4. Mask(w - n) = IF n <= w THEN w - n ELSE w - n + Capacity
  BY MaskDifference
<1>5. Mask(w - n) = Mask(w - r) - 1
  BY <1>2, <1>3, <1>4, CapacityAssumption
<1>6. ASSUME NEW i \in 0 .. Capacity - 1, Mask(i - n) < Mask(w - r) - 1
      PROVE  i # r /\ Mask(i - n) = Mask(i - r) - 1
  <2>1. Mask(i - r) = IF r <= i THEN i - r ELSE i - r + Capacity
    BY MaskDifference
  <2>2. Mask(i - n) = IF n <= i THEN i - n ELSE i - n + Capacity
    BY MaskDifference
  <2> QED BY <1>2, <1>3, <1>6, <2>1, <2>2, CapacityAssumption
<1> QED BY <1>1, <1>5, <1>6

\* Every step of a producer, of the notifier and of start, stop and the
\* destructor preserves the inductive invariant.
LEMMA Inductive == IInv /\ [Next]_vars => IInv'
<1> SUFFICES ASSUME IInv, [Next]_vars PROVE IInv'
  OBVIOUS
<1> USE DEF queueVars, ring, flags, producerVars, notifierVars, mainVars, Goes,
            NotifierGoes
<1>1. ASSUME NEW p \in Producers, PushCheckOverloaded(p) PROVE IInv'
  <2>1. TypeOK'
    BY <1>1 DEF IInv, TypeOK, ProducerStates, NotifierStates, MainStates,
       PushCheckOverloaded
  <2>2. LockInv'
    BY <1>1 DEF IInv, TypeOK, LockInv, Free, Notifier, PushCheckOverloaded
  <2>3. RingInv'
    BY <1>1 DEF IInv, TypeOK, RingInv, Offset, Taken, Holding, HasRoom, Size,
       PushCheckOverloaded
  <2>4. NotifierInv'
    BY <1>1 DEF IInv, TypeOK, NotifierInv, Holding, isEmpty, Size,
       PushCheckOverloaded
  <2>5. LossInv'
    BY <1>1 DEF IInv, TypeOK, LossInv, PushCheckOverloaded
  <2>6. LifeInv'
    BY <1>1 DEF IInv, TypeOK, LifeInv, PushCheckOverloaded
  <2>7. CallsInv'
    <3>1. p \notin InFlight /\ InFlight' = InFlight \cup {p}
      BY <1>1 DEF IInv, TypeOK, InFlight, PushCheckOverloaded
    <3>2. /\ IsFiniteSet(InFlight') /\ Cardinality(InFlight) \in Nat
          /\ Cardinality(InFlight') = Cardinality(InFlight) + 1
      BY <3>1, FS_AddElement, FS_CardinalityType DEF IInv, CallsInv
    <3> QED BY <1>1, <3>2, BoundsAssumption DEF IInv, TypeOK, CallsInv, PushCheckOverloaded
  <2> QED BY <2>1, <2>2, <2>3, <2>4, <2>5, <2>6, <2>7 DEF IInv
<1>2. ASSUME NEW p \in Producers, PushDiscard(p) PROVE IInv'
  <2>1. TypeOK'
    BY <1>2 DEF IInv, TypeOK, ProducerStates, NotifierStates, MainStates,
       PushDiscard
  <2>2. LockInv'
    BY <1>2 DEF IInv, TypeOK, LockInv, Free, Notifier, PushDiscard
  <2>3. RingInv'
    BY <1>2 DEF IInv, TypeOK, RingInv, Offset, Taken, Holding, HasRoom, Size,
       PushDiscard
  <2>4. NotifierInv'
    BY <1>2 DEF IInv, TypeOK, NotifierInv, Holding, isEmpty, Size, PushDiscard
  <2>5. LossInv'
    BY <1>2 DEF IInv, TypeOK, LossInv, PushDiscard
  <2>6. LifeInv'
    BY <1>2 DEF IInv, TypeOK, LifeInv, PushDiscard
  <2>7. CallsInv'
    <3>1. p \in InFlight /\ InFlight' = InFlight \ {p}
      BY <1>2 DEF IInv, TypeOK, InFlight, PushDiscard
    <3>2. /\ IsFiniteSet(InFlight') /\ Cardinality(InFlight) \in Nat
          /\ Cardinality(InFlight') = Cardinality(InFlight) - 1
      BY <3>1, FS_RemoveElement, FS_CardinalityType DEF IInv, CallsInv
    <3> QED BY <1>2, <3>2 DEF IInv, TypeOK, CallsInv, PushDiscard
  <2> QED BY <2>1, <2>2, <2>3, <2>4, <2>5, <2>6, <2>7 DEF IInv
<1>3. ASSUME NEW p \in Producers, PushLock(p) PROVE IInv'
  <2>1. TypeOK'
    BY <1>3, SizeType DEF IInv, TypeOK, ProducerStates, NotifierStates,
       MainStates, PushLock
  <2>2. LockInv'
    BY <1>3, ProducersAssumption DEF IInv, TypeOK, LockInv, Free, Notifier,
       PushLock
  <2>3. RingInv'
    BY <1>3, SizeType DEF IInv, TypeOK, RingInv, Offset, Taken, Holding,
       HasRoom, Size, PushLock
  <2>4. NotifierInv'
    BY <1>3 DEF IInv, TypeOK, NotifierInv, Holding, isEmpty, Size, PushLock
  <2>5. LossInv'
    BY <1>3 DEF IInv, TypeOK, LossInv, PushLock
  <2>6. LifeInv'
    BY <1>3 DEF IInv, TypeOK, LifeInv, PushLock
  <2>7. CallsInv'
    BY <1>3 DEF IInv, TypeOK, CallsInv, InFlight, PushLock
  <2> QED BY <2>1, <2>2, <2>3, <2>4, <2>5, <2>6, <2>7 DEF IInv
<1>4. ASSUME NEW p \in Producers, PushStore(p) PROVE IInv'
  <2>1. TypeOK'
    BY <1>4 DEF IInv, TypeOK, ProducerStates, NotifierStates, MainStates,
       PushStore
  <2>2. LockInv'
    BY <1>4 DEF IInv, TypeOK, LockInv, Free, Notifier, PushStore
  <2>3. RingInv'
    BY <1>4, SizeType, OffsetValue, CapacityAssumption DEF IInv, TypeOK,
       RingInv, Offset, Taken, Holding, HasRoom, Size, PushStore, LockInv
  <2>4. NotifierInv'
    BY <1>4 DEF IInv, TypeOK, NotifierInv, Holding, isEmpty, Size, PushStore
  <2>5. LossInv'
    BY <1>4 DEF IInv, TypeOK, LossInv, PushStore
  <2>6. LifeInv'
    BY <1>4 DEF IInv, TypeOK, LifeInv, PushStore
  <2>7. CallsInv'
    BY <1>4 DEF IInv, TypeOK, CallsInv, InFlight, PushStore
  <2> QED BY <2>1, <2>2, <2>3, <2>4, <2>5, <2>6, <2>7 DEF IInv
<1>5. ASSUME NEW p \in Producers, PushPublish(p) PROVE IInv'
  <2>1. TypeOK'
    BY <1>5, MaskNext, CapacityAssumption DEF IInv, TypeOK, ProducerStates,
       NotifierStates, MainStates, PushPublish
  <2>2. LockInv'
    BY <1>5 DEF IInv, TypeOK, LockInv, Free, Notifier, PushPublish
  <2>a. Mask(writeIndex - readIndex) \in 0 .. Capacity - 2
    BY <1>5, SizeType, CapacityAssumption
       DEF IInv, RingInv, HasRoom, Size, PushPublish
  <2>b. /\ writeIndex \in 0 .. Capacity - 1 /\ readIndex \in 0 .. Capacity - 1
        /\ Mask(writeIndex - readIndex) < Capacity - 1
    BY <2>a, CapacityAssumption DEF IInv, TypeOK
  <2>c. Mask(writeIndex' - readIndex') = Mask(writeIndex - readIndex) + 1
    BY <1>5, <2>b, PublishArithmetic DEF PushPublish
  <2>d. \A i \in 0 .. Capacity - 1 :
           Mask(i - readIndex) < Mask(writeIndex - readIndex) + 1
              => Mask(i - readIndex) < Mask(writeIndex - readIndex) \/ i = writeIndex
    BY <2>b, PublishArithmetic
  <2>3. RingInv'
    <3>1. accepted' = dispatched' + Taken' + Size'
      <4>1. Taken' = Taken /\ Taken \in Nat
        BY <1>5 DEF Taken, Holding, PushPublish
      <4>2. Size' = Size + 1 /\ Size \in Nat
        BY <2>a, <2>c, CapacityAssumption DEF Size
      <4>3. accepted' = accepted + 1 /\ dispatched' = dispatched
        BY <1>5 DEF PushPublish
      <4> QED BY <4>1, <4>2, <4>3 DEF IInv, TypeOK, RingInv
    <3>2. ASSUME NEW i \in 0 .. Capacity - 1, Offset(i)' < Size',
                 ~(cpc' = "advance" /\ i = readIndex')
          PROVE  buffer'[i] = dispatched' + Taken' + Offset(i)' + 1
      <4>1. CASE i = writeIndex
        BY <1>5, <2>a, <4>1
           DEF IInv, TypeOK, RingInv, Taken, Holding, Offset, Size, PushPublish
      <4>2. CASE i # writeIndex
        <5>1. Mask(i - readIndex) < Mask(writeIndex - readIndex) + 1
          BY <1>5, <2>c, <3>2 DEF Offset, Size, PushPublish
        <5>2. Mask(i - readIndex) < Mask(writeIndex - readIndex)
          BY <2>d, <4>2, <5>1
        <5> QED BY <1>5, <3>2, <5>2
                DEF IInv, TypeOK, RingInv, Taken, Holding, Offset, Size, PushPublish
      <4> QED BY <4>1, <4>2
    <3>3. \A q \in Producers : pc'[q] \notin {"store", "publish"}
      BY <1>5 DEF IInv, TypeOK, LockInv, PushPublish
    <3> QED BY <3>1, <3>2, <3>3 DEF RingInv
  <2>4. NotifierInv'
    BY <1>5, <2>a, <2>c
       DEF IInv, TypeOK, NotifierInv, Holding, isEmpty, Size, PushPublish
  <2>5. LossInv'
    BY <1>5 DEF IInv, TypeOK, LossInv, PushPublish
  <2>6. LifeInv'
    BY <1>5 DEF IInv, TypeOK, LifeInv, PushPublish
  <2>7. CallsInv'
    <3>1. p \in InFlight /\ InFlight' = InFlight \ {p}
      BY <1>5 DEF IInv, TypeOK, InFlight, PushPublish
    <3>2. /\ IsFiniteSet(InFlight') /\ Cardinality(InFlight) \in Nat
          /\ Cardinality(InFlight') = Cardinality(InFlight) - 1
      BY <3>1, FS_RemoveElement, FS_CardinalityType DEF IInv, CallsInv
    <3> QED BY <1>5, <3>2 DEF IInv, TypeOK, CallsInv, PushPublish
  <2> QED BY <2>1, <2>2, <2>3, <2>4, <2>5, <2>6, <2>7 DEF IInv
<1>6. ASSUME NEW p \in Producers, PushOverload(p) PROVE IInv'
  <2>1. TypeOK'
    BY <1>6 DEF IInv, TypeOK, ProducerStates, NotifierStates, MainStates,
       PushOverload
  <2>2. LockInv'
    BY <1>6 DEF IInv, TypeOK, LockInv, Free, Notifier, PushOverload
  <2>3. RingInv'
    BY <1>6 DEF IInv, TypeOK, RingInv, Offset, Taken, Holding, HasRoom, Size,
       PushOverload
  <2>4. NotifierInv'
    BY <1>6 DEF IInv, TypeOK, NotifierInv, Holding, isEmpty, Size,
       PushOverload
  <2>5. LossInv'
    BY <1>6 DEF IInv, TypeOK, LossInv, PushOverload
  <2>6. LifeInv'
    BY <1>6 DEF IInv, TypeOK, LifeInv, PushOverload
  <2>7. CallsInv'
    BY <1>6 DEF IInv, TypeOK, CallsInv, InFlight, PushOverload
  <2> QED BY <2>1, <2>2, <2>3, <2>4, <2>5, <2>6, <2>7 DEF IInv
<1>7. ASSUME NEW p \in Producers, PushUnlock(p) PROVE IInv'
  <2>1. TypeOK'
    BY <1>7 DEF IInv, TypeOK, ProducerStates, NotifierStates, MainStates,
       PushUnlock
  <2>2. LockInv'
    BY <1>7, ProducersAssumption DEF IInv, TypeOK, LockInv, Free, Notifier,
       PushUnlock
  <2>3. RingInv'
    BY <1>7 DEF IInv, TypeOK, RingInv, Offset, Taken, Holding, HasRoom, Size,
       PushUnlock
  <2>4. NotifierInv'
    BY <1>7 DEF IInv, TypeOK, NotifierInv, Holding, isEmpty, Size, PushUnlock
  <2>5. LossInv'
    BY <1>7 DEF IInv, TypeOK, LossInv, PushUnlock
  <2>6. LifeInv'
    BY <1>7 DEF IInv, TypeOK, LifeInv, PushUnlock
  <2>7. CallsInv'
    BY <1>7 DEF IInv, TypeOK, CallsInv, InFlight, PushUnlock
  <2> QED BY <2>1, <2>2, <2>3, <2>4, <2>5, <2>6, <2>7 DEF IInv
<1>8. ASSUME NEW p \in Producers, PushNotify(p) PROVE IInv'
  <2>1. TypeOK'
    BY <1>8 DEF IInv, TypeOK, ProducerStates, NotifierStates, MainStates,
       PushNotify, NotifyOne
  <2>2. LockInv'
    BY <1>8 DEF IInv, TypeOK, LockInv, Free, Notifier, PushNotify, NotifyOne
  <2>3. RingInv'
    BY <1>8 DEF IInv, TypeOK, RingInv, Offset, Taken, Holding, HasRoom, Size,
       PushNotify, NotifyOne
  <2>4. NotifierInv'
    BY <1>8 DEF IInv, TypeOK, NotifierInv, Holding, isEmpty, Size, PushNotify,
       NotifyOne
  <2>5. LossInv'
    BY <1>8 DEF IInv, TypeOK, LossInv, PushNotify, NotifyOne
  <2>6. LifeInv'
    BY <1>8 DEF IInv, TypeOK, LifeInv, PushNotify, NotifyOne
  <2>7. CallsInv'
    BY <1>8 DEF IInv, TypeOK, CallsInv, InFlight, PushNotify, NotifyOne
  <2> QED BY <2>1, <2>2, <2>3, <2>4, <2>5, <2>6, <2>7 DEF IInv
<1>9. ASSUME PopCheckEmpty PROVE IInv'
  <2>1. TypeOK'
    BY <1>9 DEF IInv, TypeOK, ProducerStates, NotifierStates, MainStates,
       PopCheckEmpty, isEmpty
  <2>2. LockInv'
    BY <1>9 DEF IInv, TypeOK, LockInv, Free, Notifier, PopCheckEmpty, isEmpty
  <2>3. RingInv'
    BY <1>9 DEF IInv, TypeOK, RingInv, Offset, Taken, Holding, HasRoom, Size,
       PopCheckEmpty, isEmpty
  <2>4. NotifierInv'
    BY <1>9 DEF IInv, TypeOK, NotifierInv, Holding, isEmpty, Size,
       PopCheckEmpty
  <2>5. LossInv'
    BY <1>9 DEF IInv, TypeOK, LossInv, PopCheckEmpty, isEmpty
  <2>6. LifeInv'
    BY <1>9 DEF IInv, TypeOK, LifeInv, PopCheckEmpty, isEmpty
  <2>7. CallsInv'
    BY <1>9 DEF IInv, TypeOK, CallsInv, InFlight, PopCheckEmpty
  <2> QED BY <2>1, <2>2, <2>3, <2>4, <2>5, <2>6, <2>7 DEF IInv
<1>10. ASSUME PopTestWait PROVE IInv'
  <2>1. TypeOK'
    BY <1>10 DEF IInv, TypeOK, ProducerStates, NotifierStates, MainStates,
       PopTestWait, MustWait, isEmpty
  <2>2. LockInv'
    BY <1>10, ProducersAssumption DEF IInv, TypeOK, LockInv, Free, Notifier,
       PopTestWait, MustWait, isEmpty
  <2>3. RingInv'
    BY <1>10 DEF IInv, TypeOK, RingInv, Offset, Taken, Holding, HasRoom, Size,
       PopTestWait, MustWait, isEmpty
  <2>4. NotifierInv'
    BY <1>10 DEF IInv, TypeOK, NotifierInv, Holding, isEmpty, Size,
       PopTestWait, MustWait
  <2>5. LossInv'
    BY <1>10 DEF IInv, TypeOK, LossInv, PopTestWait, MustWait, isEmpty
  <2>6. LifeInv'
    BY <1>10 DEF IInv, TypeOK, LifeInv, PopTestWait, MustWait, isEmpty
  <2>7. CallsInv'
    BY <1>10 DEF IInv, TypeOK, CallsInv, InFlight, PopTestWait
  <2> QED BY <2>1, <2>2, <2>3, <2>4, <2>5, <2>6, <2>7 DEF IInv
<1>11. ASSUME PopBlock PROVE IInv'
  <2>1. TypeOK'
    BY <1>11 DEF IInv, TypeOK, ProducerStates, NotifierStates, MainStates,
       PopBlock
  <2>2. LockInv'
    BY <1>11, ProducersAssumption DEF IInv, TypeOK, LockInv, Free, Notifier,
       PopBlock
  <2>3. RingInv'
    BY <1>11 DEF IInv, TypeOK, RingInv, Offset, Taken, Holding, HasRoom, Size,
       PopBlock
  <2>4. NotifierInv'
    BY <1>11 DEF IInv, TypeOK, NotifierInv, Holding, isEmpty, Size, PopBlock
  <2>5. LossInv'
    BY <1>11 DEF IInv, TypeOK, LossInv, PopBlock
  <2>6. LifeInv'
    BY <1>11 DEF IInv, TypeOK, LifeInv, PopBlock
  <2>7. CallsInv'
    BY <1>11 DEF IInv, TypeOK, CallsInv, InFlight, PopBlock
  <2> QED BY <2>1, <2>2, <2>3, <2>4, <2>5, <2>6, <2>7 DEF IInv
<1>12. ASSUME PopTimeout PROVE IInv'
  <2>1. TypeOK'
    BY <1>12 DEF IInv, TypeOK, ProducerStates, NotifierStates, MainStates,
       PopTimeout
  <2>2. LockInv'
    BY <1>12 DEF IInv, TypeOK, LockInv, Free, Notifier, PopTimeout
  <2>3. RingInv'
    BY <1>12 DEF IInv, TypeOK, RingInv, Offset, Taken, Holding, HasRoom, Size,
       PopTimeout
  <2>4. NotifierInv'
    BY <1>12 DEF IInv, TypeOK, NotifierInv, Holding, isEmpty, Size, PopTimeout
  <2>5. LossInv'
    BY <1>12 DEF IInv, TypeOK, LossInv, PopTimeout
  <2>6. LifeInv'
    BY <1>12 DEF IInv, TypeOK, LifeInv, PopTimeout
  <2>7. CallsInv'
    BY <1>12 DEF IInv, TypeOK, CallsInv, InFlight, PopTimeout
  <2> QED BY <2>1, <2>2, <2>3, <2>4, <2>5, <2>6, <2>7 DEF IInv
<1>13. ASSUME PopExit PROVE IInv'
  <2>1. TypeOK'
    BY <1>13 DEF IInv, TypeOK, ProducerStates, NotifierStates, MainStates,
       PopExit, MustEnd, isEmpty
  <2>2. LockInv'
    BY <1>13 DEF IInv, TypeOK, LockInv, Free, Notifier, PopExit, MustEnd,
       isEmpty
  <2>3. RingInv'
    BY <1>13 DEF IInv, TypeOK, RingInv, Offset, Taken, Holding, HasRoom, Size,
       PopExit, MustEnd, isEmpty
  <2>4. NotifierInv'
    BY <1>13 DEF IInv, TypeOK, NotifierInv, Holding, isEmpty, Size, PopExit,
       MustEnd
  <2>5. LossInv'
    BY <1>13 DEF IInv, TypeOK, LossInv, PopExit, MustEnd, isEmpty
  <2>6. LifeInv'
    BY <1>13, SizeType DEF IInv, TypeOK, LifeInv, PopExit, MustEnd, isEmpty,
       RingInv, Taken, Holding
  <2>7. CallsInv'
    BY <1>13 DEF IInv, TypeOK, CallsInv, InFlight, PopExit
  <2> QED BY <2>1, <2>2, <2>3, <2>4, <2>5, <2>6, <2>7 DEF IInv
<1>14. ASSUME PopRead PROVE IInv'
  <2>1. TypeOK'
    BY <1>14, CapacityAssumption DEF IInv, TypeOK, ProducerStates,
       NotifierStates, MainStates, PopRead, NoActivity
  <2>2. LockInv'
    BY <1>14 DEF IInv, TypeOK, LockInv, Free, Notifier, PopRead
  <2>a. Size \in 1 .. Capacity - 1
    BY <1>14, SizeType DEF IInv, NotifierInv, isEmpty, PopRead
  <2>b. Taken' = Taken /\ Size' = Size /\ \A i : Offset(i)' = Offset(i)
    BY <1>14 DEF Taken, Holding, Size, Offset, PopRead
  <2>c. Offset(readIndex) = 0
    <3>1. readIndex \in 0 .. Capacity - 1 /\ TypeOK
      BY DEF IInv, TypeOK
    <3> QED BY <3>1, OffsetValue, CapacityAssumption
  <2>3. RingInv'
    <3>1. \A i \in 0 .. Capacity - 1 : i # readIndex => buffer'[i] = buffer[i]
      BY <1>14 DEF IInv, TypeOK, PopRead
    <3>2. writeIndex # readIndex
      BY <2>a, <2>c DEF Size, Offset
    <3> QED BY <1>14, <2>b, <3>1, <3>2 DEF IInv, TypeOK, RingInv, HasRoom, PopRead
  <2>4. NotifierInv'
    <3>1. buffer[readIndex] = dispatched + 1
      BY <1>14, <2>a, <2>c DEF IInv, TypeOK, RingInv, Taken, Holding, PopRead
    <3> QED BY <1>14, <2>a, <3>1
            DEF IInv, TypeOK, NotifierInv, Holding, isEmpty, Size, PopRead
  <2>5. LossInv'
    BY <1>14 DEF IInv, TypeOK, LossInv, PopRead
  <2>6. LifeInv'
    BY <1>14 DEF IInv, TypeOK, LifeInv, PopRead
  <2>7. CallsInv'
    BY <1>14 DEF IInv, TypeOK, CallsInv, InFlight, PopRead
  <2> QED BY <2>1, <2>2, <2>3, <2>4, <2>5, <2>6, <2>7 DEF IInv
<1>15. ASSUME PopAdvance PROVE IInv'
  <2>1. TypeOK'
    BY <1>15, MaskNext, CapacityAssumption DEF IInv, TypeOK, ProducerStates,
       NotifierStates, MainStates, PopAdvance
  <2>2. LockInv'
    BY <1>15 DEF IInv, TypeOK, LockInv, Free, Notifier, PopAdvance
  <2>a. Mask(writeIndex - readIndex) \in 1 .. Capacity - 1
    BY <1>15, SizeType DEF IInv, NotifierInv, isEmpty, Size, PopAdvance
  <2>b. /\ writeIndex \in 0 .. Capacity - 1 /\ readIndex \in 0 .. Capacity - 1
        /\ Mask(writeIndex - readIndex) > 0
    BY <2>a, CapacityAssumption DEF IInv, TypeOK
  <2>c. Mask(writeIndex' - readIndex') = Mask(writeIndex - readIndex) - 1
    BY <1>15, <2>b, AdvanceArithmetic DEF PopAdvance
  <2>d. \A i \in 0 .. Capacity - 1 :
           Mask(i - Mask(readIndex + 1)) < Mask(writeIndex - readIndex) - 1
              => i # readIndex
                 /\ Mask(i - Mask(readIndex + 1)) = Mask(i - readIndex) - 1
    BY <2>b, AdvanceArithmetic
  <2>3. RingInv'
    <3>1. Taken = 0 /\ Taken' = 1
      BY <1>15 DEF Taken, Holding, PopAdvance
    <3>2. accepted' = dispatched' + Taken' + Size'
      BY <1>15, <2>a, <2>c DEF IInv, TypeOK, RingInv, Taken, Holding, Size, PopAdvance
    <3>3. ASSUME NEW i \in 0 .. Capacity - 1, Offset(i)' < Size',
                 ~(cpc' = "advance" /\ i = readIndex')
          PROVE  buffer'[i] = dispatched' + Taken' + Offset(i)' + 1
      <4>1. /\ i # readIndex
            /\ Mask(i - readIndex') = Mask(i - readIndex) - 1
        <5>1. Mask(i - readIndex') < Mask(writeIndex - readIndex) - 1
          BY <1>15, <2>c, <3>3 DEF Offset, Size, PopAdvance
        <5>2. readIndex' = Mask(readIndex + 1)
          BY <1>15 DEF PopAdvance
        <5> QED BY <2>d, <5>1, <5>2
      <4>2. Mask(i - readIndex) \in 0 .. Capacity - 1
        <5>1. Mask(i - readIndex) = IF readIndex <= i THEN i - readIndex
                                    ELSE i - readIndex + Capacity
          BY <2>b, MaskDifference
        <5> QED BY <2>b, <5>1, CapacityAssumption
      <4>3. Mask(i - readIndex) < Mask(writeIndex - readIndex)
        BY <2>a, <2>c, <3>3, <4>1, <4>2 DEF Offset, Size
      <4> QED BY <1>15, <4>1, <4>2, <4>3
              DEF IInv, TypeOK, RingInv, Taken, Holding, Offset, Size, PopAdvance
    <3>4. \A q \in Producers :
             /\ pc'[q] \in {"store", "publish"} => HasRoom(Size')
             /\ pc'[q] = "publish" => buffer'[writeIndex'] = accepted' + 1
      BY <1>15, <2>a, <2>c, CapacityAssumption
         DEF IInv, TypeOK, RingInv, HasRoom, Size, PopAdvance
    <3> QED BY <3>2, <3>3, <3>4 DEF RingInv, HasRoom
  <2>4. NotifierInv'
    BY <1>15 DEF IInv, TypeOK, NotifierInv, Holding, isEmpty, Size, PopAdvance
  <2>5. LossInv'
    BY <1>15 DEF IInv, TypeOK, LossInv, PopAdvance
  <2>6. LifeInv'
    BY <1>15 DEF IInv, TypeOK, LifeInv, PopAdvance
  <2>7. CallsInv'
    BY <1>15 DEF IInv, TypeOK, CallsInv, InFlight, PopAdvance
  <2> QED BY <2>1, <2>2, <2>3, <2>4, <2>5, <2>6, <2>7 DEF IInv
<1>16. ASSUME OverflowTest PROVE IInv'
  <2>1. TypeOK'
    BY <1>16 DEF IInv, TypeOK, ProducerStates, NotifierStates, MainStates,
       OverflowTest, isEmpty
  <2>2. LockInv'
    BY <1>16 DEF IInv, TypeOK, LockInv, Free, Notifier, OverflowTest, isEmpty
  <2>3. RingInv'
    BY <1>16 DEF IInv, TypeOK, RingInv, Offset, Taken, Holding, HasRoom, Size,
       OverflowTest, isEmpty
  <2>4. NotifierInv'
    BY <1>16 DEF IInv, TypeOK, NotifierInv, Holding, isEmpty, Size,
       OverflowTest
  <2>5. LossInv'
    BY <1>16 DEF IInv, TypeOK, LossInv, OverflowTest, isEmpty
  <2>6. LifeInv'
    BY <1>16 DEF IInv, TypeOK, LifeInv, OverflowTest, isEmpty
  <2>7. CallsInv'
    BY <1>16 DEF IInv, TypeOK, CallsInv, InFlight, OverflowTest
  <2> QED BY <2>1, <2>2, <2>3, <2>4, <2>5, <2>6, <2>7 DEF IInv
<1>17. ASSUME OverflowReadLost PROVE IInv'
  <2>1. TypeOK'
    BY <1>17 DEF IInv, TypeOK, ProducerStates, NotifierStates, MainStates,
       OverflowReadLost
  <2>2. LockInv'
    BY <1>17 DEF IInv, TypeOK, LockInv, Free, Notifier, OverflowReadLost
  <2>3. RingInv'
    BY <1>17 DEF IInv, TypeOK, RingInv, Offset, Taken, Holding, HasRoom, Size,
       OverflowReadLost
  <2>4. NotifierInv'
    BY <1>17 DEF IInv, TypeOK, NotifierInv, Holding, isEmpty, Size,
       OverflowReadLost
  <2>5. LossInv'
    BY <1>17 DEF IInv, TypeOK, LossInv, OverflowReadLost
  <2>6. LifeInv'
    BY <1>17 DEF IInv, TypeOK, LifeInv, OverflowReadLost
  <2>7. CallsInv'
    BY <1>17 DEF IInv, TypeOK, CallsInv, InFlight, OverflowReadLost
  <2> QED BY <2>1, <2>2, <2>3, <2>4, <2>5, <2>6, <2>7 DEF IInv
<1>18. ASSUME OverflowSubtract PROVE IInv'
  <2>1. TypeOK'
    BY <1>18 DEF IInv, TypeOK, ProducerStates, NotifierStates, MainStates,
       OverflowSubtract, LossInv
  <2>2. LockInv'
    BY <1>18 DEF IInv, TypeOK, LockInv, Free, Notifier, OverflowSubtract
  <2>3. RingInv'
    BY <1>18 DEF IInv, TypeOK, RingInv, Offset, Taken, Holding, HasRoom, Size,
       OverflowSubtract
  <2>4. NotifierInv'
    BY <1>18 DEF IInv, TypeOK, NotifierInv, Holding, isEmpty, Size,
       OverflowSubtract
  <2>5. LossInv'
    BY <1>18 DEF IInv, TypeOK, LossInv, OverflowSubtract
  <2>6. LifeInv'
    BY <1>18 DEF IInv, TypeOK, LifeInv, OverflowSubtract
  <2>7. CallsInv'
    BY <1>18 DEF IInv, TypeOK, CallsInv, InFlight, OverflowSubtract
  <2> QED BY <2>1, <2>2, <2>3, <2>4, <2>5, <2>6, <2>7 DEF IInv
<1>19. ASSUME OverflowClear PROVE IInv'
  <2>1. TypeOK'
    BY <1>19 DEF IInv, TypeOK, ProducerStates, NotifierStates, MainStates,
       OverflowClear
  <2>2. LockInv'
    BY <1>19 DEF IInv, TypeOK, LockInv, Free, Notifier, OverflowClear
  <2>3. RingInv'
    BY <1>19 DEF IInv, TypeOK, RingInv, Offset, Taken, Holding, HasRoom, Size,
       OverflowClear
  <2>4. NotifierInv'
    BY <1>19 DEF IInv, TypeOK, NotifierInv, Holding, isEmpty, Size,
       OverflowClear
  <2>5. LossInv'
    BY <1>19 DEF IInv, TypeOK, LossInv, OverflowClear
  <2>6. LifeInv'
    BY <1>19 DEF IInv, TypeOK, LifeInv, OverflowClear
  <2>7. CallsInv'
    BY <1>19 DEF IInv, TypeOK, CallsInv, InFlight, OverflowClear
  <2> QED BY <2>1, <2>2, <2>3, <2>4, <2>5, <2>6, <2>7 DEF IInv
<1>20. ASSUME Dispatch PROVE IInv'
  <2>1. TypeOK'
    BY <1>20 DEF IInv, TypeOK, ProducerStates, NotifierStates, MainStates,
       Dispatch, NoActivity
  <2>2. LockInv'
    BY <1>20 DEF IInv, TypeOK, LockInv, Free, Notifier, Dispatch
  <2>3. RingInv'
    BY <1>20, SizeType DEF IInv, TypeOK, RingInv, Offset, Taken, Holding,
       HasRoom, Size, Dispatch
  <2>4. NotifierInv'
    BY <1>20 DEF IInv, TypeOK, NotifierInv, Holding, isEmpty, Size, Dispatch
  <2>5. LossInv'
    BY <1>20 DEF IInv, TypeOK, LossInv, Dispatch
  <2>6. LifeInv'
    BY <1>20 DEF IInv, TypeOK, LifeInv, Dispatch
  <2>7. CallsInv'
    BY <1>20 DEF IInv, TypeOK, CallsInv, InFlight, Dispatch
  <2> QED BY <2>1, <2>2, <2>3, <2>4, <2>5, <2>6, <2>7 DEF IInv
<1>21. ASSUME start PROVE IInv'
  <2>1. TypeOK'
    <3>1. starts' \in Nat
      BY <1>21 DEF IInv, TypeOK, start
    <3> QED BY <1>21, <3>1, Zenon DEF IInv, TypeOK, NotifierStates, MainStates, start
  <2>2. LockInv'
    BY <1>21 DEF IInv, TypeOK, LockInv, Free, Notifier, start, LifeInv
  <2>3. RingInv'
    BY <1>21 DEF IInv, TypeOK, RingInv, Offset, Taken, Holding, HasRoom, Size,
       start, LifeInv
  <2>4. NotifierInv'
    BY <1>21 DEF IInv, TypeOK, NotifierInv, Holding, isEmpty, Size, start,
       LifeInv
  <2>5. LossInv'
    BY <1>21 DEF IInv, TypeOK, LossInv, start, LifeInv
  <2>6. LifeInv'
    BY <1>21 DEF IInv, TypeOK, LifeInv, start
  <2>7. CallsInv'
    BY <1>21 DEF IInv, TypeOK, CallsInv, InFlight, start
  <2> QED BY <2>1, <2>2, <2>3, <2>4, <2>5, <2>6, <2>7 DEF IInv
<1>22. ASSUME finalizeRequest PROVE IInv'
  <2>1. TypeOK'
    BY <1>22 DEF IInv, TypeOK, ProducerStates, NotifierStates, MainStates,
       finalizeRequest
  <2>2. LockInv'
    BY <1>22 DEF IInv, TypeOK, LockInv, Free, Notifier, finalizeRequest
  <2>3. RingInv'
    BY <1>22 DEF IInv, TypeOK, RingInv, Offset, Taken, Holding, HasRoom, Size,
       finalizeRequest
  <2>4. NotifierInv'
    BY <1>22 DEF IInv, TypeOK, NotifierInv, Holding, isEmpty, Size,
       finalizeRequest
  <2>5. LossInv'
    BY <1>22 DEF IInv, TypeOK, LossInv, finalizeRequest
  <2>6. LifeInv'
    BY <1>22 DEF IInv, TypeOK, LifeInv, finalizeRequest
  <2>7. CallsInv'
    BY <1>22 DEF IInv, TypeOK, CallsInv, InFlight, finalizeRequest
  <2> QED BY <2>1, <2>2, <2>3, <2>4, <2>5, <2>6, <2>7 DEF IInv
<1>23. ASSUME finalizeNotify PROVE IInv'
  <2>1. TypeOK'
    BY <1>23 DEF IInv, TypeOK, ProducerStates, NotifierStates, MainStates,
       finalizeNotify, NotifyOne
  <2>2. LockInv'
    BY <1>23 DEF IInv, TypeOK, LockInv, Free, Notifier, finalizeNotify,
       NotifyOne
  <2>3. RingInv'
    BY <1>23 DEF IInv, TypeOK, RingInv, Offset, Taken, Holding, HasRoom, Size,
       finalizeNotify, NotifyOne
  <2>4. NotifierInv'
    BY <1>23 DEF IInv, TypeOK, NotifierInv, Holding, isEmpty, Size,
       finalizeNotify, NotifyOne
  <2>5. LossInv'
    BY <1>23 DEF IInv, TypeOK, LossInv, finalizeNotify, NotifyOne
  <2>6. LifeInv'
    BY <1>23 DEF IInv, TypeOK, LifeInv, finalizeNotify, NotifyOne
  <2>7. CallsInv'
    BY <1>23 DEF IInv, TypeOK, CallsInv, InFlight, finalizeNotify, NotifyOne
  <2> QED BY <2>1, <2>2, <2>3, <2>4, <2>5, <2>6, <2>7 DEF IInv
<1>24. ASSUME finalizeSpin PROVE IInv'
  <2>1. TypeOK'
    BY <1>24 DEF IInv, TypeOK, ProducerStates, NotifierStates, MainStates,
       finalizeSpin
  <2>2. LockInv'
    BY <1>24 DEF IInv, TypeOK, LockInv, Free, Notifier, finalizeSpin
  <2>3. RingInv'
    BY <1>24 DEF IInv, TypeOK, RingInv, Offset, Taken, Holding, HasRoom, Size,
       finalizeSpin
  <2>4. NotifierInv'
    BY <1>24 DEF IInv, TypeOK, NotifierInv, Holding, isEmpty, Size,
       finalizeSpin
  <2>5. LossInv'
    BY <1>24 DEF IInv, TypeOK, LossInv, finalizeSpin
  <2>6. LifeInv'
    BY <1>24 DEF IInv, TypeOK, LifeInv, finalizeSpin
  <2>7. CallsInv'
    BY <1>24 DEF IInv, TypeOK, CallsInv, InFlight, finalizeSpin
  <2> QED BY <2>1, <2>2, <2>3, <2>4, <2>5, <2>6, <2>7 DEF IInv
<1>25. ASSUME stopJoin PROVE IInv'
  <2>1. TypeOK'
    BY <1>25 DEF IInv, TypeOK, ProducerStates, NotifierStates, MainStates,
       stopJoin
  <2>2. LockInv'
    BY <1>25 DEF IInv, TypeOK, LockInv, Free, Notifier, stopJoin
  <2>3. RingInv'
    BY <1>25 DEF IInv, TypeOK, RingInv, Offset, Taken, Holding, HasRoom, Size,
       stopJoin
  <2>4. NotifierInv'
    BY <1>25 DEF IInv, TypeOK, NotifierInv, Holding, isEmpty, Size, stopJoin
  <2>5. LossInv'
    BY <1>25 DEF IInv, TypeOK, LossInv, stopJoin
  <2>6. LifeInv'
    BY <1>25 DEF IInv, TypeOK, LifeInv, stopJoin
  <2>7. CallsInv'
    BY <1>25 DEF IInv, TypeOK, CallsInv, InFlight, stopJoin
  <2> QED BY <2>1, <2>2, <2>3, <2>4, <2>5, <2>6, <2>7 DEF IInv
<1>26. CASE UNCHANGED vars
  BY <1>26 DEF vars, IInv, TypeOK, LockInv, RingInv, NotifierInv, LossInv,
     LifeInv, CallsInv, InFlight, Offset, Taken, Size, isEmpty, HasRoom
<1> QED BY <1>1, <1>2, <1>3, <1>4, <1>5, <1>6, <1>7, <1>8, <1>9, <1>10, <1>11,
     <1>12, <1>13, <1>14, <1>15, <1>16, <1>17, <1>18, <1>19, <1>20, <1>21,
     <1>22, <1>23, <1>24, <1>25, <1>26 DEF Next, Push, Run, Pop,
     checkOverflowMode, Main

\* The inductive invariant holds in every state of every behaviour of the
\* queue's threads.
THEOREM Invariance == Spec => []IInv
<1>1. Init => IInv
  <2> SUFFICES ASSUME Init PROVE IInv
    OBVIOUS
  <2>1. TypeOK
    <3>1. /\ buffer \in [0 .. Capacity - 1 -> Nat]
          /\ writeIndex \in 0 .. Capacity - 1 /\ readIndex \in 0 .. Capacity - 1
          /\ curSize \in [Producers -> 0 .. Capacity - 1]
      BY CapacityAssumption DEF Init, NoActivity
    <3>2. /\ lost \in Nat /\ activity \in Nat /\ missed \in Nat /\ calls \in Nat
          /\ starts \in Nat /\ accepted \in Nat /\ dropped \in Nat
          /\ dispatched \in Nat /\ lost_events \in Nat /\ mark \in Nat
      BY DEF Init, NoActivity
    <3>3. pc \in [Producers -> ProducerStates]
      BY DEF Init, ProducerStates
    <3> QED BY <3>1, <3>2, <3>3, Zenon DEF Init, TypeOK, NotifierStates, MainStates
  <2>2. Size = 0
    BY <2>1, SizeType, CapacityAssumption DEF Init
  <2>3. \A i \in 0 .. Capacity - 1 : ~(Offset(i) < Size)
    BY <2>1, <2>2, OffsetValue, CapacityAssumption DEF Init
  <2>4. RingInv
    BY <2>2, <2>3, CapacityAssumption DEF Init, RingInv, Taken, Holding
  <2>5. LockInv
    BY ProducersAssumption DEF Init, LockInv, Free, Notifier
  <2>6. NotifierInv /\ LossInv /\ LifeInv
    BY DEF Init, NotifierInv, LossInv, LifeInv, Holding
  <2>7. CallsInv
    <3>1. InFlight = {}
      BY DEF Init, InFlight
    <3> QED BY <3>1, FS_EmptySet, BoundsAssumption DEF Init, CallsInv
  <2> QED BY <2>1, <2>4, <2>5, <2>6, <2>7 DEF IInv
<1> QED BY <1>1, Inductive, PTL DEF Spec

\* The queue, its threads and its counters always have their types.
THEOREM TypeCorrect == Spec => []TypeOK
<1>1. IInv => TypeOK
  BY DEF IInv
<1> QED BY <1>1, Invariance, PTL

\* Whatever the producers do while the notifier pops without the lock, the
\* accepted activities are dispatched in the order of acceptance, each one
\* exactly once: no slot is overwritten before it was read.
THEOREM DeliveryInOrder == Spec => []InOrderDelivery
<1>1. IInv => InOrderDelivery
  BY DEF IInv, NotifierInv, InOrderDelivery
<1> QED BY <1>1, Invariance, PTL

\* The assertion of Pop never fails, and Pop never returns a null pointer
\* for an activity (which Run would take for the order to end).
THEOREM PopFindsActivity == Spec => []NeverReadsNull
<1>1. IInv => NeverReadsNull
  <2> SUFFICES ASSUME IInv, cpc = "read"
               PROVE  ~isEmpty /\ buffer[readIndex] # NoActivity
    BY DEF NeverReadsNull
  <2>1. ~isEmpty
    BY DEF IInv, NotifierInv
  <2>2. Offset(readIndex) = 0 /\ Size > 0
    BY <2>1, OffsetValue, SizeType, CapacityAssumption DEF IInv, TypeOK, isEmpty
  <2>3. buffer[readIndex] = dispatched + 1
    BY <2>2 DEF IInv, TypeOK, RingInv, Taken, Holding
  <2> QED BY <2>1, <2>3 DEF IInv, TypeOK, NoActivity
<1> QED BY <1>1, Invariance, PTL

\* No call of Push disappears: what is not dispatched is queued or counted,
\* and no loss is counted twice by the unprotected checkOverflowMode.
THEOREM LossAccounting == Spec => []LossesAreCounted
<1>1. IInv => LossesAreCounted
  BY DEF IInv, RingInv, LossInv, CallsInv, LossesAreCounted
<1> QED BY <1>1, Invariance, PTL

\* stop() leaves nothing behind that was accepted before it was called.
THEOREM StopIsADrain == Spec => []StopDrains
<1>1. IInv => StopDrains
  BY DEF IInv, TypeOK, LifeInv, StopDrains
<1> QED BY <1>1, Invariance, PTL

\* The destructor returns only when the notifier is done with the queue.
THEOREM DestructionIsSafe == Spec => []NoAccessAfterDestruction
<1>1. IInv => NoAccessAfterDestruction
  BY DEF IInv, LifeInv, NoAccessAfterDestruction
<1> QED BY <1>1, Invariance, PTL
-----------------------------------------------------------------------------
(* The queue implements LossyFifo.  Under the invariant the queue that its *)
(* users see is the interval of ordinals between the activities taken out  *)
(* and those accepted, so a step of the ring is a step of the interval.    *)

\* The activities m + 1 to n, in order.
Ordinals(m, n) == [k \in 1 .. n - m |-> m + k]

\* The activities that Pop has read.
Read == dispatched + Taken + First

\* The slot at a given distance behind the read index.
LEMMA SlotAtOffset ==
    ASSUME NEW r \in 0 .. Capacity - 1, NEW o \in 0 .. Capacity - 1
    PROVE  Mask(r + o) \in 0 .. Capacity - 1 /\ Mask(Mask(r + o) - r) = o
<1>1. CASE r + o < Capacity
  <2>1. Mask(r + o) = r + o
    BY <1>1, MaskIdentity, CapacityAssumption
  <2> QED BY <1>1, <2>1, MaskIdentity, CapacityAssumption
<1>2. CASE r + o >= Capacity
  <2>1. Mask(r + o) = r + o - Capacity
    BY <1>2, CapacityAssumption, Z3 DEF Mask
  <2>2. r + o - Capacity \in 0 .. Capacity - 1 /\ ~(r <= r + o - Capacity)
    BY <1>2, CapacityAssumption
  <2>3. Mask((r + o - Capacity) - r) = (r + o - Capacity) - r + Capacity
    BY <2>2, MaskDifference
  <2> QED BY <2>1, <2>2, <2>3, CapacityAssumption
<1> QED BY <1>1, <1>2, CapacityAssumption

\* An interval of ordinals as a queue: one more is accepted ...
LEMMA OrdinalsAppend ==
    ASSUME NEW m \in Nat, NEW n \in Nat, m <= n
    PROVE  /\ Len(Ordinals(m, n)) = n - m
           /\ Append(Ordinals(m, n), n + 1) = Ordinals(m, n + 1)
<1>1. Ordinals(m, n) \in Seq(Nat) /\ Len(Ordinals(m, n)) = n - m
  BY DEF Ordinals
<1>2. Append(Ordinals(m, n), n + 1) \in Seq(Nat) /\ Ordinals(m, n + 1) \in Seq(Nat)
  BY <1>1 DEF Ordinals
<1>3. /\ Len(Append(Ordinals(m, n), n + 1)) = n + 1 - m
      /\ Len(Ordinals(m, n + 1)) = n + 1 - m
  BY <1>1 DEF Ordinals
<1>4. \A k \in 1 .. n + 1 - m : Append(Ordinals(m, n), n + 1)[k] = Ordinals(m, n + 1)[k]
  BY <1>1 DEF Ordinals
<1>5. Append(Ordinals(m, n), n + 1) = Ordinals(m, n + 1)
  BY <1>2, <1>3, <1>4, SeqEqual
<1> QED BY <1>1, <1>5

\* ... or the first one is taken.
LEMMA OrdinalsTake ==
    ASSUME NEW m \in Nat, NEW n \in Nat, m < n
    PROVE  /\ Ordinals(m, n) # << >> /\ Head(Ordinals(m, n)) = m + 1
           /\ Tail(Ordinals(m, n)) = Ordinals(m + 1, n)
<1>1. Ordinals(m, n) \in Seq(Nat) /\ Len(Ordinals(m, n)) = n - m
  BY DEF Ordinals
<1>2. Ordinals(m, n) # << >> /\ Head(Ordinals(m, n)) = m + 1
  BY <1>1 DEF Ordinals
<1>3. Tail(Ordinals(m, n)) \in Seq(Nat) /\ Ordinals(m + 1, n) \in Seq(Nat)
  BY <1>1, <1>2 DEF Ordinals
<1>4. Len(Tail(Ordinals(m, n))) = n - m - 1 /\ Len(Ordinals(m + 1, n)) = n - m - 1
  BY <1>1, <1>2 DEF Ordinals
<1>5. \A k \in 1 .. n - m - 1 : Tail(Ordinals(m, n))[k] = Ordinals(m + 1, n)[k]
  BY <1>1, <1>2 DEF Ordinals
<1>6. Tail(Ordinals(m, n)) = Ordinals(m + 1, n)
  BY <1>3, <1>4, <1>5, SeqEqual
<1> QED BY <1>2, <1>6

\* The slots between the two indexes, as users see them, are the activities
\* accepted and not yet read.
LEMMA QueuedIsInterval ==
    ASSUME IInv
    PROVE  /\ Read \in Nat /\ Read <= accepted /\ accepted - Read < Capacity
           /\ Queued = Ordinals(Read, accepted)
<1>1. TypeOK /\ Size \in 0 .. Capacity - 1 /\ readIndex \in 0 .. Capacity - 1
  BY SizeType DEF IInv, TypeOK
<1>2. First \in {0, 1} /\ Taken \in {0, 1} /\ (First = 1 <=> cpc = "advance")
  BY DEF First, Taken
<1>3. First <= Size
  BY <1>1, <1>2 DEF IInv, NotifierInv, isEmpty
<1>4. dispatched \in Nat /\ accepted \in Nat /\ accepted = dispatched + Taken + Size
  BY DEF IInv, TypeOK, RingInv
<1>5. Read \in Nat /\ Read <= accepted /\ accepted - Read = Size - First
  BY <1>1, <1>2, <1>3, <1>4 DEF Read
<1>6. ASSUME NEW k \in 1 .. Size - First
      PROVE  buffer[Mask(readIndex + First + k - 1)] = Read + k
  <2> DEFINE o == First + k - 1
  <2>1. o \in 0 .. Capacity - 1 /\ o < Size /\ readIndex + First + k - 1 = readIndex + o
    BY <1>1, <1>2, <1>3, CapacityAssumption
  <2>2. Mask(readIndex + o) \in 0 .. Capacity - 1 /\ Offset(Mask(readIndex + o)) = o
    BY <1>1, <2>1, SlotAtOffset DEF Offset
  <2>3. ~(cpc = "advance" /\ Mask(readIndex + o) = readIndex)
    <3>1. Offset(readIndex) = 0
      BY <1>1, OffsetValue, CapacityAssumption
    <3> QED BY <1>2, <2>2, <3>1
  <2>4. buffer[Mask(readIndex + o)] = dispatched + Taken + o + 1
    BY <2>1, <2>2, <2>3 DEF IInv, RingInv
  <2> QED BY <1>2, <1>4, <2>1, <2>4 DEF Read
<1>7. Queued = Ordinals(Read, accepted)
  BY <1>5, <1>6 DEF Queued, Ordinals
<1> QED BY <1>1, <1>2, <1>3, <1>5, <1>7, CapacityAssumption

\* Every step of the ring is a step of the lossy queue, or changes nothing that
\* its users see.
LEMMA StepIsAbstractStep ==
    ASSUME IInv, IInv', [Next]_vars
    PROVE  [Abstract!Next]_(Abstract!fifoVars)
<1> USE DEF queueVars, ring, flags, producerVars, notifierVars, mainVars, Goes,
            NotifierGoes
<1>q. /\ Read \in Nat /\ Read <= accepted /\ accepted - Read < Capacity
      /\ Queued = Ordinals(Read, accepted) /\ accepted \in Nat
  BY QueuedIsInterval DEF IInv, TypeOK
<1>r. Queued' = Ordinals(Read', accepted')
  <2>1. (Queued = Ordinals(Read, accepted))'
    BY QueuedIsInterval, PTL
  <2> QED BY <2>1 DEF Ordinals
<1>1. ASSUME Read' = Read, accepted' = accepted, activity' = activity,
             dropped' = dropped, lost_events' = lost_events
      PROVE  UNCHANGED Abstract!fifoVars
  BY <1>1, <1>q, <1>r DEF Abstract!fifoVars
<1>2. ASSUME NEW p \in Producers, PushPublish(p)
      PROVE  \E a \in 1 .. MaxCalls : Abstract!Accept(a)
  <2>1. accepted + 1 \in 1 .. MaxCalls
    <3>1. p \in InFlight
      BY <1>2 DEF InFlight, PushPublish
    <3>2. Cardinality(InFlight) \in Nat /\ Cardinality(InFlight) # 0
      BY <3>1, FS_CardinalityType, FS_EmptySet DEF IInv, CallsInv
    <3>3. calls = accepted + dropped + Cardinality(InFlight) /\ calls <= MaxCalls
      BY DEF IInv, CallsInv
    <3>4. calls \in Nat /\ accepted \in Nat /\ dropped \in Nat /\ MaxCalls \in Nat
      BY BoundsAssumption DEF IInv, TypeOK
    <3> QED BY <3>2, <3>3, <3>4
  <2>2. Read' = Read /\ accepted' = accepted + 1
    BY <1>2 DEF Read, Taken, Holding, First, PushPublish
  <2>3. accepted - Read < Capacity - 1
    <3>1. Size < Capacity - 1 /\ Size \in Nat
      BY <1>2, SizeType, CapacityAssumption DEF IInv, RingInv, HasRoom, PushPublish
    <3>2. accepted = dispatched + Taken + Size /\ First \in {0, 1} /\ Taken \in {0, 1}
      BY DEF IInv, RingInv, First, Taken
    <3>3. dispatched \in Nat
      BY DEF IInv, TypeOK
    <3> QED BY <3>1, <3>2, <3>3, CapacityAssumption DEF Read
  <2>4. Queued' = Append(Queued, accepted + 1) /\ Len(Queued) = accepted - Read
    BY <1>q, <1>r, <2>2, OrdinalsAppend
  <2>5. Abstract!Accept(accepted + 1)
    BY <1>2, <2>3, <2>4 DEF Abstract!Accept, PushPublish
  <2> QED BY <2>1, <2>5
<1>3. ASSUME NEW p \in Producers, PushDiscard(p) PROVE Abstract!Discard
  <2>1. Read' = Read /\ accepted' = accepted
    BY <1>3 DEF Read, Taken, Holding, First, PushDiscard
  <2>2. Queued' = Queued
    BY <1>q, <1>r, <2>1
  <2> QED BY <1>3, <2>2 DEF Abstract!Discard, PushDiscard, IInv, TypeOK
<1>4. ASSUME PopRead PROVE Abstract!Take
  <2>1. Read' = Read + 1 /\ accepted' = accepted
    BY <1>4 DEF Read, Taken, Holding, First, PopRead, IInv, TypeOK
  <2>2. Read < accepted
    BY <1>4, <1>q, SizeType
       DEF Read, Taken, Holding, First, PopRead, IInv, TypeOK, RingInv, NotifierInv, isEmpty
  <2>3. Queued # << >> /\ Head(Queued) = Read + 1 /\ Queued' = Tail(Queued)
    BY <1>q, <1>r, <2>1, <2>2, OrdinalsTake
  <2>4. activity = NoActivity /\ activity' = Read + 1
    BY <1>4 DEF Read, Taken, Holding, First, PopRead, IInv, TypeOK, NotifierInv
  <2> QED BY <1>4, <2>3, <2>4 DEF Abstract!Take, PopRead
<1>5. ASSUME Dispatch PROVE \E n \in 0 .. dropped - lost_events : Abstract!Deliver(n)
  <2>1. missed \in 0 .. dropped - lost_events
    BY <1>5 DEF Dispatch, IInv, TypeOK, LossInv
  <2>2. Read' = Read /\ accepted' = accepted
    BY <1>5 DEF Read, Taken, Holding, First, Dispatch, IInv, TypeOK
  <2>3. Queued' = Queued
    BY <1>q, <1>r, <2>2
  <2>4. activity # NoActivity
    BY <1>5 DEF Dispatch, IInv, TypeOK, NotifierInv, Holding, NoActivity
  <2>5. Abstract!Deliver(missed)
    BY <1>5, <2>1, <2>3, <2>4 DEF Abstract!Deliver, Dispatch, IInv, TypeOK
  <2> QED BY <2>1, <2>5
<1>6. CASE \E p \in Producers : Push(p)
  <2>1. PICK p \in Producers : Push(p)
    BY <1>6
  <2>2. CASE PushPublish(p)
    BY <2>2, <1>2 DEF Abstract!Next
  <2>3. CASE PushDiscard(p)
    BY <2>3, <1>3 DEF Abstract!Next
  <2>4. CASE ~PushPublish(p) /\ ~PushDiscard(p)
    <3>1. /\ cpc' = cpc \/ (cpc = "blocked" /\ cpc' = "relock")
          /\ dispatched' = dispatched /\ accepted' = accepted /\ activity' = activity
          /\ dropped' = dropped /\ lost_events' = lost_events
      BY <2>1, <2>4 DEF Push, PushCheckOverloaded, PushLock, PushStore, PushOverload,
         PushUnlock, PushNotify, NotifyOne
    <3>2. Read' = Read
      BY <3>1 DEF Read, Taken, Holding, First
    <3> QED BY <3>1, <3>2, <1>1
  <2> QED BY <2>2, <2>3, <2>4
<1>7. CASE Run
  <2>1. CASE PopRead
    BY <2>1, <1>4 DEF Abstract!Next
  <2>2. CASE Dispatch
    BY <2>2, <1>5 DEF Abstract!Next
  <2>3. CASE ~PopRead /\ ~Dispatch
    <3>1. /\ dispatched' = dispatched /\ accepted' = accepted /\ activity' = activity
          /\ dropped' = dropped /\ lost_events' = lost_events
      BY <1>7, <2>3 DEF Run, Pop, PopCheckEmpty, PopTestWait, PopBlock, PopTimeout, PopExit,
         PopAdvance, checkOverflowMode, OverflowTest, OverflowReadLost, OverflowSubtract,
         OverflowClear
    <3>2. Taken' + First' = Taken + First
      BY <1>7, <2>3 DEF Run, Pop, PopCheckEmpty, PopTestWait, PopBlock, PopTimeout, PopExit,
         PopAdvance, checkOverflowMode, OverflowTest, OverflowReadLost, OverflowSubtract,
         OverflowClear, Taken, Holding, First
    <3>3. Read' = Read
      <4>1. {First, Taken, First', Taken'} \subseteq {0, 1}
        BY DEF First, Taken
      <4> QED BY <3>1, <3>2, <4>1 DEF Read, IInv, TypeOK
    <3> QED BY <3>1, <3>3, <1>1
  <2> QED BY <2>1, <2>2, <2>3
<1>8. CASE Main
  <2>1. /\ dispatched' = dispatched /\ accepted' = accepted /\ activity' = activity
        /\ dropped' = dropped /\ lost_events' = lost_events
    BY <1>8 DEF Main, start, finalizeRequest, finalizeNotify, finalizeSpin, stopJoin, NotifyOne
  <2>2. Taken' = Taken /\ First' = First
    BY <1>8 DEF Main, start, finalizeRequest, finalizeNotify, finalizeSpin, stopJoin, NotifyOne,
       Taken, Holding, First, IInv, LifeInv
  <2> QED BY <2>1, <2>2, <1>1 DEF Read
<1>9. CASE UNCHANGED vars
  <2>1. UNCHANGED <<Read, accepted, activity, dropped, lost_events>>
    BY <1>9 DEF vars, Read, Taken, First
  <2> QED BY <2>1, <1>1
<1> QED BY <1>6, <1>7, <1>8, <1>9 DEF Next

\* Push, Pop and checkOverflowMode, with their unlocked reads, implement the
\* lossy first-in first-out queue that their users rely on.
THEOREM Refinement == Spec => ImplementsLossyFifo
<1>1. Init => Abstract!Init
  <2> SUFFICES ASSUME Init PROVE Abstract!Init
    OBVIOUS
  <2>1. Size = 0 /\ First = 0
    BY MaskIdentity, CapacityAssumption DEF Init, Size, First
  <2>2. Queued = << >>
    BY <2>1 DEF Queued
  <2> QED BY <2>2 DEF Init, Abstract!Init
<1>2. IInv /\ IInv' /\ [Next]_vars => [Abstract!Next]_(Abstract!fifoVars)
  BY StepIsAbstractStep
<1> QED BY <1>1, <1>2, Invariance, PTL DEF Spec, ImplementsLossyFifo, Abstract!Spec
=============================================================================
