-------------------------- MODULE CircleQueueProofs --------------------------
(***************************************************************************)
(* Proofs about CircleQueue for any number of threads, values and slots.   *)
(* The lemmas on QueueStep are stated apart from Next, for the modules     *)
(* whose callers do something else between their calls.                    *)
(***************************************************************************)
EXTENDS CircleQueue, SequenceTheorems, TLAPS

(* The index arithmetic of the ring: an index stays in it, and the next    *)
(* index is one more except at the end of the buffer.                      *)
LEMMA FollowingInRing ==
  ASSUME NEW i \in Slots
  PROVE  /\ Following(i) \in Slots
         /\ Following(i) = IF i = QueueMaxSize - 1 THEN 0 ELSE i + 1
  BY QueueAssumption DEF Following, Slots

(* Two slots have different next slots.                                    *)
LEMMA FollowingInjective ==
  ASSUME NEW i \in Slots, NEW j \in Slots, Following(i) = Following(j)
  PROVE  i = j
  BY QueueAssumption, FollowingInRing DEF Slots
-----------------------------------------------------------------------------

(* Every access of push() and pop() leaves the indices inside the ring and *)
(* the caller's value where its next access looks for it.                  *)
LEMMA QueueStepType ==
  ASSUME NEW t \in Threads, TypeOK, QueueStep(t)
  PROVE  TypeOK'
<1> USE QueueAssumption DEF TypeOK, PushPcs, PopPcs, Return
<1>1. CASE PushLoadInput(t)   BY <1>1 DEF PushLoadInput
<1>2. CASE PushFull(t)        BY <1>2 DEF PushFull, Slots
<1>3. CASE PushHasRoom(t)     BY <1>3 DEF PushHasRoom
<1>4. CASE PushWrite(t)       BY <1>4 DEF PushWrite
<1>5. CASE PushStoreInput(t)  BY <1>5, FollowingInRing DEF PushStoreInput, Slots
<1>6. CASE PopLoadOutput(t)   BY <1>6 DEF PopLoadOutput
<1>7. CASE PopEmpty(t)        BY <1>7 DEF PopEmpty, Slots
<1>8. CASE PopHasItem(t)      BY <1>8 DEF PopHasItem
<1>9. CASE PopRead(t)         BY <1>9 DEF PopRead
<1>10. CASE PopStoreOutput(t) BY <1>10, FollowingInRing DEF PopStoreOutput, Slots
<1> QED
  BY <1>1, <1>2, <1>3, <1>4, <1>5, <1>6, <1>7, <1>8, <1>9, <1>10 DEF QueueStep

(* The indices never leave the ring, whatever the threads interleave.      *)
THEOREM TypeCorrect == Spec => []TypeOK
<1>1. Init => TypeOK
  <2>1. 0 \in Slots
    BY QueueAssumption DEF Slots
  <2> QED
    BY <2>1 DEF Init, TypeOK, PushPcs, PopPcs
<1>2. TypeOK /\ [Next]_queueVars => TypeOK'
  <2> SUFFICES ASSUME TypeOK, [Next]_queueVars
               PROVE  TypeOK'
    OBVIOUS
  <2>1. ASSUME NEW t \in Threads, NEW v \in Values \cup {Null}, Bring(t, v)
        PROVE  TypeOK'
    BY <2>1 DEF TypeOK, Bring, PushPcs, PopPcs
  <2>2. CASE UNCHANGED queueVars
    BY <2>2 DEF TypeOK, queueVars
  <2> QED
    BY <2>1, <2>2, QueueStepType DEF Next
<1> QED
  BY <1>1, <1>2, PTL DEF Spec
-----------------------------------------------------------------------------

(* The slot a push fills is the only one that joins those in use when it   *)
(* ends, and the slot a pop empties the only one that leaves.              *)
LEMMA FromUpToNext ==
  ASSUME NEW o \in Slots, NEW n \in Slots
  PROVE  /\ n \notin FromUpTo(o, n)
         /\ Following(n) # o => FromUpTo(o, Following(n)) = FromUpTo(o, n) \cup {n}
         /\ o # n => /\ o \in FromUpTo(o, n)
                    /\ FromUpTo(Following(o), n) = FromUpTo(o, n) \ {o}
<1>1. /\ Following(n) = IF n = QueueMaxSize - 1 THEN 0 ELSE n + 1
      /\ Following(o) = IF o = QueueMaxSize - 1 THEN 0 ELSE o + 1
  BY FollowingInRing
<1>2. n \notin FromUpTo(o, n) /\ (o # n => o \in FromUpTo(o, n))
  BY DEF FromUpTo, Slots
<1>3. ASSUME Following(n) # o, NEW i \in Slots
      PROVE  i \in FromUpTo(o, Following(n)) <=> i \in FromUpTo(o, n) \cup {n}
  BY QueueAssumption, <1>1, <1>3 DEF FromUpTo, Slots
<1>4. ASSUME o # n, NEW i \in Slots
      PROVE  i \in FromUpTo(Following(o), n) <=> i \in FromUpTo(o, n) \ {o}
  BY QueueAssumption, <1>1, <1>4 DEF FromUpTo, Slots
<1>5. Following(n) # o => FromUpTo(o, Following(n)) = FromUpTo(o, n) \cup {n}
  BY <1>3 DEF FromUpTo
<1>6. o # n => FromUpTo(Following(o), n) = FromUpTo(o, n) \ {o}
  BY <1>4 DEF FromUpTo
<1> QED
  BY <1>2, <1>5, <1>6

(* The same, for the indices of the queue.                                 *)
LEMMA InUseFacts ==
  ASSUME TypeOK
  PROVE  /\ InUse \subseteq Slots
         /\ mInputIndex \notin InUse
         /\ mInputIndex # mOutputIndex => mOutputIndex \in InUse
  BY FromUpToNext DEF TypeOK, InUse, FromUpTo

(* Storing mInputIndex puts the slot it stood at into use.                 *)
LEMMA InUseAfterPush ==
  ASSUME TypeOK, Following(mInputIndex) # mOutputIndex,
         mInputIndex' = Following(mInputIndex), mOutputIndex' = mOutputIndex
  PROVE  InUse' = InUse \cup {mInputIndex}
  BY FromUpToNext DEF TypeOK, InUse

(* Storing mOutputIndex takes the slot it stood at out of use.             *)
LEMMA InUseAfterPop ==
  ASSUME TypeOK, mInputIndex # mOutputIndex,
         mOutputIndex' = Following(mOutputIndex), mInputIndex' = mInputIndex
  PROVE  InUse' = InUse \ {mOutputIndex}
  BY FromUpToNext DEF TypeOK, InUse

(* No access breaks SerialInv: the step either sets raced, or is the next  *)
(* access of the only call of its kind.                                    *)
LEMMA QueueStepSerial ==
  ASSUME NEW t \in Threads, TypeOK, SerialInv, QueueStep(t)
  PROVE  SerialInv'
<1> SUFFICES ASSUME ~raced'
             PROVE  SerialInv'
  BY DEF SerialInv
<1> USE QueueAssumption
<1>0. TypeOK' /\ ~raced
  BY QueueStepType
     DEF QueueStep, PushLoadInput, PushFull, PushHasRoom, PushWrite, PushStoreInput,
         PopLoadOutput, PopEmpty, PopHasItem, PopRead, PopStoreOutput, TypeOK
<1> USE DEF SerialInv, OneOfAKind, PushIsCurrent, PopIsCurrent, Pushing, Popping,
            PushPcs, PopPcs, Return
<1>1. CASE PushLoadInput(t)
  BY <1>0, <1>1 DEF PushLoadInput, TypeOK, InUse
<1>2. CASE PushFull(t)
  BY <1>0, <1>2 DEF PushFull, TypeOK, InUse
<1>3. CASE PushHasRoom(t)
  BY <1>0, <1>3 DEF PushHasRoom, TypeOK, InUse
<1>4. CASE PushWrite(t)
  BY <1>0, <1>4, InUseFacts DEF PushWrite, TypeOK, InUse
<1>5. CASE PushStoreInput(t)
  <2>1. /\ cur[t] = mInputIndex /\ Following(mInputIndex) # mOutputIndex
        /\ mBuffer[mInputIndex] = hand[t] /\ hand[t] \in Values
    BY <1>0, <1>5 DEF PushStoreInput, TypeOK
  <2>2. /\ mInputIndex' = Following(mInputIndex)
        /\ UNCHANGED << mOutputIndex, mBuffer >>
        /\ pc' = [pc EXCEPT ![t] = "idle"] /\ cur' = [cur EXCEPT ![t] = 0]
        /\ hand' = [hand EXCEPT ![t] = Null]
    BY <1>5, <2>1 DEF PushStoreInput
  <2>3. OneOfAKind'
    BY <1>0, <1>5, <2>2 DEF TypeOK
  <2>4. ASSUME NEW u \in Threads
        PROVE  (PushIsCurrent(u) /\ PopIsCurrent(u) /\ hand[u] # Uninit)'
    BY <1>0, <1>5, <2>1, <2>2 DEF PushStoreInput, TypeOK
  <2>5. InUse' = InUse \cup {mInputIndex}
    BY <2>1, <2>2, InUseAfterPush
  <2>6. \A i \in InUse' : mBuffer'[i] \in Values
    BY <1>0, <2>1, <2>2, <2>5
  <2> QED
    BY <2>3, <2>4, <2>6
<1>6. CASE PopLoadOutput(t)
  <2>1. Popping = {} /\ InUse' = InUse
    BY <1>0, <1>6 DEF PopLoadOutput, TypeOK, InUse
  <2>2. OneOfAKind'
    BY <1>0, <1>6, <2>1 DEF PopLoadOutput, TypeOK
  <2>3. ASSUME NEW u \in Threads
        PROVE  (PushIsCurrent(u) /\ PopIsCurrent(u) /\ hand[u] # Uninit)'
    BY <1>0, <1>6, <2>1 DEF PopLoadOutput, TypeOK
  <2> QED
    BY <1>0, <1>6, <2>1, <2>2, <2>3 DEF PopLoadOutput
<1>7. CASE PopEmpty(t)
  BY <1>0, <1>7 DEF PopEmpty, TypeOK, InUse
<1>8. CASE PopHasItem(t)
  BY <1>0, <1>8 DEF PopHasItem, TypeOK, InUse
<1>9. CASE PopRead(t)
  BY <1>0, <1>9, InUseFacts DEF PopRead, TypeOK, InUse
<1>10. CASE PopStoreOutput(t)
  <2>1. cur[t] = mOutputIndex /\ mInputIndex # mOutputIndex
    BY <1>0, <1>10 DEF PopStoreOutput, TypeOK
  <2>2. /\ mOutputIndex' = Following(mOutputIndex)
        /\ UNCHANGED << mInputIndex, mBuffer, hand >>
        /\ pc' = [pc EXCEPT ![t] = "idle"] /\ cur' = [cur EXCEPT ![t] = 0]
    BY <1>10, <2>1 DEF PopStoreOutput
  <2>3. OneOfAKind'
    BY <1>0, <1>10, <2>2 DEF TypeOK
  <2>5. InUse' = InUse \ {mOutputIndex}
    BY <2>1, <2>2, InUseAfterPop
  <2>6. ASSUME NEW u \in Threads
        PROVE  (PushIsCurrent(u) /\ PopIsCurrent(u) /\ hand[u] # Uninit)'
    <3>1. Following(mInputIndex) # mOutputIndex'
      BY <2>1, <2>2, FollowingInjective DEF TypeOK
    <3> QED
      BY <1>0, <1>10, <2>1, <2>2, <3>1 DEF PopStoreOutput, TypeOK
  <2>7. \A i \in InUse' : mBuffer'[i] \in Values
    BY <1>0, <2>2, <2>5
  <2> QED
    BY <2>3, <2>6, <2>7
<1> QED
  BY <1>1, <1>2, <1>3, <1>4, <1>5, <1>6, <1>7, <1>8, <1>9, <1>10 DEF QueueStep
-----------------------------------------------------------------------------

(* No call works on a stale index while calls of a kind are kept apart: a  *)
(* push owns the slot it fills and a pop the slot it empties.              *)
THEOREM SerialCorrect == Spec => []SerialInv
<1>1. Init => SerialInv
  <2> SUFFICES ASSUME Init
               PROVE  SerialInv
    OBVIOUS
  <2>1. Pushing = {} /\ Popping = {}
    BY DEF Init, Pushing, Popping, PushPcs, PopPcs
  <2>2. InUse = {}
    BY DEF Init, InUse, FromUpTo, Slots
  <2>3. ASSUME NEW t \in Threads
        PROVE  PushIsCurrent(t) /\ PopIsCurrent(t) /\ hand[t] # Uninit
    BY QueueAssumption DEF Init, PushIsCurrent, PopIsCurrent, PushPcs, PopPcs
  <2> QED
    BY <2>1, <2>2, <2>3 DEF SerialInv, OneOfAKind
<1>2. TypeOK /\ SerialInv /\ [Next]_queueVars => SerialInv'
  <2> SUFFICES ASSUME TypeOK, SerialInv, [Next]_queueVars
               PROVE  SerialInv'
    OBVIOUS
  <2>1. ASSUME NEW t \in Threads, NEW v \in Values \cup {Null}, Bring(t, v)
        PROVE  SerialInv'
    BY <2>1, QueueAssumption
       DEF Bring, TypeOK, SerialInv, OneOfAKind, PushIsCurrent, PopIsCurrent,
           Pushing, Popping, PushPcs, PopPcs, InUse
  <2>2. CASE UNCHANGED queueVars
    BY <2>2 DEF queueVars, SerialInv, OneOfAKind, PushIsCurrent, PopIsCurrent,
                Pushing, Popping, InUse
  <2> QED
    BY <2>1, <2>2, QueueStepSerial DEF Next
<1> QED
  BY <1>1, <1>2, TypeCorrect, PTL DEF Spec
-----------------------------------------------------------------------------

(* The number of slots in use is what size() computes, so a push that      *)
(* finds the next slot to be mOutputIndex finds QueueMaxSize - 1 values.   *)
LEMMA FullAndEmpty ==
  ASSUME TypeOK
  PROVE  /\ Following(mInputIndex) = mOutputIndex => Size = QueueMaxSize - 1
         /\ mOutputIndex = mInputIndex => Size = 0
  BY QueueAssumption, FollowingInRing DEF TypeOK, Size, Slots

(* push() and pop() give up only on a full, respectively an empty, queue.  *)
THEOREM RefusesCorrect == Spec => RefusesOnlyFullOrEmpty
<1>1. ASSUME TypeOK, SerialInv, [Next]_queueVars
      PROVE  [\A t \in Threads : ~raced /\ pc'[t] = "idle" =>
                /\ pc[t] = "pushLoaded" => Size = QueueMaxSize - 1
                /\ pc[t] = "popLoaded"  => Size = 0]_queueVars
  <2> SUFFICES ASSUME Next, NEW t \in Threads, ~raced, pc'[t] = "idle",
                      pc[t] \in {"pushLoaded", "popLoaded"}
               PROVE  /\ pc[t] = "pushLoaded" => Size = QueueMaxSize - 1
                      /\ pc[t] = "popLoaded"  => Size = 0
    BY <1>1
  <2>1. cur[t] = IF pc[t] = "pushLoaded" THEN mInputIndex ELSE mOutputIndex
    BY <1>1 DEF SerialInv, PushIsCurrent, PopIsCurrent, PushPcs, PopPcs
  <2>2. PushFull(t) \/ PopEmpty(t)
    <3>1. ASSUME NEW u \in Threads, NEW v \in Values \cup {Null}, Bring(u, v)
          PROVE  FALSE
      BY <1>1, <3>1 DEF Bring
    <3>2. PICK u \in Threads : QueueStep(u)
      BY <3>1 DEF Next
    <3>3. u = t
      BY <1>1, <3>2 DEF QueueStep, TypeOK, Return, PushLoadInput, PushFull, PushHasRoom,
         PushWrite, PushStoreInput, PopLoadOutput, PopEmpty, PopHasItem, PopRead, PopStoreOutput
    <3> QED
      BY <1>1, <3>2, <3>3 DEF QueueStep, TypeOK, PushLoadInput, PushHasRoom,
         PushWrite, PushStoreInput, PopLoadOutput, PopHasItem, PopRead, PopStoreOutput
  <2> QED
    BY <1>1, <2>1, <2>2, FullAndEmpty DEF PushFull, PopEmpty
<1> QED
  BY <1>1, TypeCorrect, SerialCorrect, PTL DEF Spec, RefusesOnlyFullOrEmpty
-----------------------------------------------------------------------------

(* A walk of k slots from slot o wraps around at most once.                *)
LEMMA WalkWraps ==
  ASSUME NEW o \in Slots, NEW k \in Slots
  PROVE  (o + k) % QueueMaxSize
           = IF o + k < QueueMaxSize THEN o + k ELSE o + k - QueueMaxSize
  BY QueueAssumption DEF Slots

(* Where the queued values are: the k-th after mOutputIndex is in use for   *)
(* k < Size, and the one after the last is the slot the next push fills.    *)
LEMMA SlotFacts ==
  ASSUME TypeOK
  PROVE  /\ Size \in 0 .. QueueMaxSize - 1
         /\ Size = 0 <=> mInputIndex = mOutputIndex
         /\ Size = QueueMaxSize - 1 <=> Following(mInputIndex) = mOutputIndex
         /\ SlotOf(0) = mOutputIndex
         /\ SlotOf(Size) = mInputIndex
         /\ \A k \in 0 .. Size - 1 : SlotOf(k) \in InUse
<1> USE QueueAssumption
<1>1. \A k \in 0 .. QueueMaxSize - 1 :
        SlotOf(k) = IF mOutputIndex + k < QueueMaxSize
                    THEN mOutputIndex + k ELSE mOutputIndex + k - QueueMaxSize
  BY WalkWraps DEF TypeOK, SlotOf, Slots
<1>2. Size \in 0 .. QueueMaxSize - 1
  BY DEF TypeOK, Size, Slots
<1>3. Size = QueueMaxSize - 1 <=> Following(mInputIndex) = mOutputIndex
  BY FollowingInRing DEF TypeOK, Size, Slots
<1>4. ASSUME NEW k \in 0 .. Size - 1
      PROVE  SlotOf(k) \in InUse
  BY <1>1, <1>2, <1>4 DEF TypeOK, Size, Slots, InUse, FromUpTo
<1> QED
  BY <1>1, <1>2, <1>3, <1>4 DEF TypeOK, Size, Slots

(* Storing mInputIndex makes the queue one longer; the others keep their   *)
(* slots.                                                                  *)
LEMMA SizeAfterPush ==
  ASSUME TypeOK, Following(mInputIndex) # mOutputIndex,
         mInputIndex' = Following(mInputIndex), mOutputIndex' = mOutputIndex
  PROVE  /\ Size' = Size + 1
         /\ \A k \in Int : SlotOf(k)' = SlotOf(k)
<1>1. Size' = Size + 1
  <2>1. Following(mInputIndex)
          = IF mInputIndex = QueueMaxSize - 1 THEN 0 ELSE mInputIndex + 1
    BY FollowingInRing DEF TypeOK
  <2>2. /\ QueueMaxSize \in Nat
        /\ mInputIndex \in 0 .. QueueMaxSize - 1
        /\ mOutputIndex \in 0 .. QueueMaxSize - 1
    BY QueueAssumption DEF TypeOK, Slots
  <2>3. CASE mInputIndex = QueueMaxSize - 1
    BY <2>1, <2>2, <2>3 DEF Size
  <2>4. CASE mInputIndex # QueueMaxSize - 1
    BY <2>1, <2>2, <2>4 DEF Size
  <2> QED
    BY <2>3, <2>4
<1>2. \A k \in Int : SlotOf(k)' = SlotOf(k)
  BY DEF SlotOf
<1> QED
  BY <1>1, <1>2

(* Storing mOutputIndex makes the queue one shorter, and every value left  *)
(* moves one place forward.                                                *)
LEMMA SizeAfterPop ==
  ASSUME TypeOK, mInputIndex # mOutputIndex,
         mOutputIndex' = Following(mOutputIndex), mInputIndex' = mInputIndex
  PROVE  /\ Size' = Size - 1
         /\ \A k \in 0 .. Size - 2 : SlotOf(k)' = SlotOf(k + 1)
<1> USE QueueAssumption
<1>1. mOutputIndex' = IF mOutputIndex = QueueMaxSize - 1 THEN 0 ELSE mOutputIndex + 1
  BY FollowingInRing DEF TypeOK
<1>2. Size' = Size - 1 /\ Size \in 1 .. QueueMaxSize - 1
  BY <1>1 DEF TypeOK, Size, Slots
<1>3. ASSUME NEW k \in 0 .. Size - 2
      PROVE  SlotOf(k)' = SlotOf(k + 1)
  <2>1. /\ k \in Slots /\ k + 1 \in Slots
        /\ mOutputIndex \in Slots /\ mOutputIndex' \in Slots
    BY <1>2, FollowingInRing DEF TypeOK, Slots
  <2>2. /\ SlotOf(k)' = (mOutputIndex' + k) % QueueMaxSize
        /\ SlotOf(k + 1) = (mOutputIndex + (k + 1)) % QueueMaxSize
    BY DEF SlotOf
  <2>3. /\ (mOutputIndex' + k) % QueueMaxSize
             = IF mOutputIndex' + k < QueueMaxSize
               THEN mOutputIndex' + k ELSE mOutputIndex' + k - QueueMaxSize
        /\ (mOutputIndex + (k + 1)) % QueueMaxSize
             = IF mOutputIndex + (k + 1) < QueueMaxSize
               THEN mOutputIndex + (k + 1) ELSE mOutputIndex + (k + 1) - QueueMaxSize
    BY <2>1, WalkWraps
  <2> QED
    BY <1>1, <2>1, <2>2, <2>3 DEF Slots
<1> QED
  BY <1>2, <1>3

(* A push that ends appends the value in its caller's hand.                *)
LEMMA ContentsAfterPush ==
  ASSUME TypeOK, SerialInv, ~raced, NEW t \in Threads, PushStoreInput(t)
  PROVE  /\ Contents \in Seq(Values)
         /\ Len(Contents) < QueueMaxSize - 1
         /\ Contents' = Append(Contents, hand[t])
<1>1. /\ cur[t] = mInputIndex /\ Following(mInputIndex) # mOutputIndex
      /\ mBuffer[mInputIndex] = hand[t] /\ hand[t] \in Values
  BY DEF PushStoreInput, SerialInv, PushIsCurrent, PushPcs, TypeOK
<1>2. /\ mInputIndex' = Following(mInputIndex)
      /\ UNCHANGED << mOutputIndex, mBuffer >>
  BY <1>1 DEF PushStoreInput
<1>3. Size' = Size + 1 /\ \A k \in Int : SlotOf(k)' = SlotOf(k)
  BY <1>1, <1>2, SizeAfterPush
<1>4. Size \in Nat /\ Size < QueueMaxSize - 1
  BY <1>1, SlotFacts, QueueAssumption
<1>5. Contents \in Seq(Values) /\ Len(Contents) = Size
  BY <1>4, SlotFacts DEF Contents, SerialInv
<1>6. Contents' = [k \in 1 .. Size + 1 |-> mBuffer[SlotOf(k - 1)]]
  BY <1>2, <1>3, <1>4 DEF Contents
<1>7. mBuffer[SlotOf(Size)] = hand[t]
  BY <1>1, SlotFacts
<1>8. Contents' \in Seq(Values) /\ Len(Contents') = Size + 1
  BY <1>1, <1>4, <1>6, <1>7, SlotFacts DEF SerialInv
<1>9. /\ Append(Contents, hand[t]) \in Seq(Values)
      /\ Len(Append(Contents, hand[t])) = Size + 1
      /\ \A k \in 1 .. Size : Append(Contents, hand[t])[k] = Contents[k]
      /\ Append(Contents, hand[t])[Size + 1] = hand[t]
  BY <1>1, <1>5, AppendProperties
<1>10. \A k \in 1 .. Size + 1 : Contents'[k] = Append(Contents, hand[t])[k]
  <2>1. \A k \in 1 .. Size : Contents'[k] = Contents[k]
    <3>1. Contents = [k \in 1 .. Size |-> mBuffer[SlotOf(k - 1)]]
      BY DEF Contents
    <3> QED
      BY <1>4, <1>6, <3>1
  <2>2. Contents'[Size + 1] = mBuffer[SlotOf(Size)]
    BY <1>4, <1>6
  <2> QED
    BY <1>4, <1>7, <1>9, <2>1, <2>2
<1>11. Contents' = Append(Contents, hand[t])
  BY <1>8, <1>9, <1>10, SeqEqual
<1> QED
  BY <1>4, <1>5, <1>11

(* A pop that ends has taken the oldest value.                             *)
LEMMA ContentsAfterPop ==
  ASSUME TypeOK, SerialInv, ~raced, NEW t \in Threads, PopStoreOutput(t)
  PROVE  /\ Contents \in Seq(Values)
         /\ Contents # << >>
         /\ hand[t] = Head(Contents)
         /\ Contents' = Tail(Contents)
<1>1. /\ cur[t] = mOutputIndex /\ mInputIndex # mOutputIndex
      /\ hand[t] = mBuffer[mOutputIndex]
  BY DEF PopStoreOutput, SerialInv, PopIsCurrent, PopPcs
<1>2. /\ mOutputIndex' = Following(mOutputIndex)
      /\ UNCHANGED << mInputIndex, mBuffer >>
  BY <1>1 DEF PopStoreOutput
<1>3. Size' = Size - 1 /\ \A k \in 0 .. Size - 2 : SlotOf(k)' = SlotOf(k + 1)
  BY <1>1, <1>2, SizeAfterPop
<1>4. Size \in Nat \ {0}
  BY <1>1, SlotFacts, QueueAssumption
<1>5. Contents \in Seq(Values) /\ Len(Contents) = Size
  BY <1>4, SlotFacts DEF Contents, SerialInv
<1>6. Head(Contents) = mBuffer[mOutputIndex]
  BY <1>4, <1>5, SlotFacts DEF Contents
<1>7. Contents' = [k \in 1 .. Size - 1 |-> mBuffer[SlotOf(k)]]
  BY <1>2, <1>3, <1>4 DEF Contents
<1>8. Contents' \in Seq(Values) /\ Len(Contents') = Size - 1
  BY <1>4, <1>7, SlotFacts DEF SerialInv
<1>9. /\ Tail(Contents) \in Seq(Values)
      /\ Len(Tail(Contents)) = Size - 1
      /\ \A k \in 1 .. Size - 1 : Tail(Contents)[k] = Contents[k + 1]
  BY <1>4, <1>5, HeadTailProperties
<1>10. \A k \in 1 .. Size - 1 : Contents[k + 1] = mBuffer[SlotOf(k)]
  BY <1>4 DEF Contents
<1>11. \A k \in 1 .. Size - 1 : Contents'[k] = Tail(Contents)[k]
  BY <1>7, <1>9, <1>10
<1>12. Contents' = Tail(Contents)
  BY <1>8, <1>9, <1>11, SeqEqual
<1> QED
  BY <1>1, <1>4, <1>5, <1>6, <1>12
-----------------------------------------------------------------------------

(* An access that stores no index leaves the queue as it was: a push       *)
(* writes outside the slots in use.                                        *)
LEMMA ContentsElsewhere ==
  ASSUME TypeOK, SerialInv, ~raced, NEW t \in Threads, QueueStep(t),
         ~PushStoreInput(t), ~PopStoreOutput(t)
  PROVE  Contents' = Contents
<1>1. UNCHANGED << mInputIndex, mOutputIndex >>
  BY DEF QueueStep, PushLoadInput, PushFull, PushHasRoom, PushWrite,
         PopLoadOutput, PopEmpty, PopHasItem, PopRead
<1>2. ASSUME NEW i \in InUse
      PROVE  mBuffer'[i] = mBuffer[i]
  <2>1. CASE PushWrite(t)
    BY <2>1, InUseFacts DEF PushWrite, SerialInv, PushIsCurrent, PushPcs, TypeOK
  <2>2. CASE ~PushWrite(t)
    BY <2>2 DEF QueueStep, PushLoadInput, PushFull, PushHasRoom,
                PopLoadOutput, PopEmpty, PopHasItem, PopRead
  <2> QED
    BY <2>1, <2>2
<1>3. Size' = Size /\ \A k \in 0 .. Size - 1 : SlotOf(k)' = SlotOf(k)
  BY <1>1 DEF Size, SlotOf
<1>4. Contents' = [k \in 1 .. Size |-> mBuffer'[SlotOf(k - 1)']]
  BY <1>3 DEF Contents
<1>5. \A k \in 1 .. Size : mBuffer'[SlotOf(k - 1)'] = mBuffer[SlotOf(k - 1)]
  BY <1>2, <1>3, SlotFacts
<1> QED
  BY <1>4, <1>5 DEF Contents

(* Every access of a push() or a pop() is a step of the bounded queue: the *)
(* store of an index is the whole operation, every other access nothing.   *)
LEMMA QueueStepRefines ==
  ASSUME NEW t \in Threads, TypeOK, SerialInv, ~raced, QueueStep(t)
  PROVE  [Abstract!Next]_(Abstract!vars)
<1> USE DEF TypeOK
<1>1. CASE PushStoreInput(t)
  <2>1. /\ HandOutside[t] = hand[t] /\ hand[t] \in Values
        /\ HandOutside' = [HandOutside EXCEPT ![t] = Null]
    BY <1>1 DEF PushStoreInput, Return, HandOutside, PushPcs
  <2>2. Abstract!Push(t)
    BY <1>1, <2>1, ContentsAfterPush DEF Abstract!Push
  <2> QED
    BY <2>2 DEF Abstract!Next
<1>2. CASE PopStoreOutput(t)
  <2>1. /\ HandOutside[t] = Null
        /\ HandOutside' = [HandOutside EXCEPT ![t] = hand[t]]
    BY <1>2 DEF PopStoreOutput, Return, HandOutside
  <2>2. Abstract!Pop(t)
    BY <1>2, <2>1, ContentsAfterPop DEF Abstract!Pop
  <2> QED
    BY <2>2 DEF Abstract!Next
<1>3. CASE ~PushStoreInput(t) /\ ~PopStoreOutput(t)
  <2>1. HandOutside' = HandOutside
    BY <1>3 DEF QueueStep, HandOutside, Return, PushLoadInput, PushFull, PushHasRoom,
                PushWrite, PopLoadOutput, PopEmpty, PopHasItem, PopRead
  <2>2. Contents' = Contents
    BY <1>3, ContentsElsewhere
  <2> QED
    BY <2>1, <2>2 DEF Abstract!vars
<1> QED
  BY <1>1, <1>2, <1>3

(* While calls of a kind are kept apart the ring is a bounded FIFO queue.  *)
THEOREM QueueRefinement == SerialSpec => ImplementsBoundedQueue
<1>1. Init => Abstract!Init
  <2> SUFFICES ASSUME Init
               PROVE  Abstract!Init
    OBVIOUS
  <2>1. Size = 0
    BY DEF Init, Size
  <2>2. Contents = << >>
    BY <2>1 DEF Contents
  <2>3. HandOutside = [t \in Threads |-> Null]
    BY DEF Init, HandOutside
  <2> QED
    BY <2>2, <2>3 DEF Abstract!Init
<1>2. ASSUME TypeOK, SerialInv, ~raced, [Next /\ ~raced']_queueVars
      PROVE  [Abstract!Next]_(Abstract!vars)
  <2>1. ASSUME NEW t \in Threads, NEW v \in Values \cup {Null}, Bring(t, v)
        PROVE  [Abstract!Next]_(Abstract!vars)
    <3>1. Contents' = Contents
      BY <2>1 DEF Bring, Contents, Size, SlotOf
    <3>2. HandOutside' = [HandOutside EXCEPT ![t] = v]
      BY <1>2, <2>1 DEF Bring, HandOutside, TypeOK
    <3> QED
      BY <3>1, <3>2 DEF Abstract!Next, Abstract!Bring
  <2>2. CASE UNCHANGED queueVars
    <3>1. Contents' = Contents /\ HandOutside' = HandOutside
      BY <2>2 DEF queueVars, Contents, Size, SlotOf, HandOutside
    <3> QED
      BY <3>1 DEF Abstract!vars
  <2> QED
    BY <1>2, <2>1, <2>2, QueueStepRefines DEF Next
<1>3. Init => ~raced
  BY DEF Init
<1>4. ~raced /\ [Next /\ ~raced']_queueVars => ~raced'
  BY DEF queueVars
<1>5. SerialSpec => Spec
  BY PTL DEF SerialSpec, Spec
<1> QED
  BY <1>1, <1>2, <1>3, <1>4, <1>5, TypeCorrect, SerialCorrect, PTL
     DEF SerialSpec, ImplementsBoundedQueue, Abstract!Spec

=============================================================================
