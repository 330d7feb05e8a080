---------------------------- MODULE NetworkProofs ----------------------------
(***************************************************************************)
(* Proofs about ContextPool for any number of threads and contexts, and    *)
(* about Network for any number of clients, workers and contexts: its      *)
(* types, and, whatever fails, what its contexts and the phases of its     *)
(* program come to.                                                        *)
(***************************************************************************)
EXTENDS Network, CircleQueueProofs, FiniteSetTheorems

(***************************************************************************)
(* The pool.  The steps of push() and pop() are those of                   *)
(* CircleQueueProofs; what is new is the filled queue the pool starts with *)
(* and the contexts that leave it.                                         *)
(***************************************************************************)

(* Outside the calls a context only goes between a hand and the outside.   *)
LEMMA HandStep ==
  ASSUME PoolTypeOK, NEW t \in Threads,
         HandOver(t) \/ \E x \in Contexts : TakeOver(t, x)
  PROVE  /\ UNCHANGED << mInputIndex, mOutputIndex, mBuffer, pc, cur, raced >>
         /\ pc[t] = "idle"
         /\ \E v \in Contexts \cup {Null} : hand' = [hand EXCEPT ![t] = v]
         /\ away' \subseteq Contexts
  BY DEF HandOver, TakeOver, PoolTypeOK

(* The pool's variables keep their types: in particular the indices stay   *)
(* in the ring whatever the threads interleave.                            *)
LEMMA PoolTypeInit == PoolInit => PoolTypeOK
<1> SUFFICES ASSUME PoolInit
             PROVE  PoolTypeOK
  OBVIOUS
<1>1. mInputIndex \in Slots /\ mOutputIndex \in Slots /\ cur \in [Threads -> Slots]
  BY QueueAssumption DEF PoolInit, Slots
<1>2. mBuffer \in [Slots -> Values \cup {Uninit}] /\ away \subseteq Contexts
  BY DEF PoolInit, Contexts
<1> QED
  BY <1>1, <1>2 DEF PoolInit, PoolTypeOK, TypeOK, PushPcs, PopPcs

(* No step of the pool leaves the types.                                   *)
LEMMA PoolTypeStep == PoolTypeOK /\ [PoolNext]_poolVars => PoolTypeOK'
<1> SUFFICES ASSUME PoolTypeOK, [PoolNext]_poolVars
             PROVE  PoolTypeOK'
  OBVIOUS
<1>1. ASSUME NEW t \in Threads, QueueStep(t), UNCHANGED away
      PROVE  PoolTypeOK'
  BY <1>1, QueueStepType DEF PoolTypeOK
<1>2. ASSUME NEW t \in Threads, HandOver(t) \/ \E x \in Contexts : TakeOver(t, x)
      PROVE  PoolTypeOK'
  BY <1>2, HandStep DEF PoolTypeOK, TypeOK, PushPcs, PopPcs, Contexts
<1>3. CASE UNCHANGED poolVars
  BY <1>3 DEF PoolTypeOK, TypeOK, poolVars, queueVars
<1> QED
  BY <1>1, <1>2, <1>3 DEF PoolNext

(* So the pool's variables are well typed for ever.                        *)
THEOREM PoolTypeCorrect == PoolSpec => []PoolTypeOK
  BY PoolTypeInit, PoolTypeStep, PTL DEF PoolSpec
-----------------------------------------------------------------------------

(* pop() never returns the slot that Start leaves unwritten, even when     *)
(* pushes overlap pushes and pops overlap pops.                            *)
THEOREM NeverPopsUninitCorrect == PoolSpec => []NeverPopsUninit
<1> DEFINE Inv == UnwrittenIsAhead /\ NeverPopsUninit
<1>1. PoolInit => Inv
  BY QueueAssumption DEF PoolInit, UnwrittenIsAhead, NeverPopsUninit, Pushing, PushPcs
<1>2. PoolTypeOK /\ Inv /\ [PoolNext]_poolVars => Inv'
  <2> SUFFICES ASSUME PoolTypeOK, Inv, [PoolNext]_poolVars
               PROVE  Inv'
    OBVIOUS
  <2> USE QueueAssumption
          DEF PoolTypeOK, TypeOK, UnwrittenIsAhead, NeverPopsUninit, Pushing, PushPcs, PopPcs,
              Return
  <2>1. ASSUME NEW t \in Threads, QueueStep(t)
        PROVE  Inv'
    <3>1. CASE PushLoadInput(t)   BY <3>1 DEF PushLoadInput
    <3>2. CASE PushFull(t)        BY <3>2 DEF PushFull
    <3>3. CASE PushHasRoom(t)     BY <3>3 DEF PushHasRoom
    <3>4. CASE PushWrite(t)       BY <3>4 DEF PushWrite
    <3>5. CASE PushStoreInput(t)  BY <3>5 DEF PushStoreInput
    <3>6. CASE PopLoadOutput(t)   BY <3>6 DEF PopLoadOutput
    <3>7. CASE PopEmpty(t)        BY <3>7 DEF PopEmpty
    <3>8. CASE PopHasItem(t)      BY <3>8 DEF PopHasItem
    <3>9. CASE PopRead(t)         BY <3>9 DEF PopRead
    <3>10. CASE PopStoreOutput(t) BY <3>10 DEF PopStoreOutput
    <3> QED
      BY <2>1, <3>1, <3>2, <3>3, <3>4, <3>5, <3>6, <3>7, <3>8, <3>9, <3>10 DEF QueueStep
  <2>2. ASSUME NEW t \in Threads, HandOver(t) \/ \E x \in Contexts : TakeOver(t, x)
        PROVE  Inv'
    BY <2>2, HandStep DEF Contexts
  <2>3. CASE UNCHANGED poolVars
    BY <2>3 DEF poolVars, queueVars
  <2> QED
    BY <2>1, <2>2, <2>3 DEF PoolNext
<1>3. Inv => NeverPopsUninit
  OBVIOUS
<1> QED
  BY <1>1, <1>2, <1>3, PoolTypeCorrect, PTL DEF PoolSpec
-----------------------------------------------------------------------------

(* The discipline of CircleQueue holds for the pool too, whose queue       *)
(* starts full.                                                            *)
THEOREM PoolSerialCorrect == PoolSpec => []SerialInv
<1>1. PoolInit => SerialInv
  <2> SUFFICES ASSUME PoolInit
               PROVE  SerialInv
    OBVIOUS
  <2>1. Pushing = {} /\ Popping = {}
    BY DEF PoolInit, Pushing, Popping, PushPcs, PopPcs
  <2>2. InUse = Slots \ {QueueMaxSize - 1}
    BY QueueAssumption DEF PoolInit, InUse, FromUpTo, Slots
  <2>3. \A k \in InUse : mBuffer[k] \in Values
    BY <2>2 DEF PoolInit, Contexts
  <2>4. ASSUME NEW t \in Threads
        PROVE  PushIsCurrent(t) /\ PopIsCurrent(t) /\ hand[t] # Uninit
    BY QueueAssumption DEF PoolInit, PushIsCurrent, PopIsCurrent, PushPcs, PopPcs
  <2> QED
    BY <2>1, <2>3, <2>4 DEF SerialInv, OneOfAKind
<1>2. PoolTypeOK /\ SerialInv /\ [PoolNext]_poolVars => SerialInv'
  <2> SUFFICES ASSUME PoolTypeOK, SerialInv, [PoolNext]_poolVars
               PROVE  SerialInv'
    OBVIOUS
  <2>1. ASSUME NEW t \in Threads, QueueStep(t)
        PROVE  SerialInv'
    BY <2>1, QueueStepSerial DEF PoolTypeOK
  <2>2. ASSUME NEW t \in Threads, HandOver(t) \/ \E x \in Contexts : TakeOver(t, x)
        PROVE  SerialInv'
    <3>1. PICK v \in Contexts \cup {Null} : hand' = [hand EXCEPT ![t] = v]
      BY <2>2, HandStep
    <3>2. Bring(t, v)
      BY <2>2, <3>1, HandStep DEF Bring
    <3> QED
      BY <3>1, <3>2, QueueAssumption
         DEF Bring, PoolTypeOK, TypeOK, SerialInv, OneOfAKind, PushIsCurrent, PopIsCurrent,
             Pushing, Popping, PushPcs, PopPcs, InUse, Contexts
  <2>3. CASE UNCHANGED poolVars
    BY <2>3 DEF poolVars, queueVars, SerialInv, OneOfAKind, PushIsCurrent, PopIsCurrent,
                Pushing, Popping, InUse
  <2> QED
    BY <2>1, <2>2, <2>3 DEF PoolNext
<1> QED
  BY <1>1, <1>2, PoolTypeCorrect, PTL DEF PoolSpec
-----------------------------------------------------------------------------

(* A full queue of the pool holds as many values as there are contexts.    *)
LEMMA FullPool ==
  ASSUME TypeOK, Following(mInputIndex) = mOutputIndex
  PROVE  IsFiniteSet(InUse) /\ Cardinality(InUse) = Cardinality(Contexts)
<1>1. IsFiniteSet(Slots) /\ Cardinality(Slots) = QueueMaxSize
  BY QueueAssumption, FS_Interval DEF Slots
<1>2. InUse = Slots \ {mInputIndex}
  BY QueueAssumption, FollowingInRing DEF TypeOK, Slots, InUse, FromUpTo
<1>3. Cardinality(Contexts) \in Nat
  BY PoolAssumption, FS_CardinalityType
<1>4. /\ IsFiniteSet(Slots \ {mInputIndex})
      /\ Cardinality(Slots \ {mInputIndex}) = QueueMaxSize - 1
  <2>1. mInputIndex \in Slots
    BY DEF TypeOK
  <2> QED
    BY <1>1, <2>1, FS_RemoveElement
<1> QED
  BY <1>2, <1>3, <1>4, PoolAssumption

(* A context in a thread's hand leaves room in the queue: the queue cannot *)
(* hold all the contexts, so it is not full.                               *)
LEMMA RoomForTheHeld ==
  ASSUME PoolTypeOK, SerialInv, OneOwner, ~raced, NEW t \in Threads, pc[t] \in PushPcs
  PROVE  Following(mInputIndex) # mOutputIndex
<1> SUFFICES ASSUME Following(mInputIndex) = mOutputIndex
             PROVE  FALSE
  OBVIOUS
<1>1. IsFiniteSet(InUse) /\ Cardinality(InUse) = Cardinality(Contexts)
  BY FullPool DEF PoolTypeOK
<1>2. hand[t] \in Contexts /\ hand[t] \notin Queued
  <2>1. hand[t] \in Contexts /\ HandOutside[t] = hand[t]
    BY DEF PoolTypeOK, TypeOK, PushPcs, HandOutside, Contexts
  <2> QED
    BY <2>1, QueueAssumption DEF OneOwner, Held, Contexts
<1> DEFINE Others == Contexts \ {hand[t]}
           slot   == [k \in InUse |-> mBuffer[k]]
<1>3. slot \in [InUse -> Others]
  BY <1>2 DEF SerialInv, Queued, Contexts
<1>4. IsFiniteSet(Others) /\ Cardinality(Others) < Cardinality(InUse)
  <2>1. IsFiniteSet(Contexts) /\ Cardinality(Contexts) \in Nat
    BY PoolAssumption, FS_CardinalityType
  <2>2. IsFiniteSet(Others) /\ Cardinality(Others) = Cardinality(Contexts) - 1
    BY <1>2, <2>1, FS_RemoveElement
  <2> QED
    BY <1>1, <2>1, <2>2
<1>5. PICK k, j \in InUse : k # j /\ slot[k] = slot[j]
  <2> HIDE DEF Others, slot
  <2> QED
    BY <1>1, <1>3, <1>4, FS_PigeonHole
<1> QED
  BY <1>5 DEF OneOwner

(* A push that ends hands its context to the queue.                        *)
LEMMA PushKeepsOneOwner ==
  ASSUME PoolTypeOK, SerialInv, OneOwner, ~raced,
         NEW t \in Threads, PushStoreInput(t), UNCHANGED away
  PROVE  OneOwner'
<1>1. /\ cur[t] = mInputIndex /\ Following(mInputIndex) # mOutputIndex
      /\ mBuffer[mInputIndex] = hand[t] /\ hand[t] \in Contexts
  BY DEF PushStoreInput, SerialInv, PushIsCurrent, PushPcs, PoolTypeOK, TypeOK, Contexts
<1>2. /\ HandOutside[t] = hand[t]
      /\ HandOutside' = [HandOutside EXCEPT ![t] = Null]
      /\ HandOutside \in [Threads -> Contexts \cup {Null, Uninit}]
  BY DEF PushStoreInput, Return, HandOutside, PoolTypeOK, TypeOK, Contexts
<1>3. InUse' = InUse \cup {mInputIndex} /\ mBuffer' = mBuffer
  BY <1>1, InUseAfterPush DEF PushStoreInput, PoolTypeOK
<1>4. Queued' = Queued \cup {hand[t]}
  BY <1>1, <1>3 DEF Queued
<1>5. Held' = Held \ {hand[t]} /\ hand[t] \in Held
  BY <1>1, <1>2, QueueAssumption DEF Held, OneOwner, Contexts
<1>6. ASSUME NEW k \in InUse', NEW j \in InUse', mBuffer'[k] = mBuffer'[j]
      PROVE  k = j
  BY <1>1, <1>3, <1>5, <1>6 DEF OneOwner, Queued
<1>7. ASSUME NEW u \in Threads, NEW v \in Threads, u # v, HandOutside'[u] = HandOutside'[v]
      PROVE  HandOutside'[u] = Null
  BY <1>2, <1>7 DEF OneOwner
<1>8. /\ (Queued \cap Held = {} /\ Queued \cap away = {} /\ Held \cap away = {})'
      /\ (Contexts = Queued \cup Held \cup away)'
  BY <1>4, <1>5 DEF OneOwner
<1> QED
  BY <1>6, <1>7, <1>8 DEF OneOwner

(* A pop that ends hands the context it read to its caller.                *)
LEMMA PopKeepsOneOwner ==
  ASSUME PoolTypeOK, SerialInv, OneOwner, ~raced,
         NEW t \in Threads, PopStoreOutput(t), UNCHANGED away
  PROVE  OneOwner'
<1>1. /\ cur[t] = mOutputIndex /\ mInputIndex # mOutputIndex
      /\ hand[t] = mBuffer[mOutputIndex]
  BY DEF PopStoreOutput, SerialInv, PopIsCurrent, PopPcs
<1>2. /\ HandOutside[t] = Null
      /\ HandOutside' = [HandOutside EXCEPT ![t] = hand[t]]
      /\ HandOutside \in [Threads -> Contexts \cup {Null, Uninit}]
  BY DEF PopStoreOutput, Return, HandOutside, PoolTypeOK, TypeOK, Contexts
<1>3. InUse' = InUse \ {mOutputIndex} /\ mBuffer' = mBuffer /\ mOutputIndex \in InUse
  BY <1>1, InUseAfterPop, InUseFacts DEF PopStoreOutput, PoolTypeOK
<1>4. hand[t] \in Contexts /\ hand[t] \in Queued
  BY <1>1, <1>3 DEF SerialInv, Queued, Contexts
<1>5. Queued' = Queued \ {hand[t]}
  BY <1>1, <1>3 DEF Queued, OneOwner
<1>6. Held' = Held \cup {hand[t]}
  BY <1>2, <1>4, QueueAssumption DEF Held, Contexts
<1>7. ASSUME NEW k \in InUse', NEW j \in InUse', mBuffer'[k] = mBuffer'[j]
      PROVE  k = j
  BY <1>3, <1>7 DEF OneOwner
<1>8. ASSUME NEW u \in Threads, NEW v \in Threads, u # v, HandOutside'[u] = HandOutside'[v]
      PROVE  HandOutside'[u] = Null
  <2>1. \A w \in Threads : HandOutside[w] # hand[t]
    BY <1>4, QueueAssumption DEF OneOwner, Held, Contexts
  <2> QED
    BY <1>2, <1>8, <2>1 DEF OneOwner
<1>9. /\ (Queued \cap Held = {} /\ Queued \cap away = {} /\ Held \cap away = {})'
      /\ (Contexts = Queued \cup Held \cup away)'
  BY <1>4, <1>5, <1>6 DEF OneOwner
<1> QED
  BY <1>7, <1>8, <1>9 DEF OneOwner

(* The other accesses move no context.                                     *)
LEMMA OtherStepsKeepOneOwner ==
  ASSUME PoolTypeOK, SerialInv, OneOwner, ~raced,
         NEW t \in Threads, QueueStep(t), UNCHANGED away,
         ~PushStoreInput(t), ~PopStoreOutput(t)
  PROVE  OneOwner'
<1>1. InUse' = InUse
  BY DEF QueueStep, PushLoadInput, PushFull, PushHasRoom, PushWrite,
         PopLoadOutput, PopEmpty, PopHasItem, PopRead, InUse
<1>2. ASSUME NEW k \in InUse
      PROVE  mBuffer'[k] = mBuffer[k]
  <2>1. CASE PushWrite(t)
    BY <2>1, InUseFacts DEF PushWrite, SerialInv, PushIsCurrent, PushPcs, PoolTypeOK, TypeOK
  <2>2. CASE ~PushWrite(t)
    BY <2>2 DEF QueueStep, PushLoadInput, PushFull, PushHasRoom,
                PopLoadOutput, PopEmpty, PopHasItem, PopRead
  <2> QED
    BY <2>1, <2>2
<1>3. HandOutside' = HandOutside
  BY DEF PoolTypeOK, TypeOK, QueueStep, HandOutside, Return, PushLoadInput, PushFull,
         PushHasRoom, PushWrite, PopLoadOutput, PopEmpty, PopHasItem, PopRead
<1>4. Queued' = Queued /\ Held' = Held
  BY <1>1, <1>2, <1>3 DEF Queued, Held
<1> QED
  BY <1>1, <1>2, <1>3, <1>4 DEF OneOwner

(* A thread that hands its context over, or is given one that was away,    *)
(* moves that context alone.                                               *)
LEMMA HandOverKeepsOneOwner ==
  ASSUME PoolTypeOK, OneOwner, ~raced, NEW t \in Threads,
         HandOver(t) \/ \E x \in Contexts : TakeOver(t, x)
  PROVE  OneOwner'
<1>1. InUse' = InUse /\ mBuffer' = mBuffer /\ Queued' = Queued
  BY HandStep DEF InUse, Queued
<1>2. HandOutside \in [Threads -> Contexts \cup {Null, Uninit}]
  BY DEF HandOutside, PoolTypeOK, TypeOK, Contexts
<1>3. CASE HandOver(t)
  <2>1. /\ HandOutside[t] = hand[t] /\ hand[t] \in Contexts
        /\ HandOutside' = [HandOutside EXCEPT ![t] = Null]
        /\ away' = away \cup {hand[t]}
    BY <1>3 DEF HandOver, HandOutside, PoolTypeOK, TypeOK
  <2>2. Held' = Held \ {hand[t]} /\ hand[t] \in Held
    BY <1>2, <2>1, QueueAssumption DEF Held, OneOwner, Contexts
  <2>3. ASSUME NEW u \in Threads, NEW v \in Threads, u # v, HandOutside'[u] = HandOutside'[v]
        PROVE  HandOutside'[u] = Null
    BY <1>2, <2>1, <2>3 DEF OneOwner
  <2> QED
    BY <1>1, <2>1, <2>2, <2>3 DEF OneOwner
<1>4. ASSUME NEW x \in Contexts, TakeOver(t, x)
      PROVE  OneOwner'
  <2>1. /\ HandOutside[t] = Null /\ x \in away /\ away' = away \ {x}
        /\ HandOutside' = [HandOutside EXCEPT ![t] = x]
    BY <1>4 DEF TakeOver, HandOutside, PoolTypeOK, TypeOK
  <2>2. Held' = Held \cup {x}
    BY <1>2, <2>1, QueueAssumption DEF Held, Contexts
  <2>3. ASSUME NEW u \in Threads, NEW v \in Threads, u # v, HandOutside'[u] = HandOutside'[v]
        PROVE  HandOutside'[u] = Null
    <3>1. \A w \in Threads : HandOutside[w] # x
      BY <2>1, QueueAssumption DEF OneOwner, Held, Contexts
    <3> QED
      BY <1>2, <2>1, <2>3, <3>1 DEF OneOwner
  <2> QED
    BY <1>1, <2>1, <2>2, <2>3 DEF OneOwner
<1> QED
  BY <1>3, <1>4

(* Every context has exactly one owner, and a context that is given back   *)
(* finds room, as long as no two pushes and no two pops have overlapped.   *)
THEOREM OneOwnerCorrect == PoolSpec => []OneOwner
<1>1. PoolInit => OneOwner
  <2> SUFFICES ASSUME PoolInit
               PROVE  OneOwner
    OBVIOUS
  <2>1. InUse = Slots \ {QueueMaxSize - 1}
    BY QueueAssumption DEF PoolInit, InUse, FromUpTo, Slots
  <2>2. Queued = Contexts
    BY <2>1, QueueAssumption DEF PoolInit, Queued, Contexts
  <2>3. HandOutside = [t \in Threads |-> Null] /\ Held = {} /\ away = {}
    BY DEF PoolInit, HandOutside, Held
  <2> QED
    BY <2>1, <2>2, <2>3 DEF PoolInit, OneOwner
<1>2. PoolTypeOK /\ SerialInv /\ OneOwner /\ [PoolNext]_poolVars => OneOwner'
  <2> SUFFICES ASSUME PoolTypeOK, SerialInv, OneOwner, [PoolNext]_poolVars, ~raced'
               PROVE  OneOwner'
    BY DEF OneOwner
  <2>1. ASSUME NEW t \in Threads, QueueStep(t), UNCHANGED away
        PROVE  OneOwner'
    <3>1. ~raced
      BY <2>1 DEF QueueStep, PushLoadInput, PushFull, PushHasRoom, PushWrite, PushStoreInput,
                  PopLoadOutput, PopEmpty, PopHasItem, PopRead, PopStoreOutput
    <3> QED
      BY <2>1, <3>1, PushKeepsOneOwner, PopKeepsOneOwner, OtherStepsKeepOneOwner
  <2>2. ASSUME NEW t \in Threads, HandOver(t) \/ \E x \in Contexts : TakeOver(t, x)
        PROVE  OneOwner'
    BY <2>2, HandStep, HandOverKeepsOneOwner
  <2>3. CASE UNCHANGED poolVars
    <3>1. InUse' = InUse /\ Queued' = Queued /\ HandOutside' = HandOutside /\ Held' = Held
      BY <2>3 DEF poolVars, queueVars, InUse, Queued, HandOutside, Held
    <3> QED
      BY <2>3, <3>1 DEF poolVars, queueVars, OneOwner
  <2> QED
    BY <2>1, <2>2, <2>3 DEF PoolNext
<1> QED
  BY <1>1, <1>2, PoolTypeCorrect, PoolSerialCorrect, PTL DEF PoolSpec

(* A push of the pool never finds the queue full (no caller looks at its   *)
(* result), as long as no two pushes and no two pops have overlapped.      *)
THEOREM GivingBackCorrect == PoolSpec => []GivingBackNeverFails
<1>1. PoolTypeOK /\ SerialInv /\ OneOwner => GivingBackNeverFails
  BY RoomForTheHeld DEF GivingBackNeverFails, SerialInv, PushIsCurrent, PushPcs
<1> QED
  BY <1>1, PoolTypeCorrect, PoolSerialCorrect, OneOwnerCorrect, PTL

-----------------------------------------------------------------------------
(***************************************************************************)
(* The network                                                             *)
(***************************************************************************)

(* Every step of the program is a step of the pool, or leaves it alone.    *)
LEMMA NetworkPoolStep ==
  ASSUME PoolTypeOK, [NetworkNext]_networkVars
  PROVE  [PoolNext]_poolVars
<1> USE NetworkAssumption DEF PoolNext
<1>1. ASSUME NEW t \in Threads, CallQueue(t)
      PROVE  PoolNext
  BY <1>1 DEF CallQueue
<1>2. ASSUME NEW t \in Threads, UseNull(t)
      PROVE  UNCHANGED poolVars
  BY <1>2 DEF UseNull, Crash
<1>3. CASE MainStep
  BY <1>3 DEF MainStep, StartFails, CreateSocket, SkipSocket, NextSocket, StartConnects,
              ConnectEx, Associate, ProcessArms, ReceiveReady, SendRequest, Send
<1>4. ASSUME NEW t \in Workers, WorkerStep(t)
      PROVE  [PoolNext]_poolVars
  <2>1. ASSUME NEW r \in port, IgnoreCompletion(t, r)
        PROVE  UNCHANGED poolVars
    BY <2>1 DEF IgnoreCompletion
  <2>2. ASSUME NEW r \in port, HandleCompletion(t, r)
        PROVE  PoolNext
    <3>1. TakeOver(t, r.ctx) /\ t \in Threads
      BY <2>2 DEF HandleCompletion
    <3>2. r.ctx \in Contexts
      BY <3>1 DEF TakeOver, PoolTypeOK
    <3> QED
      BY <3>1, <3>2
  <2>3. CASE Rearm(t) \/ ForgetRefused(t)
    BY <2>3 DEF Rearm, ReceiveReady, ForgetRefused
  <2> QED
    BY <1>4, <2>1, <2>2, <2>3 DEF WorkerStep
<1>5. CASE SystemStep
  BY <1>5 DEF SystemStep, ConnectDone, SendDone, ReceiveDone, DoneByClose, PeerCloses, Complete
<1>6. CASE UNCHANGED networkVars
  BY <1>6 DEF networkVars
<1> QED
  BY <1>1, <1>2, <1>3, <1>4, <1>5, <1>6 DEF NetworkNext

(* The program uses its queue as ContextPool says.                         *)
LEMMA NetworkUsesPool == NetworkSpec => PoolSpec
<1>1. NetworkInit => PoolInit
  BY DEF NetworkInit
<1> QED
  BY <1>1, NetworkPoolStep, PoolTypeInit, PoolTypeStep, PTL DEF NetworkSpec, PoolSpec

(* So what is proved of the pool is true of the program: it never uses the *)
(* unwritten slot, and, as long as its pushes and its pops do not overlap, *)
(* each context has one owner and one that is given back finds room.       *)
COROLLARY NetworkPoolFacts ==
  NetworkSpec => [](NeverPopsUninit /\ OneOwner /\ GivingBackNeverFails)
  BY NetworkUsesPool, NeverPopsUninitCorrect, OneOwnerCorrect, GivingBackCorrect, PTL
-----------------------------------------------------------------------------

(* insert() keeps clients of the vector, and at least the first of them.   *)
LEMMA MapOfClients ==
  ASSUME NEW v \in Seq(Clients)
  PROVE  MapOf(v) \subseteq Clients /\ (Len(v) # 0 => MapOf(v) # {})
<1>1. DOMAIN v = 1 .. Len(v) /\ Len(v) \in Nat /\ \A n \in 1 .. Len(v) : v[n] \in Clients
  OBVIOUS
<1>2. MapOf(v) \subseteq Clients
  BY <1>1 DEF MapOf
<1>3. ASSUME Len(v) # 0 PROVE v[1] \in MapOf(v)
  BY <1>1, <1>3 DEF MapOf
<1> QED
  BY <1>2, <1>3

(* Where the threads are, and the ranges of the loop index and of the      *)
(* workers' client.                                                        *)
LEMMA ControlStep ==
  ASSUME NetworkTypeOK, IndicesInRange, NetworkNext
  PROVE  ControlTypeOK' /\ IndicesInRange'
<1> USE NetworkAssumption DEF ControlTypeOK, IndicesInRange, Goto, Clients
<1>0. /\ ControlTypeOK /\ Main \in Threads /\ Workers \subseteq Threads
      /\ Len(mClientVector) \in Nat /\ key' = key
  BY DEF NetworkTypeOK, NetworkNext
<1>1. ASSUME NEW t \in Threads, CallQueue(t)
      PROVE  ControlTypeOK' /\ IndicesInRange'
  <2>1. UNCHANGED << i, mClientVector, toArm, wsa, client, crashed >>
    BY <1>1 DEF CallQueue, mainVars
  <2>2. UNCHANGED at \/ at' = [at EXCEPT ![t] = AfterCall[at[t]]]
    BY <1>1 DEF CallQueue
  <2>3. at[t] \in {"startPop", "processPop", "sendPop", "rearmPop", "giveBack", "giveBackRearm"}
    BY <1>1 DEF CallQueue, PopLabels, PushLabels
  <2>4. CASE t = Main
    <3>1. UNCHANGED at \/ \E l \in {"connect", "arm", "send"} :
                           /\ at' = [at EXCEPT ![Main] = l]
                           /\ at[Main] = CASE l = "connect" -> "startPop"
                                            [] l = "arm"     -> "processPop"
                                            [] l = "send"    -> "sendPop"
      BY <1>0, <2>2, <2>3, <2>4 DEF AfterCall, MainLabels
    <3>2. /\ at' \in [Threads -> MainLabels \cup WorkerLabels]
          /\ at'[Main] \in MainLabels /\ \A u \in Workers : at'[u] = at[u]
      BY <1>0, <3>1 DEF MainLabels, WorkerLabels
    <3>3. ControlTypeOK'
      BY <1>0, <2>1, <3>2
    <3>4. IndicesInRange'
      BY <1>0, <2>1, <3>1, <3>2
    <3> QED
      BY <3>3, <3>4
  <2>5. CASE t \in Workers
    <3>1. at[t] \in {"giveBack", "giveBackRearm", "rearmPop"}
      BY <1>0, <2>3, <2>5 DEF WorkerLabels
    <3>2. UNCHANGED at \/ \E l \in {"wait", "rearmPop", "rearm"} :
                           /\ at' = [at EXCEPT ![t] = l]
                           /\ l # "wait" => at[t] \in {"giveBackRearm", "rearmPop"}
      BY <2>2, <3>1 DEF AfterCall
    <3>3. /\ at' \in [Threads -> MainLabels \cup WorkerLabels]
          /\ at'[Main] = at[Main]
          /\ \A u \in Workers : at'[u] \in WorkerLabels
      <4>1. at \in [Threads -> MainLabels \cup WorkerLabels] /\ t \in Threads /\ t # Main
            /\ \A u \in Workers : u \in Threads /\ at[u] \in WorkerLabels
        BY <1>0, <2>5
      <4>2. UNCHANGED at \/ \E l \in WorkerLabels : at' = [at EXCEPT ![t] = l]
        BY <3>2 DEF WorkerLabels
      <4> QED
        BY <4>1, <4>2
    <3>4. \A u \in Workers : at'[u] \in {"giveBackRearm", "rearmPop", "rearm"} =>
                              client[u] # 0
      BY <1>0, <2>5, <3>1, <3>2
    <3>5. ControlTypeOK'
      BY <1>0, <2>1, <3>3
    <3>6. IndicesInRange'
      BY <1>0, <2>1, <3>3, <3>4
    <3> QED
      BY <3>5, <3>6
  <2> QED
    BY <2>4, <2>5
<1>2. ASSUME NEW t \in Threads, UseNull(t)
      PROVE  ControlTypeOK' /\ IndicesInRange'
  <2>1. UNCHANGED << at, i, mClientVector, toArm, wsa, client >> /\ crashed' = TRUE
    BY <1>2 DEF UseNull, Crash, mainVars
  <2> QED
    BY <1>0, <2>1
<1>3. CASE StartFails \/ CreateSocket \/ StartConnects
  <2>1. UNCHANGED << i, mClientVector, toArm, client, crashed >> /\ wsa' \in BOOLEAN
    BY <1>0, <1>3 DEF StartFails, CreateSocket, StartConnects, ConnectEx, mainVars
  <2>2. \E l \in {"ended", "startPop", "associate"} : at' = [at EXCEPT ![Main] = l]
    BY <1>3 DEF StartFails, CreateSocket, StartConnects
  <2>3. Len(mClientVector) < i
    BY <1>3 DEF StartFails, CreateSocket, StartConnects
  <2>4. /\ at' \in [Threads -> MainLabels \cup WorkerLabels]
        /\ at'[Main] \in MainLabels \ {"processPop", "arm", "sendPop", "send"}
        /\ \A t \in Workers : at'[t] = at[t]
    BY <1>0, <2>2 DEF MainLabels, WorkerLabels
  <2>5. ControlTypeOK'
    BY <1>0, <2>1, <2>4
  <2>6. IndicesInRange'
    BY <1>0, <2>1, <2>3, <2>4
  <2> QED
    BY <2>5, <2>6
<1>4. CASE SkipSocket \/ Associate
  <2>1. PICK v \in {mClientVector, Append(mClientVector, i)} : NextSocket(v)
    BY <1>4 DEF SkipSocket, Associate
  <2>2. /\ v \in Seq(Clients) /\ Len(v) \in Nat /\ Len(v) <= i
        /\ v = << >> <=> Len(v) = 0
    <3>1. /\ Len(mClientVector) < i /\ i \in Clients /\ i \in Nat
          /\ mClientVector \in Seq(Clients)
      BY <1>0, <1>4 DEF SkipSocket, Associate
    <3>2. Append(mClientVector, i) \in Seq(Clients)
          /\ Len(Append(mClientVector, i)) = Len(mClientVector) + 1
      BY <3>1
    <3>3. v \in Seq(Clients) /\ Len(v) \in Nat /\ Len(v) <= i
      <4>1. CASE v = mClientVector
        BY <3>1, <4>1
      <4>2. CASE v = Append(mClientVector, i)
        BY <3>1, <3>2, <4>2
      <4> QED
        BY <4>1, <4>2
    <3>4. v # << >> => Len(v) \in Nat \ {0}
      BY <3>3, EmptySeq, Zenon
    <3>5. v = << >> => Len(v) = 0
      BY EmptySeq, Zenon
    <3>6. Len(v) \in Nat \ {0} => Len(v) # 0
      OBVIOUS
    <3> QED
      BY <3>3, <3>4, <3>5, <3>6, Zenon
  <2>3. mClientVector' = v /\ UNCHANGED << wsa, client >>
    BY <2>1 DEF NextSocket
  <2>4. Len(v) <= ClientCount
    BY <1>0, <2>2
  <2>5. CASE i < ClientCount
    <3>1. /\ i' = i + 1 /\ at' = [at EXCEPT ![Main] = "create"]
          /\ UNCHANGED << toArm, crashed >>
      BY <2>1, <2>5 DEF NextSocket
    <3>2. /\ at' \in [Threads -> MainLabels \cup WorkerLabels] /\ at'[Main] = "create"
          /\ \A t \in Workers : at'[t] = at[t]
      BY <1>0, <3>1 DEF MainLabels, WorkerLabels
    <3>3. i' \in Clients /\ Len(v) < i'
      BY <1>0, <2>2, <2>5, <3>1
    <3>4. ControlTypeOK'
      BY <1>0, <2>2, <2>3, <2>4, <3>1, <3>2, <3>3 DEF MainLabels, WorkerLabels
    <3>5. IndicesInRange'
      BY <1>0, <2>3, <3>2, <3>3
    <3> QED
      BY <3>4, <3>5
  <2>6. CASE ~(i < ClientCount)
    <3>1. /\ i' = 1 /\ crashed' = (v = << >>)
          /\ toArm' = MapOf(v)
          /\ at' = [t \in Threads |-> IF t # Main THEN "wait" ELSE
                                      IF v = << >> THEN "sendPop" ELSE "processPop"]
      BY <2>1, <2>6 DEF NextSocket
    <3>2. /\ at' \in [Threads -> MainLabels \cup WorkerLabels]
          /\ at'[Main] = IF v = << >> THEN "sendPop" ELSE "processPop"
          /\ \A t \in Workers : at'[t] = "wait"
      BY <1>0, <3>1 DEF MainLabels, WorkerLabels
    <3>3. at'[Main] \in MainLabels /\ \A t \in Workers : at'[t] \in WorkerLabels
      BY <3>2 DEF MainLabels, WorkerLabels
    <3>4. crashed' \in BOOLEAN /\ (crashed' <=> v = << >>)
      BY <3>1, Zenon
    <3>5. i' \in Clients /\ (~crashed' => i' <= Len(mClientVector'))
      BY <2>2, <2>3, <3>1, <3>4
    <3>6. toArm' \subseteq Clients /\ (v # << >> => toArm' # {})
      <4>1. MapOf(v) \subseteq Clients /\ (Len(v) # 0 => MapOf(v) # {})
        BY <2>2, MapOfClients
      <4>2. v # << >> => Len(v) # 0
        BY <2>2, Zenon
      <4> QED
        BY <3>1, <4>1, <4>2, Zenon
    <3>7. ControlTypeOK'
      BY <1>0, <2>2, <2>3, <2>4, <3>2, <3>3, <3>4, <3>5, <3>6
    <3>8. IndicesInRange'
      BY <3>2, <3>5, <3>6
    <3> QED
      BY <3>7, <3>8
  <2> QED
    BY <2>5, <2>6
<1>5. CASE ProcessArms
  <2>1. UNCHANGED << i, mClientVector, client, wsa, crashed >> /\ at[Main] = "arm"
    BY <1>5 DEF ProcessArms
  <2>2. PICK d \in toArm :
          /\ toArm' = toArm \ {d}
          /\ at' = [at EXCEPT ![Main] = IF toArm = {d} THEN "sendPop" ELSE "processPop"]
    BY <1>5 DEF ProcessArms
  <2>3. /\ at' \in [Threads -> MainLabels \cup WorkerLabels]
        /\ at'[Main] \in {"processPop", "sendPop"}
        /\ \A t \in Workers : at'[t] = at[t]
    BY <1>0, <2>2 DEF MainLabels, WorkerLabels
  <2>4. toArm' \subseteq Clients /\ (at'[Main] = "processPop" => toArm' # {})
    BY <1>0, <2>2
  <2>5. ControlTypeOK'
    BY <1>0, <2>1, <2>3, <2>4 DEF MainLabels, WorkerLabels
  <2>6. IndicesInRange'
    BY <1>0, <2>1, <2>3, <2>4
  <2> QED
    BY <2>5, <2>6
<1>6. CASE SendRequest
  <2>1. UNCHANGED << mClientVector, toArm, client, wsa >>
    BY <1>6 DEF SendRequest
  <2>2. /\ i' = (i % ClientCount) + 1 /\ at' = [at EXCEPT ![Main] = "sendPop"]
        /\ crashed' = (i' \notin DOMAIN mClientVector)
    BY <1>6 DEF SendRequest, NextRequest
  <2>3. i' \in Clients
    BY <1>0, <2>2
  <2>4. ~crashed' => i' <= Len(mClientVector)
    <3>1. DOMAIN mClientVector = 1 .. Len(mClientVector)
      BY <1>0
    <3>2. crashed' <=> i' \notin DOMAIN mClientVector
      BY <2>2, Zenon
    <3> QED
      BY <3>1, <3>2, <2>3
  <2>5. crashed' \in BOOLEAN
    BY <2>2
  <2>6. /\ at' \in [Threads -> MainLabels \cup WorkerLabels]
        /\ at'[Main] = "sendPop" /\ \A t \in Workers : at'[t] = at[t]
    BY <1>0, <2>2 DEF MainLabels, WorkerLabels
  <2>7. ControlTypeOK'
    BY <1>0, <2>1, <2>3, <2>5, <2>6 DEF MainLabels
  <2>8. IndicesInRange'
    BY <1>0, <2>1, <2>4, <2>6
  <2> QED
    BY <2>7, <2>8
<1>7. ASSUME NEW t \in Workers, WorkerStep(t)
      PROVE  ControlTypeOK' /\ IndicesInRange'
  <2>1. UNCHANGED << i, mClientVector, toArm, wsa, crashed >>
    BY <1>7 DEF WorkerStep, IgnoreCompletion, HandleCompletion, Rearm, ForgetRefused, mainVars
  <2>2. ASSUME NEW r \in port, HandleCompletion(t, r)
        PROVE  ControlTypeOK' /\ IndicesInRange'
    <3>1. Finds(r.client) \subseteq Clients
      BY <1>0, MapOfClients DEF Finds, mClientMap
    <3>2. \/ at' = [at EXCEPT ![t] = "giveBack"] /\ UNCHANGED client
          \/ \E c \in Clients : /\ at' = [at EXCEPT ![t] = "giveBackRearm"]
                               /\ client' = [client EXCEPT ![t] = c]
      BY <2>2, <3>1 DEF HandleCompletion
    <3>3. /\ at' \in [Threads -> MainLabels \cup WorkerLabels] /\ at'[Main] = at[Main]
          /\ \A u \in Workers : at'[u] \in WorkerLabels
          /\ client' \in [Workers -> Clients \cup {0}]
      <4>1. PICK l \in {"giveBack", "giveBackRearm"} : at' = [at EXCEPT ![t] = l]
        BY <3>2
      <4>2. at' \in [Threads -> MainLabels \cup WorkerLabels] /\ at'[Main] = at[Main]
        BY <1>0, <4>1 DEF WorkerLabels
      <4>3. \A u \in Workers : at'[u] \in WorkerLabels
        BY <1>0, <4>1 DEF WorkerLabels
      <4>4. client' \in [Workers -> Clients \cup {0}]
        BY <1>0, <3>1, <3>2
      <4> QED
        BY <4>2, <4>3, <4>4
    <3>4. \A u \in Workers : at'[u] \in {"giveBackRearm", "rearmPop", "rearm"} =>
                              client'[u] # 0
      BY <1>0, <1>7, <3>1, <3>2
    <3>5. ControlTypeOK'
      BY <1>0, <2>1, <3>3
    <3>6. IndicesInRange'
      BY <1>0, <2>1, <3>3, <3>4
    <3> QED
      BY <3>5, <3>6
  <2>3. CASE Rearm(t)
    <3>1. at' = [at EXCEPT ![t] = "wait"] /\ client' = [client EXCEPT ![t] = 0]
      BY <2>3 DEF Rearm
    <3>2. /\ at' \in [Threads -> MainLabels \cup WorkerLabels] /\ at'[Main] = at[Main]
          /\ \A u \in Workers : at'[u] \in WorkerLabels
      BY <1>0, <1>7, <3>1 DEF WorkerLabels
    <3>3. client' \in [Workers -> Clients \cup {0}]
      BY <1>0, <3>1
    <3>4. \A u \in Workers : at'[u] \in {"giveBackRearm", "rearmPop", "rearm"} =>
                              client'[u] # 0
      BY <1>0, <1>7, <3>1
    <3>5. ControlTypeOK'
      BY <1>0, <2>1, <3>2, <3>3
    <3>6. IndicesInRange'
      BY <1>0, <2>1, <3>2, <3>4
    <3> QED
      BY <3>5, <3>6
  <2>4. CASE ForgetRefused(t) \/ \E r \in port : IgnoreCompletion(t, r)
    BY <1>0, <2>1, <2>4 DEF ForgetRefused, IgnoreCompletion
  <2> QED
    BY <1>7, <2>2, <2>3, <2>4 DEF WorkerStep
<1>8. CASE SystemStep
  <2>1. UNCHANGED << at, mainVars, client, crashed >>
    BY <1>8 DEF SystemStep, ConnectDone, SendDone, ReceiveDone, DoneByClose, PeerCloses, Complete
  <2> QED
    BY <1>0, <2>1 DEF mainVars
<1> QED
  BY <1>1, <1>2, <1>3, <1>4, <1>5, <1>6, <1>7, <1>8 DEF NetworkNext, MainStep
-----------------------------------------------------------------------------

(* A call of ReceiveReady records an operation of a real client and context.*)
LEMMA ReceiveReadyType ==
  ASSUME SystemTypeOK, NEW t \in Threads, NEW c \in Clients, ReceiveReady(t, c)
  PROVE  /\ opType' \in [Contexts -> OpTypes]
         /\ ops' \subseteq Operations
         /\ armed' \subseteq Clients /\ troubled' \subseteq Clients
<1>1. CASE UNCHANGED << opType, ops, armed >> /\ troubled' = troubled \cup {c}
  BY <1>1 DEF SystemTypeOK
<1>2. CASE /\ HandOver(t) /\ opType' = [opType EXCEPT ![hand[t]] = "OP_RECV"]
           /\ \/ /\ ops' = ops \cup {[ctx |-> hand[t], client |-> c, op |-> "recv"]}
                 /\ armed' = armed \cup {c} /\ UNCHANGED troubled
              \/ UNCHANGED << ops, armed >> /\ troubled' = troubled \cup {c}
  <2>1. hand[t] \in Contexts
    BY <1>2 DEF HandOver
  <2>2. [ctx |-> hand[t], client |-> c, op |-> "recv"] \in Operations
    BY <2>1 DEF Operations
  <2>3. opType' \in [Contexts -> OpTypes]
    BY <1>2 DEF SystemTypeOK, OpTypes
  <2> QED
    BY <1>2, <2>2, <2>3 DEF SystemTypeOK
<1> QED
  BY <1>1, <1>2 DEF ReceiveReady

(* So does a call of Send.                                                 *)
LEMMA SendType ==
  ASSUME SystemTypeOK, NEW c \in Clients, Send(c)
  PROVE  /\ opType' \in [Contexts -> OpTypes]
         /\ ops' \subseteq Operations /\ troubled' \subseteq Clients
<1>1. hand[Main] \in Contexts
  BY DEF Send, HandOver
<1>2. [ctx |-> hand[Main], client |-> c, op |-> "send"] \in Operations
  BY <1>1 DEF Operations
<1>3. opType' \in [Contexts -> OpTypes]
  BY DEF Send, SystemTypeOK, OpTypes
<1> QED
  BY <1>2, <1>3 DEF Send, SystemTypeOK

(* And a call of ConnectEx.                                                *)
LEMMA ConnectExType ==
  ASSUME SystemTypeOK, NEW c \in Clients, ConnectEx(c)
  PROVE  /\ opType' \in [Contexts -> OpTypes] /\ conn' \in [Clients -> SocketStates]
         /\ ops' \subseteq Operations /\ troubled' \subseteq Clients
<1>1. hand[Main] \in Contexts
  BY DEF ConnectEx, HandOver
<1>2. [ctx |-> hand[Main], client |-> c, op |-> "connect"] \in Operations
  BY <1>1 DEF Operations
<1>3. opType' \in [Contexts -> OpTypes]
  BY DEF ConnectEx, SystemTypeOK, OpTypes
<1>4. conn' \in [Clients -> SocketStates]
  BY DEF ConnectEx, SystemTypeOK, SocketStates
<1> QED
  BY <1>2, <1>3, <1>4 DEF ConnectEx, SystemTypeOK

(* A completed operation leaves ops, and at most one completion comes.     *)
LEMMA CompleteType ==
  ASSUME SystemTypeOK, NEW o \in ops, NEW ok \in BOOLEAN,
         NEW msg \in {"none", "response", "part", "unknown"}, Complete(o, ok, msg)
  PROVE  /\ opType' \in [Contexts -> OpTypes] /\ armed' \subseteq Clients
         /\ ops' \subseteq Operations /\ port' \subseteq Completions
<1>1. o.ctx \in Contexts /\ o.client \in Clients
  BY DEF SystemTypeOK, Operations
<1>2. [ctx |-> o.ctx, client |-> o.client, ok |-> ok, msg |-> msg] \in Completions
  BY <1>1 DEF Completions
<1> QED
  BY <1>2 DEF Complete, SystemTypeOK

(* What the system keeps of the program's operations stays in its type.    *)
LEMMA SystemTypeStep ==
  ASSUME NetworkTypeOK, IndicesInRange, NetworkNext
  PROVE  SystemTypeOK'
<1> USE NetworkAssumption DEF mainVars, systemVars
<1>0. SystemTypeOK /\ ControlTypeOK /\ Main \in Threads /\ Workers \subseteq Threads
  BY DEF NetworkTypeOK
<1>1. CASE UNCHANGED << opType, systemVars, armed, troubled >>
  BY <1>0, <1>1 DEF SystemTypeOK
<1>2. ASSUME at[Main] = "send"
      PROVE  mClientVector[i] \in Clients
  <2>1. i \in 1 .. Len(mClientVector)
    BY <1>0, <1>2 DEF NetworkNext, IndicesInRange, ControlTypeOK, Clients
  <2> QED
    BY <1>0, <2>1 DEF ControlTypeOK
<1>3. CASE CreateSocket \/ SkipSocket \/ Associate
  <2>1. UNCHANGED << opType, owed, ops, port, armed >> /\ i \in Clients
    BY <1>0, <1>3 DEF CreateSocket, SkipSocket, Associate, NextSocket, ControlTypeOK
  <2>2. conn' = conn \/ conn' = [conn EXCEPT ![i] = "open"]
    BY <1>3 DEF CreateSocket, SkipSocket, Associate, NextSocket
  <2>3. troubled' \subseteq troubled \cup {i}
    BY <1>3 DEF CreateSocket, SkipSocket, Associate, NextSocket
  <2> QED
    BY <1>0, <2>1, <2>2, <2>3 DEF SystemTypeOK, SocketStates
<1>4. CASE StartConnects
  <2>1. ConnectEx(i) /\ i \in Clients /\ UNCHANGED << owed, port, armed >>
    BY <1>0, <1>4 DEF StartConnects, ControlTypeOK
  <2> QED
    BY <1>0, <2>1, ConnectExType DEF SystemTypeOK
<1>5. CASE ProcessArms
  <2>1. PICK c \in toArm : ReceiveReady(Main, c)
    BY <1>5 DEF ProcessArms
  <2>2. c \in Clients
    BY <1>0 DEF ControlTypeOK
  <2>3. UNCHANGED << conn, owed, port >>
    BY <1>5 DEF ProcessArms
  <2> QED
    BY <1>0, <2>1, <2>2, <2>3, ReceiveReadyType DEF SystemTypeOK
<1>6. CASE SendRequest
  <2>1. /\ Send(mClientVector[i]) \/ UNCHANGED << opType, ops, troubled >>
        /\ UNCHANGED << conn, owed, port, armed >>
    BY <1>6 DEF SendRequest
  <2>2. mClientVector[i] \in Clients
    BY <1>2, <1>6 DEF SendRequest
  <2>3. CASE Send(mClientVector[i])
    BY <1>0, <2>1, <2>2, <2>3, SendType DEF SystemTypeOK
  <2>4. CASE UNCHANGED << opType, ops, troubled >>
    BY <1>0, <2>1, <2>4 DEF SystemTypeOK
  <2> QED
    BY <2>1, <2>3, <2>4
<1>7. ASSUME NEW t \in Workers, WorkerStep(t)
      PROVE  SystemTypeOK'
  <2>1. ASSUME NEW r \in port, IgnoreCompletion(t, r) \/ HandleCompletion(t, r)
        PROVE  SystemTypeOK'
    <3>1. /\ port' = port \ {r} /\ UNCHANGED << conn, owed, ops, armed, troubled >>
          /\ opType' = opType \/ opType' = [opType EXCEPT ![r.ctx] = "OP_DEFAULT"]
      BY <2>1 DEF IgnoreCompletion, HandleCompletion
    <3> QED
      BY <1>0, <3>1 DEF SystemTypeOK, OpTypes
  <2>2. CASE Rearm(t)
    <3>1. client[t] \in Clients
      BY <1>0, <2>2 DEF Rearm, IndicesInRange, ControlTypeOK
    <3>2. ReceiveReady(t, client[t]) /\ UNCHANGED << conn, owed, port >>
      BY <2>2 DEF Rearm
    <3> QED
      BY <1>0, <3>1, <3>2, ReceiveReadyType DEF SystemTypeOK
  <2>3. CASE ForgetRefused(t)
    BY <1>1, <2>3 DEF ForgetRefused
  <2> QED
    BY <1>7, <2>1, <2>2, <2>3 DEF WorkerStep
<1>8. CASE SystemStep
  <2>1. ASSUME NEW o \in ops, ConnectDone(o)
        PROVE  SystemTypeOK'
    <3>1. PICK ok \in BOOLEAN :
            /\ Complete(o, ok, "none")
            /\ conn' = [conn EXCEPT ![o.client] = IF ok THEN "up" ELSE "refused"]
            /\ troubled' \subseteq troubled \cup {o.client}
      BY <2>1 DEF ConnectDone
    <3>2. o.client \in Clients /\ owed' = owed
      BY <1>0, <2>1 DEF ConnectDone, SystemTypeOK, Operations
    <3>3. conn' \in [Clients -> SocketStates] /\ troubled' \subseteq Clients
      BY <1>0, <3>1, <3>2 DEF SystemTypeOK, SocketStates
    <3> QED
      BY <1>0, <3>1, <3>2, <3>3, CompleteType DEF SystemTypeOK
  <2>2. ASSUME NEW o \in ops, SendDone(o) \/ ReceiveDone(o)
        PROVE  SystemTypeOK'
    <3>1. /\ o.client \in Clients /\ owed \in [Clients -> 0 .. MaxOwed]
          /\ owed[o.client] \in 0 .. MaxOwed /\ MaxOwed \in Nat
      BY <1>0, NetworkAssumption DEF SystemTypeOK, Operations
    <3>2. PICK msg \in {"none", "response", "part", "unknown"}, left \in 0 .. MaxOwed :
            /\ Complete(o, TRUE, msg)
            /\ owed' = [owed EXCEPT ![o.client] = left]
            /\ troubled' \subseteq troubled \cup {o.client}
      <4>1. CASE SendDone(o)
        <5>1. owed[o.client] + 1 \in 0 .. MaxOwed
          BY <3>1, <4>1 DEF SendDone
        <5> QED
          BY <4>1, <5>1 DEF SendDone
      <4>2. CASE ReceiveDone(o)
        <5>1. PICK n \in 0 .. owed[o.client], msg \in {"response", "part", "unknown"} :
                /\ owed' = [owed EXCEPT ![o.client] = owed[o.client] - n]
                /\ Complete(o, TRUE, msg)
                /\ troubled' = IF msg = "response" THEN troubled
                                                   ELSE troubled \cup {o.client}
          BY <4>2 DEF ReceiveDone
        <5>2. owed[o.client] - n \in 0 .. MaxOwed
          BY <3>1
        <5> QED
          BY <5>1, <5>2
      <4> QED
        BY <2>2, <4>1, <4>2
    <3>3. owed' \in [Clients -> 0 .. MaxOwed] /\ troubled' \subseteq Clients
      BY <1>0, <3>1, <3>2 DEF SystemTypeOK
    <3>4. UNCHANGED conn
      BY <2>2 DEF SendDone, ReceiveDone
    <3> QED
      BY <1>0, <3>1, <3>2, <3>3, <3>4, CompleteType DEF SystemTypeOK
  <2>3. ASSUME NEW o \in ops, DoneByClose(o)
        PROVE  SystemTypeOK'
    <3>1. PICK ok \in BOOLEAN, msg \in {"none", "response", "part", "unknown"} : Complete(o, ok, msg)
      BY <2>3 DEF DoneByClose
    <3>2. UNCHANGED << conn, owed, troubled >>
      BY <2>3 DEF DoneByClose
    <3> QED
      BY <1>0, <3>1, <3>2, CompleteType DEF SystemTypeOK
  <2>4. ASSUME NEW c \in Clients, PeerCloses(c)
        PROVE  SystemTypeOK'
    BY <1>0, <2>4 DEF PeerCloses, SystemTypeOK, SocketStates
  <2> QED
    BY <1>8, <2>1, <2>2, <2>3, <2>4 DEF SystemStep
<1>9. ASSUME NEW t \in Threads, CallQueue(t) \/ UseNull(t)
      PROVE  SystemTypeOK'
  BY <1>1, <1>9 DEF CallQueue, UseNull, Crash
<1>10. CASE StartFails
  BY <1>1, <1>10 DEF StartFails
<1> QED
  BY <1>3, <1>4, <1>5, <1>6, <1>7, <1>8, <1>9, <1>10 DEF NetworkNext, MainStep

(* Every variable of the program stays in its type, and the loop index and *)
(* the workers' clients stay usable: a step of Process or of main that has *)
(* not crashed finds mClientVector[i], whatever calls failed in Start.     *)
THEOREM NetworkTypeCorrect == NetworkSpec => [](NetworkTypeOK /\ IndicesInRange)
<1>1. NetworkInit => NetworkTypeOK /\ IndicesInRange
  <2> SUFFICES ASSUME NetworkInit PROVE NetworkTypeOK /\ IndicesInRange
    OBVIOUS
  <2>1. PoolTypeOK
    BY PoolTypeInit DEF NetworkInit
  <2>2. ControlTypeOK
    <3>1. mClientVector \in Seq(Clients) /\ Len(mClientVector) = 0
      BY DEF NetworkInit
    <3>2. /\ at \in [Threads -> MainLabels \cup WorkerLabels]
          /\ at[Main] \in MainLabels /\ \A t \in Workers : at[t] \in WorkerLabels
      <4>1. "create" \in MainLabels /\ "none" \in WorkerLabels
        BY DEF MainLabels, WorkerLabels
      <4> QED
        BY <4>1, NetworkAssumption DEF NetworkInit
    <3>3. i \in Clients /\ toArm \subseteq Clients /\ client \in [Workers -> Clients \cup {0}]
      BY NetworkAssumption DEF NetworkInit, Clients
    <3>4. key \in [Clients -> Keys]
      BY DEF NetworkInit
    <3>5. wsa \in BOOLEAN /\ crashed \in BOOLEAN
      BY Zenon DEF NetworkInit
    <3> QED
      BY <3>1, <3>2, <3>3, <3>4, <3>5, NetworkAssumption DEF ControlTypeOK, Clients
  <2>3. SystemTypeOK
    BY NetworkAssumption DEF NetworkInit, SystemTypeOK, OpTypes, SocketStates
  <2>4. IndicesInRange
    BY NetworkAssumption DEF NetworkInit, IndicesInRange
  <2> QED
    BY <2>1, <2>2, <2>3, <2>4 DEF NetworkTypeOK
<1>2. NetworkTypeOK /\ IndicesInRange /\ [NetworkNext]_networkVars
        => (NetworkTypeOK /\ IndicesInRange)'
  <2> SUFFICES ASSUME NetworkTypeOK, IndicesInRange, [NetworkNext]_networkVars
               PROVE  NetworkTypeOK' /\ IndicesInRange'
    OBVIOUS
  <2>1. PoolTypeOK'
    BY NetworkPoolStep, PoolTypeStep DEF NetworkTypeOK
  <2>2. CASE NetworkNext
    BY <2>1, <2>2, ControlStep, SystemTypeStep DEF NetworkTypeOK
  <2>3. CASE UNCHANGED networkVars
    <3>1. ControlTypeOK' /\ SystemTypeOK'
      BY <2>3 DEF networkVars, mainVars, systemVars, NetworkTypeOK, ControlTypeOK, SystemTypeOK
    <3>2. IndicesInRange'
      BY <2>3 DEF networkVars, mainVars, IndicesInRange
    <3> QED
      BY <2>1, <3>1, <3>2 DEF NetworkTypeOK
  <2> QED
    BY <2>2, <2>3
<1> QED
  BY <1>1, <1>2, PTL DEF NetworkSpec
-----------------------------------------------------------------------------
(***************************************************************************)
(* The phases of the program, and the contexts outside the pool            *)
(***************************************************************************)

(* Network::Start runs until the first worker thread is made.              *)
StartLabels  == {"create", "startPop", "connect", "associate", "ended"}
RearmLabels  == {"giveBackRearm", "rearmPop", "rearm"}

(* A thread is inside the call its place in the program makes.             *)
CallsFit ==
  \A t \in Threads : /\ pc[t] \in PushPcs => at[t] \in PushLabels
                     /\ pc[t] \in PopPcs  => at[t] \in PopLabels

(* A worker knows a client while it posts a receive again, and only then.  *)
ClientsFit == \A t \in Workers : client[t] # 0 <=> at[t] \in RearmLabels

(* No worker runs and no client is armed before Process.                   *)
StartFirst ==
  /\ at[Main] \in StartLabels =>
       toArm = {} /\ armed = {} /\ \A t \in Workers : at[t] = "none"
  /\ at[Main] \in {"sendPop", "send"} => toArm = {}

(* Process comes to every client of the map, and find() knows the key of   *)
(* every client of the vector.                                             *)
MapTried ==
  /\ toArm \subseteq mClientMap
  /\ at[Main] \notin StartLabels => mClientMap \subseteq toArm \cup armed \cup troubled
  /\ \A c \in Registered : Finds(c) # {}

(* Main has nothing in its hand between two clients, a worker nothing when *)
(* it waits for a completion or is about to pop.                           *)
HandsFit ==
  ~raced => \A t \in Threads :
    /\ at[t] \in {"none", "wait", "create", "associate", "ended"} => hand[t] = Null
    /\ at[t] \in PopLabels /\ pc[t] = "idle" => hand[t] = Null

(* A context outside is in one operation, of the type it is marked with,   *)
(* or in one completion, or in none.                                       *)
TypeOfOp == [connect |-> "OP_ACCEPT", recv |-> "OP_RECV", send |-> "OP_SEND"]

EachInOneOperation ==
  /\ \A o \in ops : o.ctx \in away /\ opType[o.ctx] = TypeOfOp[o.op]
  /\ \A r \in port : r.ctx \in away
  /\ \A o1, o2 \in ops : o1.ctx = o2.ctx => o1 = o2
  /\ \A r1, r2 \in port : r1.ctx = r2.ctx => r1 = r2
  /\ \A o \in ops, r \in port : o.ctx # r.ctx

OperationsApart == ~raced => EachInOneOperation

(* Only clients of the vector send and receive, and only their completions *)
(* are queued.                                                             *)
RegisteredOnly ==
  /\ \A o \in ops : o.op # "connect" => o.client \in Registered
  /\ \A r \in port : r.client \in Registered
  /\ \A t \in Workers : client[t] # 0 => client[t] \in Registered

(* Without trouble every socket is new, opened or connected.               *)
SocketsFit ==
  troubled = {} => \A c \in Clients : conn[c] \in {"none", "open", "up"}

(* Without trouble every completion is one a worker handles, and every     *)
(* context outside is in an operation or a completion.                     *)
NothingLost ==
  ~raced /\ troubled = {} =>
    /\ \A r \in port : r.ok /\ (opType[r.ctx] = "OP_RECV" => r.msg = "response")
    /\ away \subseteq InOperation

PhaseInv == CallsFit /\ ClientsFit /\ StartFirst /\ MapTried

-----------------------------------------------------------------------------

(* insert() keeps one client of each key, and only clients of the vector.  *)
LEMMA MapHasOneOfAKey ==
  ASSUME NEW v \in Seq(Clients)
  PROVE  /\ \A c, d \in MapOf(v) : key[c] = key[d] => c = d
         /\ MapOf(v) \subseteq {v[n] : n \in DOMAIN v}
<1>1. DOMAIN v = 1 .. Len(v) /\ Len(v) \in Nat
  OBVIOUS
<1>2. ASSUME NEW c \in MapOf(v), NEW d \in MapOf(v), key[c] = key[d]
      PROVE  c = d
  <2>1. PICK n \in DOMAIN v : c = v[n] /\ \A m \in 1 .. n - 1 : key[v[m]] # key[v[n]]
    BY DEF MapOf
  <2>2. PICK k \in DOMAIN v : d = v[k] /\ \A m \in 1 .. k - 1 : key[v[m]] # key[v[k]]
    BY DEF MapOf
  <2>3. n \in Nat /\ k \in Nat /\ n >= 1 /\ k >= 1
    BY <1>1
  <2>4. ~(n < k) /\ ~(k < n)
    BY <1>2, <2>1, <2>2, <2>3
  <2> QED
    BY <2>1, <2>2, <2>3, <2>4
<1>3. MapOf(v) \subseteq {v[n] : n \in DOMAIN v}
  BY DEF MapOf
<1> QED
  BY <1>2, <1>3

(* One more client: those of the map stay in it, and if none of them has   *)
(* its key it goes into the map itself.                                    *)
LEMMA MapOfAppend ==
  ASSUME NEW v \in Seq(Clients), NEW c \in Clients
  PROVE  /\ MapOf(v) \subseteq MapOf(Append(v, c))
         /\ {Append(v, c)[n] : n \in DOMAIN Append(v, c)} = {v[n] : n \in DOMAIN v} \cup {c}
         /\ (\A n \in DOMAIN v : key[v[n]] # key[c]) => c \in MapOf(Append(v, c))
<1> DEFINE w == Append(v, c)
<1>1. /\ DOMAIN v = 1 .. Len(v) /\ Len(v) \in Nat
      /\ DOMAIN w = 1 .. Len(v) + 1
      /\ \A n \in 1 .. Len(v) : w[n] = v[n]
      /\ w[Len(v) + 1] = c
  OBVIOUS
<1>2. MapOf(v) \subseteq MapOf(w)
  <2> SUFFICES ASSUME NEW d \in MapOf(v)
               PROVE  d \in MapOf(w)
    OBVIOUS
  <2>1. PICK n \in DOMAIN v : d = v[n] /\ \A m \in 1 .. n - 1 : key[v[m]] # key[v[n]]
    BY DEF MapOf
  <2>2. n \in DOMAIN w /\ w[n] = d /\ \A m \in 1 .. n - 1 : w[m] = v[m]
    BY <1>1, <2>1
  <2>3. \A m \in 1 .. n - 1 : key[w[m]] # key[w[n]]
    BY <2>1, <2>2
  <2> HIDE DEF w
  <2> QED
    BY <2>2, <2>3 DEF MapOf
<1>3. {w[n] : n \in DOMAIN w} = {v[n] : n \in DOMAIN v} \cup {c}
  <2> HIDE DEF w
  <2>1. \A n \in DOMAIN w : n \in DOMAIN v \/ n = Len(v) + 1
    BY <1>1
  <2>2. {w[n] : n \in DOMAIN w} \subseteq {v[n] : n \in DOMAIN v} \cup {c}
    BY <1>1, <2>1
  <2>3. c \in {w[n] : n \in DOMAIN w}
    BY <1>1
  <2>4. {v[n] : n \in DOMAIN v} \subseteq {w[n] : n \in DOMAIN w}
    <3>1. \A n \in DOMAIN v : n \in DOMAIN w /\ w[n] = v[n]
      BY <1>1
    <3> QED
      BY <3>1
  <2> QED
    BY <2>2, <2>3, <2>4
<1>4. ASSUME \A n \in DOMAIN v : key[v[n]] # key[c]
      PROVE  c \in MapOf(w)
  <2>1. \A m \in 1 .. (Len(v) + 1) - 1 : key[w[m]] # key[w[Len(v) + 1]]
    BY <1>1, <1>4
  <2>2. Len(v) + 1 \in DOMAIN w
    BY <1>1
  <2> HIDE DEF w
  <2> QED
    BY <1>1, <2>1, <2>2 DEF MapOf
<1> QED
  BY <1>2, <1>3, <1>4

-----------------------------------------------------------------------------

(* One access of a call: t goes on in it, or begins the call that what it  *)
(* holds allows, and a call that returns empties or fills its hand.        *)
LEMMA CallMoves ==
  ASSUME TypeOK, NEW t \in Threads, QueueStep(t)
  PROVE  \E p \in {"idle"} \cup PushPcs \cup PopPcs :
           /\ pc' = [pc EXCEPT ![t] = p]
           /\ p \in PushPcs => pc[t] \in PushPcs \/ (pc[t] = "idle" /\ hand[t] # Null)
           /\ p \in PopPcs  => pc[t] \in PopPcs  \/ (pc[t] = "idle" /\ hand[t] = Null)
  BY QueueAssumption
     DEF TypeOK, QueueStep, PushLoadInput, PushFull, PushHasRoom, PushWrite, PushStoreInput,
         PopLoadOutput, PopEmpty, PopHasItem, PopRead, PopStoreOutput, Return, PushPcs, PopPcs

(* Every step keeps a thread in the call its place makes.                  *)
LEMMA CallsFitStep ==
  ASSUME NetworkTypeOK, CallsFit, StartFirst, NetworkNext
  PROVE  CallsFit'
<1> USE NetworkAssumption DEF Goto
<1>0. /\ TypeOK /\ at \in [Threads -> MainLabels \cup WorkerLabels]
      /\ Main \in Threads /\ Workers \subseteq Threads
  BY DEF NetworkTypeOK, PoolTypeOK, ControlTypeOK
<1>1. ASSUME NEW t \in Threads, CallQueue(t)
      PROVE  CallsFit'
  <2>1. PICK p \in {"idle"} \cup PushPcs \cup PopPcs :
          /\ pc' = [pc EXCEPT ![t] = p]
          /\ p \in PushPcs => pc[t] \in PushPcs \/ (pc[t] = "idle" /\ hand[t] # Null)
          /\ p \in PopPcs  => pc[t] \in PopPcs  \/ (pc[t] = "idle" /\ hand[t] = Null)
    BY <1>0, <1>1, CallMoves DEF CallQueue
  <2>2. pc'[t] = p /\ \A u \in Threads \ {t} : pc'[u] = pc[u] /\ at'[u] = at[u]
    BY <1>0, <1>1, <2>1 DEF CallQueue, TypeOK
  <2>3. p # "idle" => at' = at
    BY <1>1, <2>2 DEF CallQueue
  <2>4. /\ at[t] \in PopLabels \cup PushLabels
        /\ pc[t] = "idle" => (at[t] \in PopLabels <=> hand[t] = Null)
        /\ PopLabels \cap PushLabels = {}
    BY <1>1 DEF CallQueue, PopLabels, PushLabels
  <2>5. /\ p \in PushPcs => at'[t] \in PushLabels
        /\ p \in PopPcs  => at'[t] \in PopLabels
    BY <2>1, <2>3, <2>4 DEF CallsFit, PushPcs, PopPcs
  <2> QED
    BY <2>2, <2>5 DEF CallsFit
<1>2. CASE UNCHANGED << at, pc >>
  BY <1>2 DEF CallsFit
<1>3. ASSUME NEW t \in Threads, at[t] \notin PopLabels \cup PushLabels,
             NEW l, at' = [at EXCEPT ![t] = l], UNCHANGED pc
      PROVE  CallsFit'
  BY <1>0, <1>3 DEF CallsFit
<1>4. CASE MainStep
  <2>1. UNCHANGED pc /\ at[Main] \notin PopLabels \cup PushLabels
    BY <1>4 DEF MainStep, StartFails, CreateSocket, SkipSocket, Associate, NextSocket, poolVars,
                queueVars, StartConnects, ConnectEx, ProcessArms, ReceiveReady, SendRequest,
                Send, HandOver, PopLabels, PushLabels
  <2>2. CASE \E l : at' = [at EXCEPT ![Main] = l]
    BY <1>0, <1>3, <2>1, <2>2
  <2>3. CASE SkipSocket \/ Associate
    <3>1. PICK v : NextSocket(v)
      BY <2>3 DEF SkipSocket, Associate
    <3>2. CASE i < ClientCount
      BY <2>2, <3>1, <3>2 DEF NextSocket
    <3>3. CASE ~(i < ClientCount)
      <4>1. \A t \in Workers : at[t] = "none"
        BY <2>3 DEF SkipSocket, Associate, StartFirst, StartLabels
      <4>2. \A t \in Threads : pc[t] \notin PushPcs \cup PopPcs
        BY <1>0, <2>1, <4>1 DEF CallsFit, PopLabels, PushLabels
      <4> QED
        BY <2>1, <4>2 DEF CallsFit
    <3> QED
      BY <3>2, <3>3
  <2> QED
    BY <1>4, <2>2, <2>3 DEF MainStep, StartFails, CreateSocket, StartConnects, ProcessArms,
                            SendRequest, NextRequest
<1>5. ASSUME NEW t \in Workers, WorkerStep(t)
      PROVE  CallsFit'
  <2>1. CASE ForgetRefused(t) \/ \E r \in port : IgnoreCompletion(t, r)
    BY <1>2, <2>1 DEF ForgetRefused, HandOver, IgnoreCompletion, poolVars, queueVars
  <2>2. CASE Rearm(t)
    BY <1>0, <1>3, <2>2 DEF Rearm, ReceiveReady, HandOver, poolVars, queueVars,
                            PopLabels, PushLabels
  <2>3. ASSUME NEW r \in port, HandleCompletion(t, r)
        PROVE  CallsFit'
    BY <1>0, <1>3, <2>3 DEF HandleCompletion, TakeOver, PopLabels, PushLabels
  <2> QED
    BY <1>5, <2>1, <2>2, <2>3 DEF WorkerStep
<1>6. ASSUME SystemStep \/ \E t \in Threads : UseNull(t)
      PROVE  CallsFit'
  BY <1>2, <1>6 DEF SystemStep, ConnectDone, SendDone, ReceiveDone, DoneByClose, PeerCloses,
                    Complete, UseNull, Crash, poolVars, queueVars
<1> QED
  BY <1>1, <1>4, <1>5, <1>6 DEF NetworkNext

(* Every step leaves a worker with a client while it posts a receive.      *)
LEMMA ClientsFitStep ==
  ASSUME NetworkTypeOK, ClientsFit, StartFirst, NetworkNext
  PROVE  ClientsFit'
<1> USE NetworkAssumption DEF Goto, RearmLabels
<1>0. /\ at \in [Threads -> MainLabels \cup WorkerLabels]
      /\ \A t \in Workers : at[t] \in WorkerLabels
      /\ client \in [Workers -> Clients \cup {0}]
      /\ Main \in Threads /\ Workers \subseteq Threads
  BY DEF NetworkTypeOK, ControlTypeOK
<1>1. ASSUME UNCHANGED client, NEW t \in Threads, NEW l, at' = [at EXCEPT ![t] = l],
             t = Main \/ (at[t] \in RearmLabels <=> l \in RearmLabels)
      PROVE  ClientsFit'
  BY <1>0, <1>1 DEF ClientsFit
<1>2. CASE UNCHANGED << at, client >>
  BY <1>2 DEF ClientsFit
<1>3. ASSUME NEW t \in Threads, CallQueue(t)
      PROVE  ClientsFit'
  <2>1. UNCHANGED client /\ (UNCHANGED at \/ at' = [at EXCEPT ![t] = AfterCall[at[t]]])
    BY <1>3 DEF CallQueue
  <2>2. t = Main \/ at[t] \in {"rearmPop", "giveBack", "giveBackRearm"}
    BY <1>0, <1>3 DEF CallQueue, PopLabels, PushLabels, WorkerLabels
  <2>3. t = Main \/ (at[t] \in RearmLabels <=> AfterCall[at[t]] \in RearmLabels)
    BY <2>2 DEF AfterCall
  <2> QED
    BY <1>1, <1>2, <2>1, <2>3
<1>4. CASE StartFails \/ CreateSocket \/ StartConnects \/ ProcessArms \/ SendRequest
  BY <1>1, <1>4, <1>0 DEF StartFails, CreateSocket, StartConnects, ProcessArms, SendRequest,
                          NextRequest
<1>5. CASE SkipSocket \/ Associate
  <2>1. PICK v : NextSocket(v)
    BY <1>5 DEF SkipSocket, Associate
  <2>2. CASE i < ClientCount
    BY <1>0, <1>1, <2>1, <2>2 DEF NextSocket
  <2>3. CASE ~(i < ClientCount)
    <3>1. \A t \in Workers : at[t] = "none"
      BY <1>5 DEF SkipSocket, Associate, StartFirst, StartLabels
    <3>2. UNCHANGED client /\ \A t \in Workers : at'[t] = "wait"
      BY <1>0, <2>1, <2>3 DEF NextSocket
    <3> QED
      BY <3>1, <3>2 DEF ClientsFit
  <2> QED
    BY <2>2, <2>3
<1>6. ASSUME NEW t \in Workers, WorkerStep(t)
      PROVE  ClientsFit'
  <2>1. CASE ForgetRefused(t) \/ \E r \in port : IgnoreCompletion(t, r)
    BY <1>2, <2>1 DEF ForgetRefused, IgnoreCompletion
  <2>2. CASE Rearm(t)
    BY <1>0, <1>6, <2>2 DEF Rearm, ClientsFit
  <2>3. ASSUME NEW r \in port, HandleCompletion(t, r)
        PROVE  ClientsFit'
    <3>1. Finds(r.client) \subseteq Clients
      BY MapOfClients DEF Finds, mClientMap, NetworkTypeOK, ControlTypeOK
    <3>2. CASE at' = [at EXCEPT ![t] = "giveBack"] /\ UNCHANGED client
      BY <1>1, <1>0, <1>6, <2>3, <3>2 DEF HandleCompletion
    <3>3. CASE at' = [at EXCEPT ![t] = "giveBackRearm"]
               /\ \E c \in Finds(r.client) : client' = [client EXCEPT ![t] = c]
      BY <1>0, <1>6, <3>1, <3>3 DEF ClientsFit, Clients
    <3> QED
      BY <2>3, <3>2, <3>3 DEF HandleCompletion
  <2> QED
    BY <1>6, <2>1, <2>2, <2>3 DEF WorkerStep
<1>7. ASSUME SystemStep \/ \E t \in Threads : UseNull(t)
      PROVE  ClientsFit'
  BY <1>2, <1>7 DEF SystemStep, ConnectDone, SendDone, ReceiveDone, DoneByClose, PeerCloses,
                    Complete, UseNull, Crash
<1> QED
  BY <1>3, <1>4, <1>5, <1>6, <1>7 DEF NetworkNext, MainStep

(* Every step keeps the workers and the receives out of Start.             *)
LEMMA StartFirstStep ==
  ASSUME NetworkTypeOK, IndicesInRange, StartFirst, NetworkNext
  PROVE  StartFirst'
<1> USE NetworkAssumption DEF Goto, StartLabels
<1>0. /\ at \in [Threads -> MainLabels \cup WorkerLabels]
      /\ Main \in Threads /\ Workers \subseteq Threads /\ Main \notin Workers
  BY DEF NetworkTypeOK, ControlTypeOK
<1>1. CASE UNCHANGED << at, toArm, armed >>
  BY <1>1 DEF StartFirst
<1>2. ASSUME UNCHANGED << toArm, armed >>, NEW l, at' = [at EXCEPT ![Main] = l],
             l \in StartLabels <=> at[Main] \in StartLabels,
             l \in {"sendPop", "send"} => at[Main] \in {"sendPop", "send"}
      PROVE  StartFirst'
  BY <1>0, <1>2 DEF StartFirst
<1>3. ASSUME NEW t \in Threads, CallQueue(t)
      PROVE  StartFirst'
  <2>1. /\ UNCHANGED << toArm, armed >>
        /\ UNCHANGED at \/ at' = [at EXCEPT ![t] = AfterCall[at[t]]]
        /\ at[t] \in PopLabels \cup PushLabels
    BY <1>3 DEF CallQueue, mainVars
  <2>2. CASE t = Main
    <3>1. at[t] \in {"startPop", "processPop", "sendPop"}
      BY <2>1, <2>2 DEF NetworkTypeOK, ControlTypeOK, MainLabels, PopLabels, PushLabels
    <3> QED
      BY <1>1, <1>2, <2>1, <2>2, <3>1 DEF AfterCall
  <2>3. CASE t \in Workers
    <3>1. at[t] # "none"
      BY <2>1 DEF PopLabels, PushLabels
    <3>2. at'[Main] = at[Main] /\ at[Main] \notin StartLabels
      BY <1>0, <2>1, <2>3, <3>1 DEF StartFirst
    <3> QED
      BY <2>1, <3>2 DEF StartFirst
  <2> QED
    BY <2>2, <2>3
<1>4. CASE StartFails \/ CreateSocket \/ StartConnects
  BY <1>2, <1>4 DEF StartFails, CreateSocket, StartConnects, mainVars
<1>5. CASE SkipSocket \/ Associate
  <2>1. PICK v : NextSocket(v) /\ at[Main] \in {"create", "associate"}
    BY <1>5 DEF SkipSocket, Associate
  <2>2. CASE i < ClientCount
    BY <1>2, <2>1, <2>2 DEF NextSocket
  <2>3. CASE ~(i < ClientCount)
    <3>1. toArm' = MapOf(v)
          /\ at'[Main] = IF v = << >> THEN "sendPop" ELSE "processPop"
      BY <1>0, <2>1, <2>3 DEF NextSocket
    <3>2. v = << >> => MapOf(v) = {}
      BY DEF MapOf
    <3> QED
      BY <3>1, <3>2 DEF StartFirst
  <2> QED
    BY <2>2, <2>3
<1>6. CASE ProcessArms
  BY <1>0, <1>6 DEF ProcessArms, StartFirst
<1>7. CASE SendRequest
  BY <1>2, <1>7 DEF SendRequest, NextRequest
<1>8. ASSUME NEW t \in Workers, WorkerStep(t)
      PROVE  StartFirst'
  <2>1. at[t] # "none" /\ at'[Main] = at[Main] /\ UNCHANGED toArm
    BY <1>0, <1>8 DEF WorkerStep, IgnoreCompletion, HandleCompletion, Rearm, ForgetRefused,
                      mainVars
  <2> QED
    BY <2>1, <1>8 DEF StartFirst
<1>9. ASSUME SystemStep \/ \E t \in Threads : UseNull(t)
      PROVE  StartFirst'
  BY <1>1, <1>9 DEF SystemStep, ConnectDone, SendDone, ReceiveDone, DoneByClose, PeerCloses,
                    Complete, UseNull, Crash, mainVars
<1> QED
  BY <1>3, <1>4, <1>5, <1>6, <1>7, <1>8, <1>9 DEF NetworkNext, MainStep

(* One more client in the vector: find() knows the keys it knew and its    *)
(* own, and the map has lost none.                                         *)
LEMMA FindsAfterAppend ==
  ASSUME mClientVector \in Seq(Clients), NEW c \in Clients,
         mClientVector' = Append(mClientVector, c), key' = key,
         \A d \in Registered : Finds(d) # {}
  PROVE  /\ Registered' = Registered \cup {c}
         /\ \A d \in Registered' : Finds(d)' # {}
<1> DEFINE w == Append(mClientVector, c)
<1>0. mClientMap' = MapOf(w) /\ Registered' = {w[n] : n \in DOMAIN w}
  BY DEF mClientMap, MapOf, Registered
<1>1. Registered' = Registered \cup {c} /\ mClientMap \subseteq mClientMap'
  <2>1. /\ MapOf(mClientVector) \subseteq MapOf(w)
        /\ {w[n] : n \in DOMAIN w} = {mClientVector[n] : n \in DOMAIN mClientVector} \cup {c}
    BY MapOfAppend
  <2> QED
    BY <1>0, <2>1 DEF Registered, mClientMap
<1>2. ASSUME NEW d \in Clients, Finds(d) # {}
      PROVE  Finds(d)' # {}
  BY <1>1, <1>2 DEF Finds
<1>3. CASE Finds(c) # {}
  BY <1>1, <1>2, <1>3 DEF Finds
<1>4. CASE Finds(c) = {}
  <2>1. \A n \in DOMAIN mClientVector : key[mClientVector[n]] # key[c]
    <3> SUFFICES ASSUME NEW n \in DOMAIN mClientVector, key[mClientVector[n]] = key[c]
                 PROVE  FALSE
      OBVIOUS
    <3>1. Finds(mClientVector[n]) # {}
      BY DEF Registered
    <3> QED
      BY <1>4, <3>1 DEF Finds
  <2>2. c \in mClientMap'
    BY <1>0, <2>1, MapOfAppend
  <2>3. Finds(c)' # {}
    BY <2>2 DEF Finds
  <2>4. \A d \in Registered : Finds(d)' # {}
    BY <1>1 DEF Finds
  <2> QED
    BY <1>1, <2>3, <2>4
<1> QED
  BY <1>3, <1>4

(* Every step of Process comes to one more client of the map.              *)
LEMMA MapTriedStep ==
  ASSUME NetworkTypeOK, StartFirst, MapTried, NetworkNext
  PROVE  MapTried'
<1> USE NetworkAssumption DEF Goto
<1>0. /\ at \in [Threads -> MainLabels \cup WorkerLabels] /\ key' = key
      /\ Main \in Threads /\ Workers \subseteq Threads /\ Main \notin Workers
      /\ mClientVector \in Seq(Clients) /\ i \in Clients
  BY DEF NetworkTypeOK, ControlTypeOK, NetworkNext
<1>1. ASSUME UNCHANGED << mClientVector, toArm >>,
             armed \subseteq armed', troubled \subseteq troubled',
             at'[Main] \notin StartLabels => at[Main] \notin StartLabels
      PROVE  MapTried'
  <2>1. UNCHANGED << mClientMap, Registered >> /\ \A c \in Clients : Finds(c)' = Finds(c)
    BY <1>0, <1>1 DEF mClientMap, MapOf, Registered, Finds
  <2>2. Registered \subseteq Clients
    BY <1>0 DEF Registered
  <2> QED
    BY <1>1, <2>1, <2>2 DEF MapTried
<1>2. ASSUME NEW t \in Threads, CallQueue(t)
      PROVE  MapTried'
  <2>1. UNCHANGED at \/ at' = [at EXCEPT ![t] = AfterCall[at[t]]]
    BY <1>2 DEF CallQueue
  <2>2. at[Main] = "startPop" => AfterCall[at[Main]] = "connect"
    BY DEF AfterCall
  <2>3. at[Main] \in StartLabels /\ t = Main => at[Main] = "startPop"
    BY <1>2 DEF CallQueue, StartLabels, PopLabels, PushLabels
  <2>4. at'[Main] \notin StartLabels => at[Main] \notin StartLabels
    BY <1>0, <2>1, <2>2, <2>3 DEF StartLabels
  <2> QED
    BY <1>1, <1>2, <2>4 DEF CallQueue, mainVars
<1>3. CASE StartFails \/ CreateSocket \/ StartConnects \/ SendRequest
  <2>1. UNCHANGED << mClientVector, toArm, armed >> /\ troubled \subseteq troubled'
    BY <1>3 DEF StartFails, CreateSocket, StartConnects, ConnectEx, SendRequest, Send, mainVars
  <2>2. at'[Main] \notin StartLabels => at[Main] \notin StartLabels
    BY <1>0, <1>3 DEF StartFails, CreateSocket, StartConnects, SendRequest, NextRequest,
                      StartLabels
  <2> QED
    BY <1>1, <2>1, <2>2
<1>4. CASE SkipSocket \/ Associate
  <2>1. PICK v \in {mClientVector, Append(mClientVector, i)} :
          NextSocket(v) /\ troubled \subseteq troubled'
    BY <1>4 DEF SkipSocket, Associate
  <2>2. /\ mClientVector' = v /\ UNCHANGED armed
        /\ at[Main] \in StartLabels /\ toArm = {}
    BY <1>4, <2>1 DEF SkipSocket, Associate, NextSocket, StartFirst, StartLabels
  <2>3. \A c \in Registered' : Finds(c)' # {}
    <3>1. CASE v = mClientVector
      <4>1. Registered' = Registered /\ \A c \in Registered : Finds(c)' = Finds(c)
        BY <1>0, <2>2, <3>1 DEF Registered, Finds, mClientMap, MapOf
      <4> QED
        BY <4>1 DEF MapTried
    <3>2. CASE v = Append(mClientVector, i)
      BY <1>0, <2>2, <3>2, FindsAfterAppend DEF MapTried
    <3> QED
      BY <3>1, <3>2
  <2>4. \/ toArm' = {} /\ at'[Main] \in StartLabels
        \/ toArm' = mClientMap'
    <3>1. MapOf(v) = mClientMap'
      BY <1>0, <2>2 DEF mClientMap, MapOf
    <3> QED
      BY <1>0, <2>1, <2>2, <3>1 DEF NextSocket, StartLabels
  <2> QED
    BY <2>3, <2>4 DEF MapTried
<1>5. CASE ProcessArms
  <2>1. PICK c \in toArm :
          ReceiveReady(Main, c) /\ toArm' = toArm \ {c} /\ UNCHANGED mClientVector
    BY <1>5 DEF ProcessArms
  <2>2. armed \cup troubled \cup {c} \subseteq armed' \cup troubled'
    BY <2>1 DEF ReceiveReady
  <2>3. UNCHANGED << mClientMap, Registered >> /\ \A d \in Clients : Finds(d)' = Finds(d)
    BY <1>0, <2>1 DEF mClientMap, MapOf, Registered, Finds
  <2>4. Registered \subseteq Clients /\ at[Main] \notin StartLabels
    BY <1>0, <1>5 DEF Registered, ProcessArms, StartLabels
  <2> QED
    BY <2>1, <2>2, <2>3, <2>4 DEF MapTried
<1>6. ASSUME NEW t \in Workers, WorkerStep(t)
      PROVE  MapTried'
  <2>1. /\ UNCHANGED << mClientVector, toArm >> /\ at'[Main] = at[Main]
        /\ armed \subseteq armed' /\ troubled \subseteq troubled'
    BY <1>0, <1>6 DEF WorkerStep, IgnoreCompletion, HandleCompletion, Rearm, ReceiveReady,
                      ForgetRefused, mainVars
  <2> QED
    BY <1>1, <2>1
<1>7. ASSUME SystemStep \/ \E t \in Threads : UseNull(t)
      PROVE  MapTried'
  <2>1. /\ UNCHANGED << at, mClientVector, toArm, armed >> /\ troubled \subseteq troubled'
    BY <1>7 DEF SystemStep, ConnectDone, SendDone, ReceiveDone, DoneByClose, PeerCloses,
                Complete, UseNull, Crash, mainVars
  <2> QED
    BY <1>1, <2>1
<1> QED
  BY <1>2, <1>3, <1>4, <1>5, <1>6, <1>7 DEF NetworkNext, MainStep

(* Start, Process and the workers keep to their order, and Process comes   *)
(* to every client of mClientMap.                                          *)
THEOREM PhaseCorrect == NetworkSpec => []PhaseInv
<1>1. NetworkInit => PhaseInv
  <2> SUFFICES ASSUME NetworkInit PROVE PhaseInv
    OBVIOUS
  <2>1. at[Main] = "create" /\ Main \notin Workers /\ \A t \in Workers : at[t] = "none"
    BY NetworkAssumption DEF NetworkInit
  <2>2. CallsFit /\ ClientsFit
    BY <2>1 DEF NetworkInit, PoolInit, CallsFit, PushPcs, PopPcs, ClientsFit, RearmLabels
  <2>3. StartFirst
    BY <2>1 DEF NetworkInit, StartFirst, StartLabels
  <2>4. Registered = {} /\ toArm = {}
    BY DEF NetworkInit, Registered
  <2>5. MapTried
    BY <2>1, <2>4 DEF MapTried, StartLabels
  <2> QED
    BY <2>2, <2>3, <2>5 DEF PhaseInv
<1>2. NetworkTypeOK /\ IndicesInRange /\ PhaseInv /\ [NetworkNext]_networkVars => PhaseInv'
  <2>1. CASE UNCHANGED networkVars
    BY <2>1 DEF networkVars, poolVars, queueVars, mainVars, PhaseInv, CallsFit, ClientsFit,
                StartFirst, MapTried, Registered, Finds, mClientMap, MapOf
  <2> QED
    BY <2>1, CallsFitStep, ClientsFitStep, StartFirstStep, MapTriedStep DEF PhaseInv
<1> QED
  BY <1>1, <1>2, NetworkTypeCorrect, PTL DEF NetworkSpec

(* After Process a client is without a receive only if something failed    *)
(* for it, or for the client of the same key that is in the map instead.   *)
THEOREM DeafOnlyOnTroubleCorrect == NetworkSpec => []DeafOnlyOnTrouble
<1>1. PhaseInv => DeafOnlyOnTrouble
  <2> SUFFICES ASSUME PhaseInv, at[Main] = "sendPop",
                      NEW c \in Registered \ (armed \cup troubled)
               PROVE  \E d \in armed \cup troubled : d # c /\ key[d] = key[c]
    BY DEF DeafOnlyOnTrouble
  <2>1. PICK d \in mClientMap : key[d] = key[c]
    BY DEF PhaseInv, MapTried, Finds
  <2>2. d \in armed \cup troubled
    BY DEF PhaseInv, StartFirst, MapTried, StartLabels
  <2> QED
    BY <2>1, <2>2
<1> QED
  BY <1>1, PhaseCorrect, PTL

-----------------------------------------------------------------------------
(***************************************************************************)
(* What a step does to the operations and the completions.                 *)
(***************************************************************************)
Quiet == UNCHANGED << away, opType, ops, port >>

Post(t, c, op) ==
  /\ HandOver(t)
  /\ op = "connect" \/ c \in Registered
  /\ opType' = [opType EXCEPT ![hand[t]] = TypeOfOp[op]]
  /\ ops' = ops \cup {[ctx |-> hand[t], client |-> c, op |-> op]}
  /\ UNCHANGED port

Forget(t) ==
  /\ HandOver(t)
  /\ troubled' # {} \/ at[t] \in {"wait", "rearmPop"}
  /\ \/ UNCHANGED opType
     \/ \E type \in OpTypes : opType' = [opType EXCEPT ![hand[t]] = type]
  /\ UNCHANGED << ops, port >>

(* Without trouble an operation ends well.                                 *)
End(o, ok, msg) ==
  /\ Complete(o, ok, msg)
  /\ troubled' = {} =>
       \/ conn[o.client] \in {"closed", "reset"}
       \/ /\ ok /\ (o.op = "recv" => msg = "response")
          /\ o.op = "connect" => o.client \in Registered

Drop(r) ==
  /\ Ignored(r)
  /\ port' = port \ {r}
  /\ UNCHANGED << poolVars, opType, ops >>

Take(t, r) ==
  /\ port' = port \ {r}
  /\ TakeOver(t, r.ctx)
  /\ opType' = [opType EXCEPT ![r.ctx] = "OP_DEFAULT"]
  /\ UNCHANGED ops

(* A call of ReceiveReady posts a receive, or drops the context if there   *)
(* is one.                                                                 *)
LEMMA ReceiveReadySteps ==
  ASSUME NEW t \in Threads, NEW c \in Clients, ReceiveReady(t, c), UNCHANGED port,
         c \in Registered
  PROVE  Quiet \/ Forget(t) \/ Post(t, c, "recv")
BY DEF ReceiveReady, Quiet, Forget, Post, TypeOfOp, OpTypes, poolVars, queueVars

(* Every step posts an operation, ends one, takes or drops a completion,   *)
(* forgets a context, or leaves the operations alone.                      *)
LEMMA OperationSteps ==
  ASSUME NetworkTypeOK, IndicesInRange, MapTried, RegisteredOnly, NetworkNext
  PROVE  \/ Quiet
         \/ \E t \in Threads : \/ Forget(t)
                              \/ \E c \in Clients, op \in {"connect", "recv", "send"} :
                                   Post(t, c, op)
         \/ \E o \in ops, ok \in BOOLEAN, msg \in {"none", "response", "part", "unknown"} :
              End(o, ok, msg)
         \/ \E r \in port : Drop(r) \/ \E t \in Workers : Take(t, r)
<1> USE NetworkAssumption
<1>0. /\ Main \in Threads /\ Workers \subseteq Threads /\ i \in Clients
      /\ toArm \subseteq Clients /\ toArm \subseteq Registered
      /\ \A t \in Workers : at[t] = "rearm" => client[t] \in Clients /\ client[t] \in Registered
  <2>1. mClientMap \subseteq Registered
    BY MapHasOneOfAKey DEF mClientMap, Registered, NetworkTypeOK, ControlTypeOK
  <2> QED
    BY <2>1 DEF NetworkTypeOK, ControlTypeOK, IndicesInRange, MapTried, RegisteredOnly
<1>1. ASSUME NEW t \in Threads, CallQueue(t) \/ UseNull(t)
      PROVE  Quiet
  BY <1>1 DEF CallQueue, UseNull, Crash, Quiet, systemVars, poolVars
<1>2. CASE StartFails \/ CreateSocket \/ SkipSocket \/ Associate
  BY <1>2 DEF StartFails, CreateSocket, SkipSocket, Associate, NextSocket, Quiet, systemVars,
              poolVars
<1>3. CASE StartConnects
  BY <1>0, <1>3 DEF StartConnects, ConnectEx, Forget, Post, TypeOfOp, OpTypes
<1>4. CASE ProcessArms
  <2>1. PICK c \in toArm : ReceiveReady(Main, c) /\ UNCHANGED port
    BY <1>4 DEF ProcessArms
  <2> QED
    BY <1>0, <2>1, ReceiveReadySteps
<1>5. CASE SendRequest
  <2>1. mClientVector[i] \in Clients /\ mClientVector[i] \in Registered
    BY <1>5 DEF SendRequest, NetworkNext, NetworkTypeOK, ControlTypeOK, IndicesInRange, Clients,
                Registered
  <2>2. CASE Send(mClientVector[i]) /\ UNCHANGED port
    BY <1>0, <2>1, <2>2 DEF Send, Forget, Post, TypeOfOp, OpTypes
  <2>3. CASE UNCHANGED << poolVars, opType, ops, port >>
    BY <2>3 DEF Quiet, poolVars
  <2> QED
    BY <1>5, <2>2, <2>3 DEF SendRequest
<1>6. ASSUME NEW t \in Workers, Rearm(t)
      PROVE  Quiet \/ Forget(t) \/ Post(t, client[t], "recv")
  BY <1>0, <1>6, ReceiveReadySteps DEF Rearm
<1>7. ASSUME NEW t \in Workers, ForgetRefused(t)
      PROVE  Forget(t)
  BY <1>7 DEF ForgetRefused, Forget, systemVars
<1>8. ASSUME NEW t \in Workers, NEW r \in port, IgnoreCompletion(t, r)
      PROVE  Drop(r)
  BY <1>8 DEF IgnoreCompletion, Drop
<1>9. ASSUME NEW t \in Workers, NEW r \in port, HandleCompletion(t, r)
      PROVE  Take(t, r)
  BY <1>9 DEF HandleCompletion, Take
<1>10. ASSUME NEW o \in ops, ConnectDone(o) \/ SendDone(o) \/ ReceiveDone(o) \/ DoneByClose(o)
       PROVE  \E ok \in BOOLEAN, msg \in {"none", "response", "part", "unknown"} : End(o, ok, msg)
  <2>1. CASE ConnectDone(o)
    BY <2>1 DEF ConnectDone, End
  <2>2. CASE SendDone(o)
    BY <2>2 DEF SendDone, End
  <2>3. CASE ReceiveDone(o)
    BY <2>3 DEF ReceiveDone, End
  <2>4. CASE DoneByClose(o)
    BY <2>4 DEF DoneByClose, End
  <2> QED
    BY <1>10, <2>1, <2>2, <2>3, <2>4
<1>11. ASSUME NEW c \in Clients, PeerCloses(c)
       PROVE  Quiet
  BY <1>11 DEF PeerCloses, Quiet, poolVars
<1>12. ASSUME NEW t \in Workers, WorkerStep(t)
       PROVE  \/ Quiet \/ Forget(t) \/ \E r \in port : Drop(r) \/ Take(t, r)
              \/ at[t] = "rearm" /\ Post(t, client[t], "recv")
  <2>1. CASE Rearm(t)
    BY <1>6, <2>1 DEF Rearm
  <2>2. CASE \E r \in port : IgnoreCompletion(t, r) \/ HandleCompletion(t, r)
    BY <1>8, <1>9, <2>2
  <2>3. CASE ForgetRefused(t)
    BY <1>7, <2>3
  <2> QED
    BY <1>12, <2>1, <2>2, <2>3 DEF WorkerStep
<1>13. CASE SystemStep
  BY <1>10, <1>11, <1>13 DEF SystemStep
<1>14. CASE \E t \in Workers : WorkerStep(t)
  BY <1>0, <1>12, <1>14
<1> QED
  BY <1>1, <1>2, <1>3, <1>4, <1>5, <1>13, <1>14 DEF NetworkNext, MainStep

(* Two calls that have overlapped are not forgotten.                       *)
LEMMA RacedIsForEver ==
  ASSUME PoolTypeOK, [NetworkNext]_networkVars, ~raced'
  PROVE  ~raced
<1>1. [PoolNext]_poolVars
  BY NetworkPoolStep
<1> QED
  BY <1>1 DEF PoolNext, poolVars, queueVars, QueueStep, PushLoadInput, PushFull, PushHasRoom,
              PushWrite, PushStoreInput, PopLoadOutput, PopEmpty, PopHasItem, PopRead,
              PopStoreOutput, HandOver, TakeOver

(* A context that a thread has outside the queue's calls is nowhere else.  *)
LEMMA HeldIsNotAway ==
  ASSUME PoolTypeOK, OneOwner, ~raced, NEW t \in Threads, pc[t] = "idle",
         hand[t] \in Contexts
  PROVE  hand[t] \notin away
BY QueueAssumption DEF OneOwner, Held, HandOutside, Contexts

(* So a step never puts one context in two operations.                     *)
LEMMA OperationsApartStep ==
  ASSUME NetworkTypeOK, IndicesInRange, MapTried, RegisteredOnly, OneOwner,
         OperationsApart, NetworkNext
  PROVE  OperationsApart'
<1> SUFFICES ASSUME ~raced'
             PROVE  EachInOneOperation'
  BY DEF OperationsApart
<1> USE DEF EachInOneOperation
<1>0. ~raced /\ PoolTypeOK /\ SystemTypeOK
  BY RacedIsForEver DEF NetworkTypeOK
<1>1. EachInOneOperation
  BY <1>0 DEF OperationsApart
<1>3. CASE Quiet
  BY <1>1, <1>3 DEF Quiet
<1>4. ASSUME NEW t \in Threads, HandOver(t)
      PROVE  /\ hand[t] \in Contexts /\ hand[t] \notin away /\ away' = away \cup {hand[t]}
             /\ \A o \in ops : o.ctx # hand[t]
             /\ \A r \in port : r.ctx # hand[t]
  BY <1>0, <1>1, <1>4, HeldIsNotAway DEF HandOver
<1>5. ASSUME NEW t \in Threads, Forget(t)
      PROVE  EachInOneOperation'
  <2>1. UNCHANGED << ops, port >> /\ HandOver(t)
    BY <1>5 DEF Forget
  <2>2. \A o \in ops : opType'[o.ctx] = opType[o.ctx]
    BY <1>0, <1>4, <1>5, <2>1 DEF Forget, SystemTypeOK, Operations
  <2> QED
    BY <1>1, <1>4, <2>1, <2>2
<1>6. ASSUME NEW t \in Threads, NEW c \in Clients, NEW op \in {"connect", "recv", "send"},
             Post(t, c, op)
      PROVE  EachInOneOperation'
  <2> DEFINE new == [ctx |-> hand[t], client |-> c, op |-> op]
  <2>1. ops' = ops \cup {new} /\ port' = port /\ HandOver(t)
    BY <1>6 DEF Post
  <2>2. opType'[new.ctx] = TypeOfOp[new.op] /\ \A o \in ops : opType'[o.ctx] = opType[o.ctx]
    BY <1>0, <1>4, <1>6, <2>1 DEF Post, SystemTypeOK
  <2>3. new.ctx = hand[t]
    OBVIOUS
  <2> HIDE DEF new
  <2> QED
    BY <1>1, <1>4, <2>1, <2>2, <2>3
<1>7. ASSUME NEW o \in ops, NEW ok \in BOOLEAN, NEW msg \in {"none", "response", "part", "unknown"},
             End(o, ok, msg)
      PROVE  EachInOneOperation'
  <2> DEFINE new == [ctx |-> o.ctx, client |-> o.client, ok |-> ok, msg |-> msg]
  <2>1. /\ ops' = ops \ {o} /\ port' \subseteq port \cup {new}
        /\ UNCHANGED << away, opType >>
    BY <1>7 DEF End, Complete, poolVars
  <2>2. new.ctx = o.ctx
    OBVIOUS
  <2> HIDE DEF new
  <2> QED
    BY <1>1, <2>1, <2>2
<1>8. ASSUME NEW r \in port, Drop(r)
      PROVE  EachInOneOperation'
  BY <1>1, <1>8 DEF Drop, poolVars
<1>9. ASSUME NEW r \in port, NEW t \in Workers, Take(t, r)
      PROVE  EachInOneOperation'
  <2>1. /\ away' = away \ {r.ctx} /\ port' = port \ {r} /\ ops' = ops
        /\ opType' = [opType EXCEPT ![r.ctx] = "OP_DEFAULT"]
    BY <1>0, <1>9 DEF Take, TakeOver
  <2>2. \A o \in ops : opType'[o.ctx] = opType[o.ctx]
    BY <1>1, <2>1
  <2> QED
    BY <1>1, <2>1, <2>2
<1> QED
  BY <1>3, <1>5, <1>6, <1>7, <1>8, <1>9, OperationSteps

-----------------------------------------------------------------------------

(* What a call leaves in the hand of its thread: nothing, when a push has  *)
(* put the context into the queue.                                         *)
LEMMA CallLeavesNothing ==
  ASSUME TypeOK, GivingBackNeverFails, ~raced, NEW t \in Threads, QueueStep(t)
  PROVE  /\ \A u \in Threads \ {t} : hand'[u] = hand[u] /\ pc'[u] = pc[u]
         /\ pc[t] \in PushPcs /\ pc'[t] = "idle" => hand'[t] = Null
BY QueueAssumption
   DEF TypeOK, GivingBackNeverFails, QueueStep, PushLoadInput, PushFull, PushHasRoom, PushWrite,
       PushStoreInput, PopLoadOutput, PopEmpty, PopHasItem, PopRead, PopStoreOutput, Return,
       PushPcs, PopPcs

(* A worker that has given a context back, and a main thread that has      *)
(* handed one over, hold none.                                             *)
LEMMA HandsFitStep ==
  ASSUME NetworkTypeOK, CallsFit, StartFirst, GivingBackNeverFails, HandsFit, NetworkNext
  PROVE  HandsFit'
<1> USE NetworkAssumption DEF Goto
<1> SUFFICES ASSUME ~raced'
             PROVE  \A t \in Threads :
               /\ at'[t] \in {"none", "wait", "create", "associate", "ended"} => hand'[t] = Null
               /\ at'[t] \in PopLabels /\ pc'[t] = "idle" => hand'[t] = Null
  BY DEF HandsFit
<1> DEFINE Fits(t) ==
      /\ at[t] \in {"none", "wait", "create", "associate", "ended"} => hand[t] = Null
      /\ at[t] \in PopLabels /\ pc[t] = "idle" => hand[t] = Null
<1> SUFFICES ASSUME NEW t \in Threads
             PROVE  Fits(t)'
  OBVIOUS
<1>0. /\ ~raced /\ TypeOK /\ at \in [Threads -> MainLabels \cup WorkerLabels]
      /\ Main \in Threads /\ Workers \subseteq Threads /\ Main \notin Workers
      /\ hand \in [Threads -> Contexts \cup {Null, Uninit}]
  BY RacedIsForEver DEF NetworkTypeOK, PoolTypeOK, TypeOK, ControlTypeOK, Contexts
<1>1. Fits(t)
  BY <1>0 DEF HandsFit
<1>2. CASE at'[t] = at[t] /\ hand'[t] = hand[t] /\ pc'[t] = pc[t]
  BY <1>1, <1>2
<1>3. CASE hand'[t] = Null
  BY <1>3
<1>4. ASSUME NEW u \in Threads, CallQueue(u)
      PROVE  Fits(t)'
  <2>1. QueueStep(u) /\ at[u] \in PopLabels \cup PushLabels
    BY <1>4 DEF CallQueue
  <2>2. CASE t # u
    BY <1>0, <1>2, <1>4, <2>1, <2>2, CallLeavesNothing DEF CallQueue
  <2>3. CASE t = u /\ pc'[t] # "idle"
    BY <1>4, <2>1, <2>3 DEF CallQueue, PopLabels, PushLabels
  <2>4. CASE t = u /\ pc'[t] = "idle"
    <3>1. at'[t] = AfterCall[at[t]]
      BY <1>0, <1>4, <2>4 DEF CallQueue
    <3>2. CASE at[t] \in PushLabels
      <4>1. pc[t] \in PushPcs
        <5>1. pc[t] # "idle"
          BY <1>0, <2>1, <2>4 DEF TypeOK, QueueStep, PushLoadInput, PopLoadOutput, PushFull,
             PushHasRoom, PushWrite, PushStoreInput, PopEmpty, PopHasItem, PopRead,
             PopStoreOutput
        <5>2. pc[t] \notin PopPcs
          BY <3>2 DEF CallsFit, PopLabels, PushLabels
        <5> QED
          BY <1>0, <5>1, <5>2 DEF TypeOK
      <4>2. hand'[t] = Null
        BY <1>0, <2>1, <2>4, <4>1, CallLeavesNothing
      <4> QED
        BY <1>3, <4>2
    <3>3. CASE at[t] \in PopLabels
      BY <3>1, <3>3 DEF AfterCall, PopLabels
    <3> QED
      BY <2>1, <2>4, <3>2, <3>3
  <2> QED
    BY <2>2, <2>3, <2>4
<1>5. ASSUME NEW u \in Threads, NEW l, at' = [at EXCEPT ![u] = l],
             UNCHANGED << pc, hand >>,
             hand[u] = Null \/ l \notin {"none", "wait", "create", "associate", "ended"} \cup PopLabels
      PROVE  Fits(t)'
  BY <1>0, <1>1, <1>5
<1>6. ASSUME NEW u \in Threads, HandOver(u), UNCHANGED at \/ \E l : at' = [at EXCEPT ![u] = l]
      PROVE  Fits(t)'
  <2>1. hand'[u] = Null /\ (t # u => hand'[t] = hand[t] /\ at'[t] = at[t] /\ pc'[t] = pc[t])
    BY <1>0, <1>6 DEF HandOver
  <2> QED
    BY <1>2, <1>3, <2>1
<1>7. CASE UNCHANGED << at, poolVars >>
  BY <1>2, <1>7 DEF poolVars, queueVars
<1>8. ASSUME NEW u \in Threads, NEW c, ReceiveReady(u, c), \E l : at' = [at EXCEPT ![u] = l]
      PROVE  Fits(t)'
  <2>1. CASE HandOver(u)
    BY <1>6, <1>8, <2>1
  <2>2. CASE hand[u] = Null /\ UNCHANGED poolVars
    BY <1>5, <1>8, <2>2 DEF poolVars, queueVars
  <2> QED
    BY <1>8, <2>1, <2>2 DEF ReceiveReady
<1>9. CASE MainStep
  <2>1. CASE StartFails \/ CreateSocket
    <3>1. at[Main] = "create" /\ UNCHANGED << pc, hand >>
          /\ \E l : at' = [at EXCEPT ![Main] = l]
      BY <2>1 DEF StartFails, CreateSocket, poolVars, queueVars
    <3> QED
      BY <1>0, <1>5, <3>1 DEF HandsFit
  <2>2. CASE StartConnects
    BY <1>0, <1>6, <2>2 DEF StartConnects, ConnectEx
  <2>3. CASE SkipSocket \/ Associate
    <3>1. PICK v : NextSocket(v) /\ at[Main] \in {"create", "associate"}
      BY <2>3 DEF SkipSocket, Associate
    <3>2. hand[Main] = Null /\ \A w \in Workers : hand[w] = Null
      BY <1>0, <3>1 DEF HandsFit, StartFirst, StartLabels
    <3>3. hand'[t] = Null
      BY <1>0, <3>1, <3>2 DEF NextSocket, poolVars, queueVars
    <3> QED
      BY <1>3, <3>3
  <2>4. CASE ProcessArms
    BY <1>0, <1>8, <2>4 DEF ProcessArms
  <2>5. CASE SendRequest
    <3>1. at' = [at EXCEPT ![Main] = "sendPop"]
      BY <2>5 DEF SendRequest, NextRequest
    <3>2. CASE HandOver(Main)
      BY <1>0, <1>6, <3>1, <3>2
    <3>3. CASE hand[Main] = Null /\ UNCHANGED poolVars
      BY <1>0, <1>5, <3>1, <3>3 DEF poolVars, queueVars
    <3> QED
      BY <2>5, <3>2, <3>3 DEF SendRequest, Send
  <2> QED
    BY <1>9, <2>1, <2>2, <2>3, <2>4, <2>5 DEF MainStep
<1>10. ASSUME NEW w \in Workers, WorkerStep(w)
       PROVE  Fits(t)'
  <2>1. CASE Rearm(w)
    BY <1>0, <1>8, <2>1 DEF Rearm
  <2>2. CASE ForgetRefused(w)
    BY <1>0, <1>6, <2>2 DEF ForgetRefused
  <2>3. ASSUME NEW r \in port, IgnoreCompletion(w, r)
        PROVE  Fits(t)'
    BY <1>7, <2>3 DEF IgnoreCompletion
  <2>4. ASSUME NEW r \in port, HandleCompletion(w, r)
        PROVE  Fits(t)'
    <3>1. t # w => at'[t] = at[t] /\ hand'[t] = hand[t] /\ pc'[t] = pc[t]
      BY <1>0, <2>4 DEF HandleCompletion, TakeOver
    <3>2. at'[w] \in {"giveBack", "giveBackRearm"}
      BY <1>0, <2>4 DEF HandleCompletion
    <3> QED
      BY <1>2, <3>1, <3>2 DEF PopLabels
  <2> QED
    BY <1>10, <2>1, <2>2, <2>3, <2>4 DEF WorkerStep
<1>11. ASSUME SystemStep \/ \E u \in Threads : UseNull(u)
       PROVE  Fits(t)'
  BY <1>7, <1>11 DEF SystemStep, ConnectDone, SendDone, ReceiveDone, DoneByClose, PeerCloses,
                     Complete, UseNull, Crash
<1> QED
  BY <1>4, <1>9, <1>10, <1>11 DEF NetworkNext

-----------------------------------------------------------------------------

(* A client once in the vector, armed or troubled remains so.              *)
LEMMA HistoriesGrow ==
  ASSUME NetworkTypeOK, NetworkNext
  PROVE  /\ Registered \subseteq Registered'
         /\ armed \subseteq armed' /\ troubled \subseteq troubled'
<1>1. mClientVector' \in {mClientVector, Append(mClientVector, i)}
  BY DEF NetworkNext, CallQueue, UseNull, Crash, MainStep, StartFails, CreateSocket, SkipSocket,
         StartConnects, Associate, NextSocket, ProcessArms, SendRequest, WorkerStep,
         IgnoreCompletion, HandleCompletion, Rearm, ForgetRefused, SystemStep, ConnectDone,
         SendDone, ReceiveDone, DoneByClose, PeerCloses, Complete, mainVars
<1>2. Registered \subseteq Registered'
  <2>1. mClientVector \in Seq(Clients) /\ i \in Clients
    BY DEF NetworkTypeOK, ControlTypeOK
  <2>2. {Append(mClientVector, i)[n] : n \in DOMAIN Append(mClientVector, i)} = Registered \cup {i}
    BY <2>1, MapOfAppend DEF Registered
  <2> QED
    BY <1>1, <2>2 DEF Registered
<1>3. armed \subseteq armed' /\ troubled \subseteq troubled'
  <2>1. CASE MainStep
    BY <2>1 DEF MainStep, StartFails, CreateSocket, SkipSocket, StartConnects, ConnectEx,
                Associate, NextSocket, ProcessArms, ReceiveReady, SendRequest, Send
  <2>2. CASE \E t \in Workers : WorkerStep(t)
    BY <2>2 DEF WorkerStep, IgnoreCompletion, HandleCompletion, Rearm, ReceiveReady, ForgetRefused
  <2>3. CASE SystemStep
    BY <2>3 DEF SystemStep, ConnectDone, SendDone, ReceiveDone, DoneByClose, PeerCloses, Complete
  <2>4. CASE \E t \in Threads : CallQueue(t) \/ UseNull(t)
    BY <2>4 DEF CallQueue, UseNull, Crash
  <2> QED
    BY <2>1, <2>2, <2>3, <2>4 DEF NetworkNext
<1> QED
  BY <1>2, <1>3

(* No completion of a client that is not in the vector is ever queued.     *)
LEMMA RegisteredOnlyStep ==
  ASSUME NetworkTypeOK, IndicesInRange, MapTried, RegisteredOnly, NetworkNext
  PROVE  RegisteredOnly'
<1>0. Registered \subseteq Registered' /\ client \in [Workers -> Clients \cup {0}]
  BY HistoriesGrow DEF NetworkTypeOK, ControlTypeOK
<1>1. ASSUME NEW o \in ops', o.op # "connect"
      PROVE  o.client \in Registered'
  <2>1. CASE o \in ops
    BY <1>0, <1>1, <2>1 DEF RegisteredOnly
  <2>2. CASE o \notin ops
    <3>1. PICK t \in Threads, c \in Clients, op \in {"connect", "recv", "send"} : Post(t, c, op)
      BY <2>2, OperationSteps DEF Quiet, Forget, End, Complete, Drop, Take
    <3>2. o = [ctx |-> hand[t], client |-> c, op |-> op]
      BY <2>2, <3>1 DEF Post
    <3> QED
      BY <1>0, <1>1, <3>1, <3>2 DEF Post
  <2> QED
    BY <2>1, <2>2
<1>2. ASSUME NEW r \in port'
      PROVE  r.client \in Registered'
  <2>1. CASE r \in port
    BY <1>0, <2>1 DEF RegisteredOnly
  <2>2. CASE r \notin port
    <3>1. PICK o \in ops, ok \in BOOLEAN, msg \in {"none", "response", "part", "unknown"} :
            Complete(o, ok, msg)
      BY <2>2, OperationSteps DEF Quiet, Forget, Post, End, Drop, Take
    <3>2. /\ o.client \in Registered
          /\ r = [ctx |-> o.ctx, client |-> o.client, ok |-> ok, msg |-> msg]
      BY <2>2, <3>1 DEF Complete
    <3> QED
      BY <1>0, <3>2
  <2> QED
    BY <2>1, <2>2
<1>3. ASSUME NEW t \in Workers, client'[t] # 0
      PROVE  client'[t] \in Registered'
  <2>1. CASE client'[t] = client[t]
    BY <1>0, <1>3, <2>1 DEF RegisteredOnly
  <2>2. CASE client'[t] # client[t]
    <3>1. client' # client
      BY <2>2
    <3>2. PICK u \in Workers : Rearm(u) \/ \E r \in port : HandleCompletion(u, r)
      <4>1. ~MainStep /\ ~SystemStep /\ \A u \in Threads : ~CallQueue(u) /\ ~UseNull(u)
        BY <3>1 DEF CallQueue, UseNull, Crash, MainStep, StartFails, CreateSocket, SkipSocket,
                    StartConnects, Associate, NextSocket, ProcessArms, SendRequest, SystemStep,
                    ConnectDone, SendDone, ReceiveDone, DoneByClose, PeerCloses, Complete
      <4> QED
        BY <3>1, <4>1 DEF NetworkNext, WorkerStep, IgnoreCompletion, ForgetRefused
    <3>3. mClientMap \subseteq Registered
      BY MapHasOneOfAKey DEF mClientMap, Registered, NetworkTypeOK, ControlTypeOK
    <3>4. \E r \in port : client'[t] \in Finds(r.client)
      BY <1>0, <1>3, <2>2, <3>2 DEF HandleCompletion, Rearm
    <3> QED
      BY <1>0, <3>3, <3>4 DEF Finds
  <2> QED
    BY <2>1, <2>2
<1> QED
  BY <1>1, <1>2, <1>3 DEF RegisteredOnly

(* A socket that is lost is a client in trouble.                           *)
LEMMA SocketsFitStep ==
  ASSUME NetworkTypeOK, SocketsFit, NetworkNext
  PROVE  SocketsFit'
<1> SUFFICES ASSUME troubled' = {}, NEW c \in Clients
             PROVE  conn'[c] \in {"none", "open", "up"}
  BY DEF SocketsFit
<1>0. /\ troubled = {} /\ conn[c] \in {"none", "open", "up"}
      /\ conn \in [Clients -> SocketStates]
  BY HistoriesGrow DEF SocketsFit, NetworkTypeOK, SystemTypeOK
<1>1. CASE MainStep
  BY <1>0, <1>1 DEF MainStep, StartFails, CreateSocket, SkipSocket, StartConnects, ConnectEx,
                Associate, NextSocket, ProcessArms, SendRequest, systemVars
<1>2. CASE \E t \in Workers : WorkerStep(t)
  BY <1>0, <1>2 DEF WorkerStep, IgnoreCompletion, HandleCompletion, Rearm, ForgetRefused,
                    systemVars
<1>3. CASE SystemStep
  <2>1. ASSUME NEW o \in ops, ConnectDone(o)
        PROVE  conn'[c] \in {"none", "open", "up"}
    BY <1>0, <2>1 DEF ConnectDone
  <2>2. CASE conn' = conn
    BY <1>0, <2>2
  <2>3. ASSUME NEW d \in Clients, PeerCloses(d)
        PROVE  FALSE
    BY <2>3 DEF PeerCloses
  <2> QED
    BY <1>3, <2>1, <2>2, <2>3 DEF SystemStep, SendDone, ReceiveDone, DoneByClose
<1>4. CASE \E t \in Threads : CallQueue(t) \/ UseNull(t)
  BY <1>0, <1>4 DEF CallQueue, UseNull, Crash, systemVars
<1> QED
  BY <1>1, <1>2, <1>3, <1>4 DEF NetworkNext

(* Without trouble no context and no completion is dropped.                *)
LEMMA NothingLostStep ==
  ASSUME NetworkTypeOK, IndicesInRange, CallsFit, MapTried, RegisteredOnly, SocketsFit, HandsFit,
         OneOwner, OperationsApart, NothingLost, NetworkNext
  PROVE  NothingLost'
<1> SUFFICES ASSUME ~raced', troubled' = {}
             PROVE  (/\ \A r \in port : r.ok /\ (opType[r.ctx] = "OP_RECV" => r.msg = "response")
                     /\ away \subseteq InOperation)'
  BY DEF NothingLost
<1> USE DEF EachInOneOperation, InOperation
<1>0. /\ ~raced /\ troubled = {} /\ PoolTypeOK /\ opType \in [Contexts -> OpTypes]
      /\ \A o \in ops : o.ctx \in Contexts /\ o.client \in Clients
      /\ \A r \in port : r.ctx \in Contexts /\ r.client \in Clients
  BY RacedIsForEver, HistoriesGrow
     DEF NetworkTypeOK, SystemTypeOK, Operations, Completions
<1>1. /\ \A r \in port : r.ok /\ (opType[r.ctx] = "OP_RECV" => r.msg = "response")
      /\ away \subseteq InOperation
      /\ EachInOneOperation
  BY <1>0 DEF NothingLost, OperationsApart
<1>2. ASSUME NEW t \in Threads, HandOver(t)
      PROVE  /\ hand[t] \in Contexts /\ hand[t] \notin away /\ away' = away \cup {hand[t]}
             /\ \A r \in port : r.ctx # hand[t]
  BY <1>0, <1>1, <1>2, HeldIsNotAway DEF HandOver
<1>3. CASE Quiet
  BY <1>1, <1>3 DEF Quiet
<1>4. ASSUME NEW t \in Threads, Forget(t)
      PROVE  FALSE
  <2>1. hand[t] \in Contexts /\ pc[t] = "idle" /\ at[t] \in {"wait", "rearmPop"}
    BY <1>4 DEF Forget, HandOver
  <2>2. hand[t] = Null
    BY <1>0, <2>1 DEF HandsFit, PopLabels
  <2> QED
    BY <2>1, <2>2, QueueAssumption DEF Contexts
<1>5. ASSUME NEW t \in Threads, NEW c \in Clients, NEW op \in {"connect", "recv", "send"},
             Post(t, c, op)
      PROVE  NothingLost'
  <2> DEFINE new == [ctx |-> hand[t], client |-> c, op |-> op]
  <2>1. ops' = ops \cup {new} /\ port' = port /\ HandOver(t) /\ new.ctx = hand[t]
    BY <1>5 DEF Post
  <2>2. \A r \in port : opType'[r.ctx] = opType[r.ctx]
    BY <1>0, <1>2, <1>5, <2>1 DEF Post
  <2> HIDE DEF new
  <2> QED
    BY <1>1, <1>2, <2>1, <2>2 DEF NothingLost
<1>6. ASSUME NEW o \in ops, NEW ok \in BOOLEAN, NEW msg \in {"none", "response", "part", "unknown"},
             End(o, ok, msg)
      PROVE  NothingLost'
  <2> DEFINE new == [ctx |-> o.ctx, client |-> o.client, ok |-> ok, msg |-> msg]
  <2>1. ok /\ (o.op = "recv" => msg = "response") /\ o.client \in Registered
    <3>1. conn[o.client] \in {"none", "open", "up"}
      BY <1>0 DEF SocketsFit
    <3> QED
      BY <1>6, <3>1 DEF End, RegisteredOnly
  <2>2. /\ ops' = ops \ {o} /\ port' = port \cup {new}
        /\ UNCHANGED << away, opType >>
    BY <1>6, <2>1 DEF End, Complete, poolVars
  <2>3. opType[o.ctx] = "OP_RECV" => o.op = "recv"
    <3>1. o.op \in {"connect", "recv", "send"} /\ opType[o.ctx] = TypeOfOp[o.op]
      BY <1>1 DEF NetworkTypeOK, SystemTypeOK, Operations
    <3> QED
      BY <3>1 DEF TypeOfOp
  <2>4. new.ctx = o.ctx /\ new.ok = ok /\ new.msg = msg
    OBVIOUS
  <2> HIDE DEF new
  <2>5. \A r \in port' : r.ok /\ (opType'[r.ctx] = "OP_RECV" => r.msg = "response")
    BY <1>1, <2>1, <2>2, <2>3, <2>4
  <2>6. away' \subseteq InOperation'
    BY <1>1, <2>2, <2>4
  <2> QED
    BY <2>5, <2>6 DEF NothingLost
<1>7. ASSUME NEW r \in port, Drop(r)
      PROVE  FALSE
  BY <1>1, <1>7 DEF Drop, Ignored, RegisteredOnly, MapTried
<1>8. ASSUME NEW r \in port, NEW t \in Workers, Take(t, r)
      PROVE  NothingLost'
  <2>1. /\ away' = away \ {r.ctx} /\ port' = port \ {r} /\ ops' = ops
        /\ opType' = [opType EXCEPT ![r.ctx] = "OP_DEFAULT"]
    BY <1>0, <1>8 DEF Take, TakeOver
  <2>2. \A q \in port' : opType'[q.ctx] = opType[q.ctx]
    BY <1>0, <1>1, <2>1
  <2>3. away' \subseteq InOperation'
    BY <1>1, <2>1
  <2> QED
    BY <1>1, <2>1, <2>2, <2>3 DEF NothingLost
<1> QED
  BY <1>3, <1>4, <1>5, <1>6, <1>7, <1>8, OperationSteps DEF NothingLost

(* The invariant behind the theorems that follow.                          *)
SafetyInv ==
  /\ RegisteredOnly /\ SocketsFit /\ HandsFit
  /\ OperationsApart /\ NothingLost

(* The inductive invariant of the contexts holds.                          *)
LEMMA SafetyCorrect == NetworkSpec => []SafetyInv
<1>1. NetworkInit => SafetyInv
  <2> SUFFICES ASSUME NetworkInit PROVE SafetyInv
    OBVIOUS
  <2>1. ops = {} /\ port = {} /\ away = {} /\ \A t \in Threads : hand[t] = Null
    BY DEF NetworkInit, PoolInit
  <2>2. RegisteredOnly /\ SocketsFit /\ HandsFit
    BY <2>1 DEF NetworkInit, RegisteredOnly, SocketsFit, HandsFit
  <2>3. OperationsApart /\ NothingLost
    BY <2>1 DEF OperationsApart, EachInOneOperation, NothingLost
  <2> QED
    BY <2>2, <2>3 DEF SafetyInv
<1>2. /\ NetworkTypeOK /\ IndicesInRange /\ PhaseInv /\ OneOwner /\ GivingBackNeverFails
      /\ SafetyInv /\ [NetworkNext]_networkVars
      => SafetyInv'
  <2> SUFFICES ASSUME NetworkTypeOK, IndicesInRange, PhaseInv, OneOwner, GivingBackNeverFails,
                      SafetyInv, [NetworkNext]_networkVars
               PROVE  SafetyInv'
    OBVIOUS
  <2>1. CASE UNCHANGED networkVars
    <3>1. RegisteredOnly' /\ SocketsFit' /\ HandsFit'
      BY <2>1 DEF networkVars, poolVars, queueVars, mainVars, systemVars, SafetyInv,
                  RegisteredOnly, Registered, SocketsFit, HandsFit
    <3>2. OperationsApart' /\ NothingLost'
      BY <2>1 DEF networkVars, poolVars, queueVars, systemVars, SafetyInv, OperationsApart,
                  EachInOneOperation, NothingLost, InOperation
    <3> QED
      BY <3>1, <3>2 DEF SafetyInv
  <2>2. CASE NetworkNext
    BY <2>2, RegisteredOnlyStep, SocketsFitStep, HandsFitStep, OperationsApartStep,
       NothingLostStep DEF SafetyInv, PhaseInv
  <2> QED
    BY <2>1, <2>2
<1> QED
  BY <1>1, <1>2, NetworkTypeCorrect, PhaseCorrect, NetworkPoolFacts, PTL DEF NetworkSpec

(* Until two calls of the queue of one kind overlap: every operation and   *)
(* every completion has a context of its own outside the pool, and none is *)
(* lost unless a call of the system fails or a connection completes too    *)
(* early, with any number of clients and workers.                          *)
THEOREM LeaksOnlyOnTroubleCorrect == NetworkSpec => []LeaksOnlyOnTrouble
<1>1. SafetyInv => LeaksOnlyOnTrouble
  BY DEF SafetyInv, OperationsApart, EachInOneOperation, NothingLost, LeaksOnlyOnTrouble,
         InOperation, Leaked
<1> QED
  BY <1>1, SafetyCorrect, PTL

=============================================================================
