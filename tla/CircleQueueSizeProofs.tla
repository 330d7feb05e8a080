------------------------ MODULE CircleQueueSizeProofs ------------------------
(***************************************************************************)
(* Proofs about CircleQueueSize: what size(), empty() and Front() answer   *)
(* was so at some moment of the call.                                      *)
(***************************************************************************)
EXTENDS CircleQueueSize, CircleQueueProofs

allVars == << queueVars, lookVars >>

(* size() of a pair of indices loaded at different moments.                *)
SizeOf(in, out) == IF in >= out THEN in - out ELSE QueueMaxSize - out + in

HasInput  == {"sizeInput", "sizeBelow", "emptyInput"}
HasOutput == {"emptyOutput", "frontOutput"}

(* What the looking thread has loaded is still true, or a call has moved   *)
(* the index meanwhile; and the pair of the loaded index and the other one *)
(* has been the queue's at one moment, unless the other one has moved.     *)
LookInv ==
  look \in Calls =>
    /\ loaded \in Slots /\ moved \subseteq {"push", "pop"}
    /\ Sight(look) \in seen
    /\ look \in HasInput =>
         /\ "push" \notin moved => loaded = mInputIndex
         /\ "pop"  \notin moved => SizeOf(loaded, mOutputIndex) \in seen
    /\ look \in HasOutput =>
         /\ "pop"  \notin moved => loaded = mOutputIndex
         /\ look = "emptyOutput" /\ "push" \notin moved => SizeOf(mInputIndex, loaded) \in seen
    /\ look = "sizeBelow" /\ "pop" \notin moved => loaded < mOutputIndex
    /\ look = "frontOutput" /\ "pop" \notin moved /\ Null \notin seen =>
         seen = {mBuffer[mOutputIndex]}

MomentInv == LookInv /\ SizeOfAMoment /\ EmptyOfAMoment /\ FrontOfAMoment
-----------------------------------------------------------------------------

(* The look takes nothing from the queue: its steps are steps of a caller  *)
(* of push() and pop(), or none.                                           *)
LEMMA LookIsSerial == LookSpec => Spec /\ []~raced
<1>1. LookInit => Init /\ ~raced
  BY DEF LookInit, Init
<1>2. [LookNext /\ ~raced']_allVars => [Next]_queueVars
  BY DEF allVars, LookNext, Look, Meanwhile, SizeLoadInput, SizeLoadOutput, SizeReloadOutput,
         EmptyLoadOne, EmptyLoadOther, FrontLoadOutput, FrontRead, Use, Begin, Load, Answer
<1>3. ~raced /\ [LookNext /\ ~raced']_allVars => ~raced'
  BY DEF allVars, queueVars
<1> QED
  BY <1>1, <1>2, <1>3, PTL DEF LookSpec, Spec, allVars

(* A queue is empty exactly when the indices meet.                         *)
LEMMA SizeOfMeeting ==
  ASSUME NEW in \in Slots, NEW out \in Slots
  PROVE  SizeOf(in, out) \in Nat /\ (SizeOf(in, out) = 0 <=> in = out)
  BY QueueAssumption DEF Slots, SizeOf

(* A step of another thread writes no slot of a value that is queued.      *)
LEMMA OldestStays ==
  ASSUME TypeOK, SerialInv, ~raced, Next, mInputIndex # mOutputIndex
  PROVE  mBuffer'[mOutputIndex] = mBuffer[mOutputIndex]
<1>1. CASE mBuffer' = mBuffer
  BY <1>1
<1>2. ASSUME NEW t \in Threads, PushWrite(t)
      PROVE  mBuffer'[mOutputIndex] = mBuffer[mOutputIndex]
  <2>1. cur[t] = mInputIndex
    BY <1>2 DEF PushWrite, SerialInv, PushIsCurrent, PushPcs
  <2> QED
    BY <1>2, <2>1 DEF PushWrite, TypeOK
<1> QED
  BY <1>1, <1>2 DEF Next, QueueStep, PushLoadInput, PushFull, PushHasRoom, PushStoreInput,
                    PopLoadOutput, PopEmpty, PopHasItem, PopRead, PopStoreOutput, Bring

(* The queue goes on while the looking thread is between two loads.        *)
LEMMA LookInvMeanwhile ==
  ASSUME TypeOK, TypeOK', SerialInv, ~raced, LookInv, Meanwhile
  PROVE  LookInv'
<1> SUFFICES ASSUME look \in Calls
             PROVE  LookInv'
  BY DEF Meanwhile, LookInv
<1>1. /\ Next /\ look' = look /\ loaded' = loaded
      /\ seen' = seen \cup {Sight(look)'}
      /\ moved' = moved \cup (IF mInputIndex'  # mInputIndex  THEN {"push"} ELSE {})
                        \cup (IF mOutputIndex' # mOutputIndex THEN {"pop"}  ELSE {})
  BY DEF Meanwhile, Calls
<1>2. /\ loaded' \in Slots /\ moved' \subseteq {"push", "pop"} /\ Sight(look)' \in seen'
  BY <1>1 DEF LookInv
<1>3. /\ "push" \notin moved' => mInputIndex'  = mInputIndex  /\ "push" \notin moved
      /\ "pop"  \notin moved' => mOutputIndex' = mOutputIndex /\ "pop"  \notin moved
      /\ seen \subseteq seen'
  BY <1>1
<1>4. ASSUME look \in HasInput
      PROVE  /\ "push" \notin moved' => loaded' = mInputIndex'
             /\ "pop"  \notin moved' => SizeOf(loaded, mOutputIndex)' \in seen'
  BY <1>1, <1>3, <1>4 DEF LookInv, SizeOf
<1>5. ASSUME look \in HasOutput
      PROVE  /\ "pop" \notin moved' => loaded' = mOutputIndex'
             /\ look = "emptyOutput" /\ "push" \notin moved' => SizeOf(mInputIndex, loaded)' \in seen'
  BY <1>1, <1>3, <1>5 DEF LookInv, SizeOf
<1>6. look = "sizeBelow" /\ "pop" \notin moved' => loaded' < mOutputIndex'
  BY <1>1, <1>3 DEF LookInv
<1>7. ASSUME look = "frontOutput", "pop" \notin moved', Null \notin seen'
      PROVE  seen' = {mBuffer'[mOutputIndex']}
  <2>1. seen = {mBuffer[mOutputIndex]} /\ Sight(look) \in seen /\ Null \notin seen
    BY <1>3, <1>7 DEF LookInv
  <2>2. mInputIndex # mOutputIndex
    <3>1. Size # 0
      BY <1>7, <2>1 DEF Sight
    <3> QED
      BY <3>1, QueueAssumption DEF Size, TypeOK, Slots
  <2>3. mBuffer'[mOutputIndex] = mBuffer[mOutputIndex]
    BY <1>1, <2>2, OldestStays
  <2>4. Sight(look)' = mBuffer'[mOutputIndex']
    <3>1. Sight(look)' # Null
      BY <1>1, <1>7
    <3> QED
      BY <1>1, <1>7, <3>1 DEF Sight
  <2> QED
    BY <1>1, <1>3, <1>7, <2>1, <2>3, <2>4
<1> QED
  BY <1>1, <1>2, <1>4, <1>5, <1>6, <1>7 DEF LookInv

(* The loads of the looking thread, and its answers.                       *)
LEMMA MomentStep ==
  ASSUME TypeOK, TypeOK', SerialInv, ~raced, MomentInv, LookNext
  PROVE  MomentInv'
<1> USE DEF Calls, Answered
<1>0. mInputIndex \in Slots /\ mOutputIndex \in Slots
  BY DEF TypeOK
<1>1. CASE Meanwhile
  <2>1. LookInv'
    BY <1>1, LookInvMeanwhile DEF MomentInv
  <2>2. look' \notin Answered
    BY <1>1 DEF Meanwhile
  <2> QED
    BY <2>1, <2>2 DEF MomentInv, SizeOfAMoment, EmptyOfAMoment, FrontOfAMoment
<1>2. ASSUME look' \in Calls, LookInv'
      PROVE  MomentInv'
  BY <1>2 DEF MomentInv, SizeOfAMoment, EmptyOfAMoment, FrontOfAMoment
<1>3. ASSUME look' \notin Calls, SizeOfAMoment', EmptyOfAMoment', FrontOfAMoment'
      PROVE  MomentInv'
  BY <1>3 DEF MomentInv, LookInv
<1>4. Size = SizeOf(mInputIndex, mOutputIndex)
  BY DEF Size, SizeOf
<1>5. ASSUME NEW call \in Calls, NEW index \in Slots, Begin(call, index),
             call \in HasInput => index = mInputIndex,
             call \in HasOutput => index = mOutputIndex,
             call # "sizeBelow"
      PROVE  MomentInv'
  <2>1. /\ look' = call /\ loaded' = index /\ seen' = {Sight(call)} /\ moved' = {}
        /\ UNCHANGED << mInputIndex, mOutputIndex, mBuffer >>
    BY <1>5 DEF Begin, queueVars
  <2>2. Sight(call)' = Sight(call)
    BY <2>1 DEF Sight, Size
  <2>3. call \in HasInput => SizeOf(loaded, mOutputIndex)' = Sight(call)
    BY <1>4, <1>5, <2>1 DEF Sight, SizeOf, HasInput
  <2>4. call = "emptyOutput" => SizeOf(mInputIndex, loaded)' = Sight(call)
    BY <1>4, <1>5, <2>1 DEF Sight, SizeOf, HasOutput
  <2>5. call = "frontOutput" /\ Null # Sight(call) => Sight(call) = mBuffer[mOutputIndex]
    BY DEF Sight
  <2>6. LookInv'
    BY <1>5, <2>1, <2>2, <2>3, <2>4, <2>5 DEF LookInv
  <2> QED
    BY <1>2, <1>5, <2>1, <2>6
<1>6. CASE SizeLoadInput
  BY <1>0, <1>5, <1>6 DEF SizeLoadInput, HasInput, HasOutput
<1>7. CASE EmptyLoadOne
  BY <1>0, <1>5, <1>7 DEF EmptyLoadOne, HasInput, HasOutput
<1>8. CASE FrontLoadOutput
  BY <1>0, <1>5, <1>8 DEF FrontLoadOutput, HasInput, HasOutput
<1>9. ASSUME look \in Calls
      PROVE  LookInv /\ loaded \in Slots
  BY <1>9 DEF MomentInv, LookInv
<1>10. CASE SizeLoadOutput
  <2>1. look = "sizeInput" /\ LookInv /\ loaded \in Slots /\ UNCHANGED << queueVars, seen, moved >>
    BY <1>9, <1>10 DEF SizeLoadOutput, Answer, Load
  <2>2. CASE loaded >= mOutputIndex /\ Answer("sizeInput", "sized", loaded - mOutputIndex)
    <3>1. answer' = SizeOf(loaded, mOutputIndex) /\ look' = "sized"
      BY <2>2 DEF Answer, SizeOf
    <3>2. "pop" \notin moved => answer' \in seen
      BY <2>1, <3>1 DEF LookInv, HasInput
    <3>3. "push" \notin moved => answer' \in seen
      BY <1>4, <2>1, <3>1 DEF LookInv, HasInput, Sight
    <3> QED
      BY <1>3, <2>1, <3>1, <3>2, <3>3 DEF SizeOfAMoment, EmptyOfAMoment, FrontOfAMoment
  <2>3. CASE loaded < mOutputIndex /\ Load("sizeInput", "sizeBelow", loaded)
    <3>1. look' = "sizeBelow" /\ loaded' = loaded
      BY <2>3 DEF Load
    <3>2. LookInv'
      <4>1. Sight(look)' = Sight(look)
        BY <2>1, <3>1 DEF Sight, Size, queueVars
      <4> QED
        BY <2>1, <2>3, <3>1, <4>1 DEF LookInv, HasInput, HasOutput, SizeOf, queueVars
    <3> QED
      BY <1>2, <3>1, <3>2
  <2> QED
    BY <1>10, <2>2, <2>3 DEF SizeLoadOutput
<1>11. CASE SizeReloadOutput
  <2>1. /\ look = "sizeBelow" /\ LookInv /\ loaded \in Slots /\ UNCHANGED << seen, moved >>
        /\ look' = "sized" /\ answer' = QueueMaxSize - mOutputIndex + loaded
    BY <1>9, <1>11 DEF SizeReloadOutput, Answer
  <2>2. "pop" \notin moved => answer' \in seen
    BY <1>0, <2>1, QueueAssumption DEF LookInv, HasInput, SizeOf, Slots
  <2>3. "push" \notin moved => answer' \in seen \/ answer' - QueueMaxSize \in seen
    <3>1. ASSUME "push" \notin moved
          PROVE  answer' \in seen \/ answer' - QueueMaxSize \in seen
      <4>1. loaded = mInputIndex /\ SizeOf(loaded, mOutputIndex) \in seen
        BY <1>4, <2>1, <3>1 DEF LookInv, HasInput, Sight
      <4>2. CASE loaded >= mOutputIndex
        <5>1. answer' - QueueMaxSize = SizeOf(loaded, mOutputIndex)
          BY <1>0, <2>1, <4>2, QueueAssumption DEF SizeOf, Slots
        <5> QED
          BY <4>1, <5>1
      <4>3. CASE ~(loaded >= mOutputIndex)
        BY <2>1, <4>1, <4>3 DEF SizeOf
      <4> QED
        BY <4>2, <4>3
    <3> QED
      BY <3>1
  <2> QED
    BY <1>3, <2>1, <2>2, <2>3 DEF SizeOfAMoment, EmptyOfAMoment, FrontOfAMoment
<1>12. CASE EmptyLoadOther
  <2>1. /\ look \in {"emptyInput", "emptyOutput"} /\ LookInv /\ loaded \in Slots
        /\ UNCHANGED << seen, moved >> /\ look' = "emptied" /\ moved \subseteq {"push", "pop"}
        /\ answer' = IF look = "emptyInput" THEN loaded = mOutputIndex ELSE loaded = mInputIndex
    BY <1>9, <1>12 DEF EmptyLoadOther, Answer, LookInv
  <2>2. ASSUME moved # {"push", "pop"}
        PROVE  \E s \in seen : s = 0 <=> answer'
    <3>1. Size \in seen /\ (Size = 0 <=> mInputIndex = mOutputIndex)
      BY <1>0, <1>4, <2>1, SizeOfMeeting DEF LookInv, Sight
    <3>2. CASE look = "emptyInput"
      <4>1. answer' <=> loaded = mOutputIndex
        BY <2>1, <3>2
      <4>2. CASE "push" \notin moved
        BY <2>1, <3>1, <3>2, <4>1, <4>2 DEF LookInv, HasInput
      <4>3. CASE "pop" \notin moved
        <5>1. SizeOf(loaded, mOutputIndex) \in seen
          BY <2>1, <3>2, <4>3 DEF LookInv, HasInput
        <5> QED
          BY <1>0, <2>1, <4>1, <5>1, SizeOfMeeting
      <4> QED
        BY <2>1, <2>2, <4>2, <4>3
    <3>3. CASE look = "emptyOutput"
      <4>1. answer' <=> loaded = mInputIndex
        BY <2>1, <3>3
      <4>2. CASE "pop" \notin moved
        BY <2>1, <3>1, <3>3, <4>1, <4>2 DEF LookInv, HasOutput
      <4>3. CASE "push" \notin moved
        <5>1. SizeOf(mInputIndex, loaded) \in seen
          BY <2>1, <3>3, <4>3 DEF LookInv, HasOutput
        <5> QED
          BY <1>0, <2>1, <4>1, <5>1, SizeOfMeeting
      <4> QED
        BY <2>1, <2>2, <4>2, <4>3
    <3> QED
      BY <2>1, <3>2, <3>3
  <2>3. EmptyOfAMoment'
    BY <2>1, <2>2 DEF EmptyOfAMoment
  <2> QED
    BY <1>3, <2>1, <2>3 DEF SizeOfAMoment, FrontOfAMoment
<1>13. CASE FrontRead
  <2>1. /\ look = "frontOutput" /\ LookInv /\ look' = "fronted" /\ answer' = mBuffer[loaded]
        /\ UNCHANGED << seen, moved >>
    BY <1>9, <1>13 DEF FrontRead, Answer
  <2>2. FrontOfAMoment'
    BY <2>1 DEF FrontOfAMoment, LookInv, HasOutput
  <2> QED
    BY <1>3, <2>1, <2>2 DEF SizeOfAMoment, EmptyOfAMoment
<1>14. CASE Use
  BY <1>3, <1>14 DEF Use, SizeOfAMoment, EmptyOfAMoment, FrontOfAMoment
<1> QED
  BY <1>1, <1>6, <1>7, <1>8, <1>10, <1>11, <1>12, <1>13, <1>14 DEF LookNext, Look

(* size(), empty() and Front() answer with what was true at a moment of    *)
(* the call, whatever pushes and pops finish between their loads (as long  *)
(* as the pushes are kept apart, and the pops), for a queue of any size.   *)
THEOREM MomentCorrect ==
  LookSpec => [](SizeOfAMoment /\ EmptyOfAMoment /\ FrontOfAMoment)
<1>1. LookInit => MomentInv
  BY DEF LookInit, MomentInv, LookInv, Calls, SizeOfAMoment, EmptyOfAMoment, FrontOfAMoment
<1>2. /\ TypeOK /\ TypeOK' /\ SerialInv /\ ~raced /\ MomentInv
      /\ [LookNext /\ ~raced']_allVars
      => MomentInv'
  <2> SUFFICES ASSUME TypeOK, TypeOK', SerialInv, ~raced, MomentInv,
                      [LookNext /\ ~raced']_allVars
               PROVE  MomentInv'
    OBVIOUS
  <2>1. CASE UNCHANGED allVars
    BY <2>1 DEF allVars, queueVars, lookVars, MomentInv, LookInv, Sight, Size, SizeOf,
                SizeOfAMoment, EmptyOfAMoment, FrontOfAMoment
  <2>2. CASE LookNext
    BY <2>2, MomentStep
  <2> QED
    BY <2>1, <2>2
<1>3. MomentInv => SizeOfAMoment /\ EmptyOfAMoment /\ FrontOfAMoment
  BY DEF MomentInv
<1> QED
  BY <1>1, <1>2, <1>3, LookIsSerial, TypeCorrect, SerialCorrect, PTL DEF LookSpec, allVars

=============================================================================
