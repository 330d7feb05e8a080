----------------------------- MODULE CircleQueue -----------------------------
(***************************************************************************)
(* Utility::LockFreeCircleQueue<T> (include/LockFreeCircleQueue.h), one    *)
(* action per access to shared memory.                                     *)
(*                                                                         *)
(* push() and pop() are plain sequences of atomic loads and stores, with   *)
(* no compare-and-swap and no lock, so the calls of several threads        *)
(* interleave at every access.  Each thread is either between two calls or *)
(* at one of the points named by pc:                                       *)
(*                                                                         *)
(*   push:  idle -> pushLoaded -> pushHasRoom -> pushWritten -> idle       *)
(*                       \-> idle            (the queue is full: false)    *)
(*   pop:   idle -> popLoaded  -> popHasItem  -> popRead     -> idle       *)
(*                       \-> idle            (the queue is empty: T())     *)
(*                                                                         *)
(* A "slip" is a mistake the code does not make: an operation as a likely  *)
(* error would have it, which a property of the model refutes.             *)
(*                                                                         *)
(* hand[t] is what t holds outside the queue: the argument of the push it  *)
(* is in, or the result of its last pop.  The slots of the buffer are      *)
(* machine words, so that an unsynchronised read of a slot returns one of  *)
(* the values written there, or Uninit if there was none.                  *)
(***************************************************************************)
EXTENDS Integers, Sequences

CONSTANTS
  Threads,        (* the threads that call push() and pop()                *)
  Values,         (* the values of T that are queued                       *)
  Null,           (* T(): what pop() returns when it finds no value        *)
  Uninit,         (* the content of a slot of new T[queueMaxSize]          *)
  QueueMaxSize    (* the argument of Construct()                           *)

ASSUME QueueAssumption ==
  /\ QueueMaxSize \in Nat \ {0}
  /\ Null \notin Values
  /\ Uninit \notin Values \cup {Null}

VARIABLES
  mInputIndex,    (* the slot the next push writes                         *)
  mOutputIndex,   (* the slot the next pop reads                           *)
  mBuffer,        (* the ring of slots                                     *)
  pc,             (* where each thread is inside push() or pop()           *)
  cur,            (* its currentInputIndex or currentOutputIndex, 0 outside*)
  hand,           (* the value it holds outside the queue                  *)
  raced           (* history: two pushes, or two pops, have overlapped     *)

queueVars == << mInputIndex, mOutputIndex, mBuffer, pc, cur, hand, raced >>

Slots    == 0 .. QueueMaxSize - 1
PushPcs  == {"pushLoaded", "pushHasRoom", "pushWritten"}
PopPcs   == {"popLoaded", "popHasItem", "popRead"}
Pushing  == {t \in Threads : pc[t] \in PushPcs}
Popping  == {t \in Threads : pc[t] \in PopPcs}

(* Slip: an index that does not wrap around. *)
FollowingUnwrapped(i) == i + 1

(* (index + 1) % mQueueMaxSize *)
Following(i) == (i + 1) % QueueMaxSize

TypeOK ==
  /\ mInputIndex  \in Slots
  /\ mOutputIndex \in Slots
  /\ mBuffer      \in [Slots -> Values \cup {Uninit}]
  /\ pc           \in [Threads -> {"idle"} \cup PushPcs \cup PopPcs]
  /\ cur          \in [Threads -> Slots]
  /\ hand         \in [Threads -> Values \cup {Null, Uninit}]
  /\ raced        \in BOOLEAN
  /\ \A t \in Threads : pc[t] \in PushPcs => hand[t] \in Values
  /\ \A t \in Threads : pc[t] \in {"popLoaded", "popHasItem"} => hand[t] = Null

(* The constructor, then Construct(QueueMaxSize). *)
Init ==
  /\ mInputIndex  = 0
  /\ mOutputIndex = 0
  /\ mBuffer = [i \in Slots   |-> Uninit]
  /\ pc      = [t \in Threads |-> "idle"]
  /\ cur     = [t \in Threads |-> 0]
  /\ hand    = [t \in Threads |-> Null]
  /\ raced   = FALSE

(* The call of t returns, and its locals with it. *)
Return(t) ==
  /\ pc'  = [pc EXCEPT ![t] = "idle"]
  /\ cur' = [cur EXCEPT ![t] = 0]
-----------------------------------------------------------------------------
(***************************************************************************)
(* push(T&& data), with data = hand[t].                                    *)
(***************************************************************************)
PushLoadInput(t) ==
  /\ pc[t] = "idle"
  /\ hand[t] \in Values
  /\ cur'   = [cur EXCEPT ![t] = mInputIndex]
  /\ pc'    = [pc EXCEPT ![t] = "pushLoaded"]
  /\ raced' = (raced \/ Pushing # {})
  /\ UNCHANGED << mInputIndex, mOutputIndex, mBuffer, hand >>

(* Slip: one slot too many is kept free. *)
PushFullEarly(t) ==
  /\ pc[t] = "pushLoaded"
  /\ Following(cur[t]) = mOutputIndex \/ Following(Following(cur[t])) = mOutputIndex
  /\ Return(t)
  /\ UNCHANGED << mInputIndex, mOutputIndex, mBuffer, hand, raced >>

(* The next slot is the one being popped from: false, data is not taken. *)
PushFull(t) ==
  /\ pc[t] = "pushLoaded"
  /\ Following(cur[t]) = mOutputIndex
  /\ Return(t)
  /\ UNCHANGED << mInputIndex, mOutputIndex, mBuffer, hand, raced >>

(* Slip: no slot is kept free between the newest and the oldest value. *)
PushUnchecked(t) ==
  /\ pc[t] = "pushLoaded"
  /\ pc' = [pc EXCEPT ![t] = "pushHasRoom"]
  /\ UNCHANGED << mInputIndex, mOutputIndex, mBuffer, cur, hand, raced >>

(* Slip: mInputIndex is stored before the slot is written. *)
PushPublishesEarly(t) ==
  /\ pc[t] = "pushLoaded"
  /\ Following(cur[t]) # mOutputIndex
  /\ mInputIndex' = Following(cur[t])
  /\ pc' = [pc EXCEPT ![t] = "pushHasRoom"]
  /\ UNCHANGED << mOutputIndex, mBuffer, cur, hand, raced >>

PushHasRoom(t) ==
  /\ pc[t] = "pushLoaded"
  /\ Following(cur[t]) # mOutputIndex
  /\ pc' = [pc EXCEPT ![t] = "pushHasRoom"]
  /\ UNCHANGED << mInputIndex, mOutputIndex, mBuffer, cur, hand, raced >>

PushWrite(t) ==
  /\ pc[t] = "pushHasRoom"
  /\ mBuffer' = [mBuffer EXCEPT ![cur[t]] = hand[t]]
  /\ pc'      = [pc EXCEPT ![t] = "pushWritten"]
  /\ UNCHANGED << mInputIndex, mOutputIndex, cur, hand, raced >>

PushStoreInput(t) ==
  /\ pc[t] = "pushWritten"
  /\ mInputIndex' = Following(cur[t])
  /\ Return(t)
  /\ hand' = [hand EXCEPT ![t] = Null]
  /\ UNCHANGED << mOutputIndex, mBuffer, raced >>
-----------------------------------------------------------------------------
(***************************************************************************)
(* T pop(), whose result goes to hand[t].                                  *)
(***************************************************************************)
PopLoadOutput(t) ==
  /\ pc[t] = "idle"
  /\ hand[t] = Null
  /\ cur'   = [cur EXCEPT ![t] = mOutputIndex]
  /\ pc'    = [pc EXCEPT ![t] = "popLoaded"]
  /\ raced' = (raced \/ Popping # {})
  /\ UNCHANGED << mInputIndex, mOutputIndex, mBuffer, hand >>

(* Slip: the last queued value is never popped. *)
PopEmptyEarly(t) ==
  /\ pc[t] = "popLoaded"
  /\ cur[t] = mInputIndex \/ Following(cur[t]) = mInputIndex
  /\ Return(t)
  /\ UNCHANGED << mInputIndex, mOutputIndex, mBuffer, hand, raced >>

(* Nothing between the two indices: T() is returned. *)
PopEmpty(t) ==
  /\ pc[t] = "popLoaded"
  /\ cur[t] = mInputIndex
  /\ Return(t)
  /\ UNCHANGED << mInputIndex, mOutputIndex, mBuffer, hand, raced >>

(* Slip: the queue is not checked to hold a value. *)
PopUnchecked(t) ==
  /\ pc[t] = "popLoaded"
  /\ pc' = [pc EXCEPT ![t] = "popHasItem"]
  /\ UNCHANGED << mInputIndex, mOutputIndex, mBuffer, cur, hand, raced >>

PopHasItem(t) ==
  /\ pc[t] = "popLoaded"
  /\ cur[t] # mInputIndex
  /\ pc' = [pc EXCEPT ![t] = "popHasItem"]
  /\ UNCHANGED << mInputIndex, mOutputIndex, mBuffer, cur, hand, raced >>

PopRead(t) ==
  /\ pc[t] = "popHasItem"
  /\ hand' = [hand EXCEPT ![t] = mBuffer[cur[t]]]
  /\ pc'   = [pc EXCEPT ![t] = "popRead"]
  /\ UNCHANGED << mInputIndex, mOutputIndex, mBuffer, cur, raced >>

(* Slip: the value is returned and left in the queue, as Front() would. *)
PopAsFront(t) ==
  /\ pc[t] = "popRead"
  /\ Return(t)
  /\ UNCHANGED << mInputIndex, mOutputIndex, mBuffer, hand, raced >>

PopStoreOutput(t) ==
  /\ pc[t] = "popRead"
  /\ mOutputIndex' = Following(cur[t])
  /\ Return(t)
  /\ UNCHANGED << mInputIndex, mBuffer, hand, raced >>
-----------------------------------------------------------------------------
(* One access of a push() or a pop() by t. *)
QueueStep(t) ==
  \/ PushLoadInput(t)
  \/ PushFull(t)
  \/ PushHasRoom(t)
  \/ PushWrite(t)
  \/ PushStoreInput(t)
  \/ PopLoadOutput(t)
  \/ PopEmpty(t)
  \/ PopHasItem(t)
  \/ PopRead(t)
  \/ PopStoreOutput(t)

(* Between two calls t may come by any value, or let go of its own. *)
Bring(t, v) ==
  /\ pc[t] = "idle"
  /\ hand' = [hand EXCEPT ![t] = v]
  /\ UNCHANGED << mInputIndex, mOutputIndex, mBuffer, pc, cur, raced >>

Next ==
  \E t \in Threads :
    \/ QueueStep(t)
    \/ \E v \in Values \cup {Null} : Bring(t, v)

Spec == Init /\ [][Next]_queueVars

(* The callers keep their pushes apart and their pops apart; a push and a  *)
(* pop may still overlap.                                                  *)
SerialSpec == Init /\ [][Next /\ ~raced']_queueVars
-----------------------------------------------------------------------------
(***************************************************************************)
(* The queue the buffer stands for.                                        *)
(***************************************************************************)

(* size(), of one snapshot of the two indices. *)
Size ==
  IF mInputIndex >= mOutputIndex
  THEN mInputIndex - mOutputIndex
  ELSE QueueMaxSize - mOutputIndex + mInputIndex

(* The k-th queued value is in the k-th slot after mOutputIndex (print()). *)
SlotOf(k) == (mOutputIndex + k) % QueueMaxSize

Contents == [k \in 1 .. Size |-> mBuffer[SlotOf(k - 1)]]

(* A value that pop() has read is still the queue's until mOutputIndex is  *)
(* stored.                                                                 *)
HandOutside == [t \in Threads |-> IF pc[t] = "popRead" THEN Null ELSE hand[t]]

Abstract == INSTANCE BoundedQueue
              WITH queue    <- Contents,
                   hand     <- HandOutside,
                   Capacity <- QueueMaxSize - 1

-----------------------------------------------------------------------------
(***************************************************************************)
(* What holds as long as no two pushes and no two pops have overlapped.    *)
(***************************************************************************)

(* The slots from index o up to, not including, index n, around the ring. *)
FromUpTo(o, n) ==
  {i \in Slots : IF o <= n THEN o <= i /\ i < n ELSE o <= i \/ i < n}

InUse == FromUpTo(mOutputIndex, mInputIndex)

OneOfAKind ==
  /\ \A t, u \in Pushing : t = u
  /\ \A t, u \in Popping : t = u

(* The index a call loaded, and what it found there, are still true at each *)
(* later access of the call, whatever the opposite call does meanwhile.     *)
PushIsCurrent(t) ==
  /\ pc[t] \in PushPcs => cur[t] = mInputIndex
  /\ pc[t] \in {"pushHasRoom", "pushWritten"} =>
       Following(mInputIndex) # mOutputIndex
  /\ pc[t] = "pushWritten" => mBuffer[mInputIndex] = hand[t]

PopIsCurrent(t) ==
  /\ pc[t] \in PopPcs => cur[t] = mOutputIndex
  /\ pc[t] \in {"popHasItem", "popRead"} => mOutputIndex # mInputIndex
  /\ pc[t] = "popRead" => hand[t] = mBuffer[mOutputIndex]

(* No call works on a stale index: if no two calls of a kind have          *)
(* overlapped, a push in progress owns the slot at mInputIndex and a pop   *)
(* in progress the slot at mOutputIndex, and every slot between the        *)
(* indices has been written (lines 39-49 and 55-65 of the header).         *)
SerialInv ==
  ~raced =>
    /\ OneOfAKind
    /\ \A t \in Threads : PushIsCurrent(t) /\ PopIsCurrent(t) /\ hand[t] # Uninit
    /\ \A i \in InUse : mBuffer[i] \in Values

(* Calls kept apart by kind implement the bounded queue: every value       *)
(* pushed is popped once, in order, and at most QueueMaxSize - 1 values    *)
(* are queued (the comment on mQueueMaxSize, line 12).                     *)
ImplementsBoundedQueue == Abstract!Spec

(* push() returns false only when QueueMaxSize - 1 values are queued, and  *)
(* pop() returns T() only when none is (the early returns, lines 42-46 and *)
(* 57-61).                                                                 *)
RefusesOnlyFullOrEmpty ==
  [][\A t \in Threads : ~raced /\ pc'[t] = "idle" =>
       /\ pc[t] = "pushLoaded" => Size = QueueMaxSize - 1
       /\ pc[t] = "popLoaded"  => Size = 0]_queueVars

=============================================================================
