----------------------------- MODULE ContextPool -----------------------------
(***************************************************************************)
(* Network::mOverlappedQueue: the queue used as the pool of the program's  *)
(* CustomOverlapped contexts.                                              *)
(*                                                                         *)
(* Network::Start makes contextMax = threadCount * clientCount contexts    *)
(* and pushes each into a queue of contextMax + 1 slots before any other   *)
(* thread exists.  From then on a thread only pushes a context it holds:   *)
(* one it popped, or one that GetQueuedCompletionStatus gave it.  A        *)
(* context that is neither in the queue nor held is away: the system uses  *)
(* it for an operation, its completion waits at the port, or an early      *)
(* return dropped it.                                                      *)
(***************************************************************************)
EXTENDS CircleQueue, FiniteSets

Contexts == Values

ASSUME PoolAssumption ==
  /\ IsFiniteSet(Contexts)
  /\ QueueMaxSize = Cardinality(Contexts) + 1

VARIABLE away      (* the contexts outside the pool that no thread holds   *)

poolVars == << queueVars, away >>

PoolTypeOK == TypeOK /\ away \subseteq Contexts

(* Construct(contextMax + 1) and one push per new context. *)
PoolInit ==
  /\ mInputIndex  = QueueMaxSize - 1
  /\ mOutputIndex = 0
  /\ mBuffer \in [Slots -> Contexts \cup {Uninit}]
  /\ \A i \in Slots : mBuffer[i] = Uninit <=> i = QueueMaxSize - 1
  /\ \A i, j \in Slots : mBuffer[i] = mBuffer[j] => i = j
  /\ \A x \in Contexts : \E i \in Slots : mBuffer[i] = x
  /\ pc    = [t \in Threads |-> "idle"]
  /\ cur   = [t \in Threads |-> 0]
  /\ hand  = [t \in Threads |-> Null]
  /\ raced = FALSE
  /\ away  = {}

(* Slip: the caller goes on using a context it has handed over. *)
HandOverAndKeep(t) ==
  /\ pc[t] = "idle"
  /\ hand[t] \in Contexts
  /\ away' = away \cup {hand[t]}
  /\ UNCHANGED queueVars

(* ConnectEx, ReceiveReady or Send is called with the context, or the      *)
(* thread lets it go without a push.                                       *)
HandOver(t) ==
  /\ pc[t] = "idle"
  /\ hand[t] \in Contexts
  /\ away' = away \cup {hand[t]}
  /\ hand' = [hand EXCEPT ![t] = Null]
  /\ UNCHANGED << mInputIndex, mOutputIndex, mBuffer, pc, cur, raced >>

(* GetQueuedCompletionStatus returns with the context x.  A context that a *)
(* race gave to two owners may be out twice.                               *)
TakeOver(t, x) ==
  /\ pc[t] = "idle"
  /\ hand[t] = Null
  /\ x \in away
  /\ away' = away \ {x} \/ (raced /\ away' = away)
  /\ hand' = [hand EXCEPT ![t] = x]
  /\ UNCHANGED << mInputIndex, mOutputIndex, mBuffer, pc, cur, raced >>

PoolNext ==
  \E t \in Threads :
    \/ QueueStep(t) /\ UNCHANGED away
    \/ HandOver(t)
    \/ \E x \in Contexts : TakeOver(t, x)

PoolSpec == PoolInit /\ [][PoolNext]_poolVars
-----------------------------------------------------------------------------
(* A slot's value is the queue's from mOutputIndex up to mInputIndex; a    *)
(* thread's from the store of mOutputIndex that ends its pop to the store  *)
(* of mInputIndex that ends its push.                                      *)
Queued == {mBuffer[i] : i \in InUse}
Held   == {HandOutside[t] : t \in Threads} \ {Null}

(* Every context has one owner: the queue in one slot, one thread, or the  *)
(* outside; none is lost and none is handed out twice, as long as no two   *)
(* pushes and no two pops have overlapped (Network.cpp 144, 175, 177).     *)
OneOwner ==
  ~raced =>
    /\ \A i, j \in InUse : mBuffer[i] = mBuffer[j] => i = j
    /\ \A t, u \in Threads : HandOutside[t] = HandOutside[u] /\ t # u => HandOutside[t] = Null
    /\ Queued \cap Held = {} /\ Queued \cap away = {} /\ Held \cap away = {}
    /\ Contexts = Queued \cup Held \cup away

(* The header promises that push() and pop() move the ownership of what is *)
(* queued (LockFreeCircleQueue.h 34-36): two threads that are done with    *)
(* their calls never hold the same context.                                *)
MovesOwnership ==
  \A t, u \in Threads :
    t # u /\ pc[t] = "idle" /\ pc[u] = "idle" /\ hand[t] = hand[u] => hand[t] = Null

(* A context that is given back always finds room: no caller of push()     *)
(* looks at its result (Network.cpp 144, 175, 198, 215, 221).              *)
GivingBackNeverFails ==
  ~raced => \A t \in Threads :
              pc[t] = "pushLoaded" => Following(cur[t]) # mOutputIndex

(* What makes the next property inductive: a slot nobody has written is    *)
(* the last one, no push has gone past it, and no pop looks at it.         *)
UnwrittenIsAhead ==
  /\ \A i \in Slots : mBuffer[i] = Uninit =>
       /\ i = QueueMaxSize - 1 /\ mInputIndex = i
       /\ \A t \in Pushing : cur[t] = i /\ pc[t] # "pushWritten"
  /\ \A t \in Threads : pc[t] = "popHasItem" => mBuffer[cur[t]] # Uninit

(* However the calls interleave, pop() never returns the one slot that     *)
(* Start leaves unwritten: a popped pointer is null or a real context      *)
(* (Network.cpp 85, 108, 177; main.cpp 48).                                *)
NeverPopsUninit == \A t \in Threads : hand[t] # Uninit

=============================================================================
