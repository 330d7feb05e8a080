--------------------------- MODULE CircleQueueSize ---------------------------
(***************************************************************************)
(* The calls of LockFreeCircleQueue that only look at it: size(), empty()  *)
(* and Front(), one action per atomic load, by a thread of their own while *)
(* others push and pop.  Each of them loads the two indices, or an index   *)
(* and a slot, at different moments; the properties say when the answer is *)
(* nevertheless one that was right at some moment of the call.             *)
(*                                                                         *)
(*   size:   none -> sizeInput -> answered                                 *)
(*                       \-> sizeBelow -> answered   (the indices wrapped) *)
(*   empty:  none -> emptyInput or emptyOutput -> answered                 *)
(*   Front:  none -> frontOutput -> answered                               *)
(***************************************************************************)
EXTENDS CircleQueue

VARIABLES
  look,     (* where the looking thread is: the call and its last load     *)
  loaded,   (* the index it loaded last                                    *)
  answer,   (* what the call returned, 0 before                            *)
  seen,     (* history: what the call asks for, at each of its moments     *)
  moved     (* history: the calls that have stored an index since it began *)

lookVars == << look, loaded, answer, seen, moved >>

Calls    == {"sizeInput", "sizeBelow", "emptyInput", "emptyOutput", "frontOutput"}
Answered == {"sized", "emptied", "fronted"}

LookInit ==
  /\ Init
  /\ look = "none" /\ loaded = 0 /\ answer = 0
  /\ seen = {} /\ moved = {}

(* The oldest value for Front(), the number of values for the others.      *)
Sight(call) ==
  IF call # "frontOutput" THEN Size ELSE
  IF Size = 0 THEN Null ELSE mBuffer[mOutputIndex]

Begin(call, index) ==
  /\ look = "none"
  /\ look'   = call
  /\ loaded' = index
  /\ seen'   = {Sight(call)} /\ moved' = {}
  /\ UNCHANGED << queueVars, answer >>

Load(from, to, index) ==
  /\ look = from
  /\ look'   = to
  /\ loaded' = index
  /\ UNCHANGED << queueVars, answer, seen, moved >>

Answer(from, to, result) ==
  /\ look = from
  /\ look'   = to
  /\ answer' = result
  /\ UNCHANGED << queueVars, loaded, seen, moved >>

SizeLoadInput == Begin("sizeInput", mInputIndex)

(* Slip: the difference is taken without a look at which index is ahead. *)
SizeSubtracts == Answer("sizeInput", "sized", loaded - mOutputIndex)

(* The output index is compared, and used at once if the input is ahead. *)
SizeLoadOutput ==
  \/ loaded >= mOutputIndex /\ Answer("sizeInput", "sized", loaded - mOutputIndex)
  \/ loaded <  mOutputIndex /\ Load("sizeInput", "sizeBelow", loaded)

(* The output index is loaded once more. *)
SizeReloadOutput ==
  Answer("sizeBelow", "sized", QueueMaxSize - mOutputIndex + loaded)

(* The two loads of empty() are the operands of ==, in either order. *)
EmptyLoadOne ==
  \/ Begin("emptyInput",  mInputIndex)
  \/ Begin("emptyOutput", mOutputIndex)

(* Slip: empty() as the full test of push(). *)
EmptyAsFull ==
  \/ Answer("emptyInput",  "emptied", Following(loaded) = mOutputIndex)
  \/ Answer("emptyOutput", "emptied", Following(loaded) = mInputIndex)

EmptyLoadOther ==
  \/ Answer("emptyInput",  "emptied", loaded = mOutputIndex)
  \/ Answer("emptyOutput", "emptied", loaded = mInputIndex)

FrontLoadOutput == Begin("frontOutput", mOutputIndex)

FrontRead == Answer("frontOutput", "fronted", mBuffer[loaded])

(* The answer is used and forgotten. *)
Use ==
  /\ look \in Answered
  /\ look' = "none" /\ loaded' = 0 /\ answer' = 0
  /\ seen' = {} /\ moved' = {}
  /\ UNCHANGED queueVars

Look ==
  \/ SizeLoadInput \/ SizeLoadOutput \/ SizeReloadOutput
  \/ EmptyLoadOne \/ EmptyLoadOther
  \/ FrontLoadOutput \/ FrontRead
  \/ Use

(* A step of the other threads, and what the looking thread misses of it. *)
Meanwhile ==
  /\ look \notin Answered
  /\ Next
  /\ UNCHANGED << look, loaded, answer >>
  /\ IF look = "none"
     THEN UNCHANGED << seen, moved >>
     ELSE /\ seen'  = seen \cup {Sight(look)'}
          /\ moved' = moved \cup (IF mInputIndex'  # mInputIndex  THEN {"push"} ELSE {})
                            \cup (IF mOutputIndex' # mOutputIndex THEN {"pop"}  ELSE {})

LookNext == Look \/ Meanwhile

(* Pushes are kept apart, and pops; the look overlaps with both. *)
LookSpec == LookInit /\ [][LookNext /\ ~raced']_<< queueVars, lookVars >>
-----------------------------------------------------------------------------
(* size() answers with a size the queue had during the call if no pop      *)
(* finished meanwhile.  If one did, the second load of mOutputIndex (line  *)
(* 82 of the header) may have wrapped around: the answer is then too large *)
(* by QueueMaxSize, and right but for that as long as no push finished.    *)
SizeOfAMoment ==
  look = "sized" =>
    /\ "pop"  \notin moved => answer \in seen
    /\ "push" \notin moved => answer \in seen \/ answer - QueueMaxSize \in seen

(* empty() tells what was true at some moment of the call, unless both a   *)
(* push and a pop finished between its two loads (line 70).                *)
EmptyOfAMoment ==
  look = "emptied" /\ moved # {"push", "pop"} =>
    IF answer THEN 0 \in seen ELSE seen # {0}

(* Front() returns the value that has been the oldest during the whole     *)
(* call, if there was one throughout and no pop finished: a push neither   *)
(* writes its slot nor lets it be seen before it is written (line 108).    *)
FrontOfAMoment ==
  look = "fronted" /\ "pop" \notin moved /\ Null \notin seen =>
    seen = {answer}

=============================================================================
