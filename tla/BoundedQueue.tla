---------------------------- MODULE BoundedQueue ----------------------------
(***************************************************************************)
(* What a bounded FIFO queue promises the threads that share it: a push    *)
(* moves the value in the caller's hand to the end of the queue, a pop     *)
(* moves the value at its front into the caller's hand, each in one step,  *)
(* and the queue never holds more than Capacity values.  A call that finds *)
(* the queue full or empty changes nothing.                                *)
(***************************************************************************)
EXTENDS Naturals, Sequences

CONSTANTS
  Threads,   (* the threads that call push() and pop()          *)
  Values,    (* the values that can be queued                   *)
  Null,      (* an empty hand                                   *)
  Capacity   (* the number of values the queue can hold at once *)

VARIABLES
  queue,     (* the queued values, the oldest first             *)
  hand       (* the value each thread holds outside the queue   *)

vars == << queue, hand >>

Init ==
  /\ queue = << >>
  /\ hand  = [t \in Threads |-> Null]

(* Between two calls a thread may come by any value, or let go of its own. *)
Bring(t, v) ==
  /\ hand' = [hand EXCEPT ![t] = v]
  /\ UNCHANGED queue

Push(t) ==
  /\ hand[t] \in Values
  /\ Len(queue) < Capacity
  /\ queue' = Append(queue, hand[t])
  /\ hand'  = [hand EXCEPT ![t] = Null]

Pop(t) ==
  /\ hand[t] = Null
  /\ queue # << >>
  /\ hand'  = [hand EXCEPT ![t] = Head(queue)]
  /\ queue' = Tail(queue)

Next ==
  \E t \in Threads :
    \/ \E v \in Values \cup {Null} : Bring(t, v)
    \/ Push(t)
    \/ Pop(t)

Spec == Init /\ [][Next]_vars

=============================================================================
