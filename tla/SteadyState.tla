----------------------------- MODULE SteadyState -----------------------------
(***************************************************************************)
(* The program once Start and Process have succeeded, for the question of  *)
(* what it does for ever: main sends to one client after the other, the    *)
(* workers take completions from the port, give contexts back and post the *)
(* next receive.                                                           *)
(*                                                                         *)
(* Module Network has every access of the queue as a step.  Here a call of *)
(* push() or pop() is two steps: it is entered, with the load of its own   *)
(* index, and left, with the store of that index or the answer that there  *)
(* is nothing.  The pool is the number of contexts in it.  That is what    *)
(* BoundedQueue says of calls that do not overlap with one of their kind,  *)
(* and GivingBackNeverFails of their room.  Nothing in the program keeps   *)
(* the calls apart: when two pushes, or two pops, have overlapped, `raced` *)
(* is set and the behaviour ends, as nothing is claimed of what follows.   *)
(* In return a completion is handed to the workers in the order in which   *)
(* it was queued, the contexts are counted where they are, and fairness    *)
(* can be stated thread by thread.                                         *)
(*                                                                         *)
(*   main:    pop --> popping --> send --> pop                             *)
(*                         \--> pop (no context: the client is passed over)*)
(*   worker:  wait --> giveBack --> pushing --> wait                       *)
(*                                       \--> rearmPop --> popping         *)
(*                                                 --> rearm --> wait      *)
(***************************************************************************)
EXTENDS Integers, Sequences, FiniteSets

CONSTANTS
  Workers,       (* the threads of Process()                               *)
  ThreadCount,   (* how many they are                                      *)
  ClientCount,   (* the number of clients                                  *)
  MaxOwed,       (* bound: the answers a server may owe to a connection    *)
  MaxTroubled    (* bound: the clients that may meet with trouble          *)

Clients    == 1 .. ClientCount
ContextMax == ThreadCount * ClientCount

(* Start and Process together pop two contexts per client. *)
ASSUME SteadyAssumption ==
  /\ ThreadCount \in Nat \ {0, 1}
  /\ IsFiniteSet(Workers) /\ Cardinality(Workers) = ThreadCount
  /\ ClientCount \in Nat \ {0}
  /\ MaxOwed \in Nat \ {0} /\ MaxTroubled \in Nat

VARIABLES
  pool,      (* the number of contexts in mOverlappedQueue                 *)
  mainAt,    (* where main is: before its pop, in it, or with a context    *)
  i,         (* the client main has come to                                *)
  at,        (* where each worker is                                       *)
  client,    (* the client a worker will post a receive for                *)
  sends,     (* the sends in progress, by client                           *)
  receiving, (* the clients that have a receive posted                     *)
  owed,      (* requests the server has and has not answered               *)
  port,      (* the completions queued at mIocp, the oldest first          *)
  closed,    (* the clients whose connection the server has closed         *)
  troubled,  (* history: those and the clients that a call was refused for *)
             (* or that got a message that was not a whole response        *)
  raced,     (* history: two pushes, or two pops, have overlapped          *)
  crashed    (* a null pointer was used                                    *)

mainVars   == << mainAt, i >>
workerVars == << at, client >>
systemVars == << sends, receiving, owed, port, closed >>
ends       == << raced, crashed >>
vars == << pool, mainVars, workerVars, systemVars, troubled, ends >>

(* What has completed: a connect or a send, or a receive of a whole        *)
(* response, of a part of one, or of what has no known type; or a failure. *)
Results == {"done", "response", "part", "unknown", "failed"}
Completions == [client : Clients, what : Results]
WorkerLabels == {"wait", "giveBack", "pushing", "rearmPop", "popping", "rearm"}

TypeOK ==
  /\ pool \in 0 .. ContextMax
  /\ mainAt \in {"pop", "popping", "send"} /\ i \in Clients
  /\ at \in [Workers -> WorkerLabels]
  /\ client \in [Workers -> Clients \cup {0}]
  /\ sends \in [Clients -> 0 .. ContextMax]
  /\ receiving \subseteq Clients /\ closed \subseteq troubled /\ troubled \subseteq Clients
  /\ owed \in [Clients -> 0 .. MaxOwed]
  /\ port \in Seq(Completions) /\ Len(port) <= ContextMax
  /\ raced \in BOOLEAN /\ crashed \in BOOLEAN

(* Every client is connected and armed, and its connect still to be handled. *)
Init ==
  /\ pool = ContextMax - 2 * ClientCount
  /\ mainAt = "pop" /\ i = 1
  /\ at = [t \in Workers |-> "wait"]
  /\ client = [t \in Workers |-> 0]
  /\ sends = [c \in Clients |-> 0]
  /\ receiving = Clients
  /\ owed = [c \in Clients |-> 0]
  /\ port = [c \in Clients |-> [client |-> c, what |-> "done"]]
  /\ closed = {} /\ troubled = {}
  /\ raced = FALSE /\ crashed = FALSE

(* A close, a refused call, or a message that is not a whole response.     *)
Trouble(c) ==
  /\ troubled' = troubled \cup {c}
  /\ Cardinality(troubled') <= MaxTroubled
-----------------------------------------------------------------------------
(***************************************************************************)
(* push() and pop(), as far as they tell who else is in them.              *)
(***************************************************************************)
Pushing == {t \in Workers : at[t] = "pushing"}
Popping == {t \in Workers : at[t] = "popping"}

EnterPush == raced' = (raced \/ Pushing # {})
EnterPop  == raced' = (raced \/ Popping # {} \/ mainAt = "popping")
-----------------------------------------------------------------------------
(***************************************************************************)
(* main                                                                    *)
(***************************************************************************)
(* Slip: the last client is followed by one that does not exist. *)
NextClientUnwrapped == i' = i + 1

NextClient == i' = (i % ClientCount) + 1

MainEntersPop ==
  /\ mainAt = "pop"
  /\ EnterPop
  /\ mainAt' = "popping"
  /\ UNCHANGED << pool, i, workerVars, systemVars, troubled, crashed >>

MainPop ==
  /\ mainAt = "popping"
  /\ \/ pool > 0 /\ pool' = pool - 1 /\ mainAt' = "send" /\ UNCHANGED i
     \/ pool = 0 /\ mainAt' = "pop" /\ NextClient /\ UNCHANGED pool
  /\ UNCHANGED << workerVars, systemVars, troubled, ends >>

(* Slip: a context whose send is refused goes back to the pool. *)
SendOrGiveBack ==
  /\ mainAt = "send"
  /\ \/ i \notin closed /\ sends' = [sends EXCEPT ![i] = @ + 1] /\ UNCHANGED pool
     \/ i \in closed    /\ pool' = pool + 1 /\ UNCHANGED sends
  /\ mainAt' = "pop"
  /\ NextClient
  /\ UNCHANGED << workerVars, receiving, owed, port, closed, troubled, ends >>

(* A send may be refused: its context is dropped. *)
MainSend ==
  /\ mainAt = "send"
  /\ \/ sends' = [sends EXCEPT ![i] = @ + 1] /\ UNCHANGED troubled
     \/ Trouble(i) /\ UNCHANGED sends
  /\ mainAt' = "pop"
  /\ NextClient
  /\ UNCHANGED << pool, workerVars, receiving, owed, port, closed, ends >>

Main == MainEntersPop \/ MainPop \/ MainSend
-----------------------------------------------------------------------------
(***************************************************************************)
(* The workers                                                             *)
(***************************************************************************)
(* Slip: the contexts of finished sends are not given back. *)
DroppedOrDone(r) == r.what \in {"failed", "unknown", "done"}

(* A failed completion and a message of no known type are dropped; what    *)
(* begins like a response is taken for one, and may make Work read what is *)
(* not there.                                                              *)
Dropped(r) == r.what \in {"failed", "unknown"}
Message(r) == r.what \in {"response", "part"}

(* GetQueuedCompletionStatus: the oldest completion, for whichever worker  *)
(* waits.                                                                  *)
Dequeue(t) ==
  /\ at[t] = "wait" /\ port # << >>
  /\ port' = Tail(port)
  /\ LET r == Head(port) IN
       \/ /\ Dropped(r)
          /\ UNCHANGED << workerVars, crashed >>
       \/ /\ ~Dropped(r)
          /\ at' = [at EXCEPT ![t] = "giveBack"]
          /\ client' = [client EXCEPT ![t] = IF Message(r) THEN r.client ELSE 0]
          /\ UNCHANGED crashed
       \/ /\ r.what = "part"
          /\ crashed' = TRUE
          /\ UNCHANGED workerVars
  /\ UNCHANGED << pool, mainVars, sends, receiving, owed, closed, troubled, raced >>

EntersPush(t) ==
  /\ at[t] = "giveBack"
  /\ EnterPush
  /\ at' = [at EXCEPT ![t] = "pushing"]
  /\ UNCHANGED << pool, mainVars, client, systemVars, troubled, crashed >>

(* Slip: the receive is not posted again. *)
GiveBackOnly(t) ==
  /\ at[t] = "pushing"
  /\ pool' = pool + 1
  /\ at' = [at EXCEPT ![t] = "wait"]
  /\ client' = [client EXCEPT ![t] = 0]
  /\ UNCHANGED << mainVars, systemVars, troubled, ends >>

GiveBack(t) ==
  /\ at[t] = "pushing"
  /\ pool' = pool + 1
  /\ at' = [at EXCEPT ![t] = IF client[t] = 0 THEN "wait" ELSE "rearmPop"]
  /\ UNCHANGED << mainVars, client, systemVars, troubled, ends >>

EntersPop(t) ==
  /\ at[t] = "rearmPop"
  /\ EnterPop
  /\ at' = [at EXCEPT ![t] = "popping"]
  /\ UNCHANGED << pool, mainVars, client, systemVars, troubled, crashed >>

(* The pool may be empty again: the null pointer is used. *)
RearmPop(t) ==
  /\ at[t] = "popping"
  /\ \/ /\ pool > 0
        /\ pool' = pool - 1
        /\ at' = [at EXCEPT ![t] = "rearm"]
        /\ UNCHANGED crashed
     \/ /\ pool = 0
        /\ crashed' = TRUE
        /\ UNCHANGED << pool, at >>
  /\ UNCHANGED << mainVars, client, systemVars, troubled, raced >>

(* A receive may be refused: its context is dropped. *)
Rearm(t) ==
  /\ at[t] = "rearm"
  /\ \/ receiving' = receiving \cup {client[t]} /\ UNCHANGED troubled
     \/ Trouble(client[t]) /\ UNCHANGED receiving
  /\ at' = [at EXCEPT ![t] = "wait"]
  /\ client' = [client EXCEPT ![t] = 0]
  /\ UNCHANGED << pool, mainVars, sends, owed, port, closed, ends >>

Work(t) == Dequeue(t) \/ EntersPush(t) \/ GiveBack(t) \/ EntersPop(t) \/ RearmPop(t) \/ Rearm(t)
-----------------------------------------------------------------------------
(***************************************************************************)
(* The system and the server                                               *)
(***************************************************************************)
Queue(c, result) == port' = Append(port, [client |-> c, what |-> result])

(* The server takes a request, unless it owes this connection too much.    *)
SendDone(c) ==
  /\ c \notin closed
  /\ sends[c] > 0 /\ owed[c] < MaxOwed
  /\ sends' = [sends EXCEPT ![c] = @ - 1]
  /\ owed'  = [owed EXCEPT ![c] = @ + 1]
  /\ Queue(c, "done")
  /\ UNCHANGED << pool, mainVars, workerVars, receiving, closed, troubled, ends >>

(* The receive takes the ends of n answers, as TCP delivers them.  Whole   *)
(* is what begins where an answer does and has at least that answer in it. *)
ReceiveDone(c) ==
  /\ c \in receiving /\ owed[c] > 0
  /\ receiving' = receiving \ {c}
  /\ \E n \in 0 .. owed[c], result \in {"response", "part", "unknown"} :
       /\ result = "response" => n > 0
       /\ owed' = [owed EXCEPT ![c] = @ - n]
       /\ IF result = "response" THEN UNCHANGED troubled ELSE Trouble(c)
       /\ Queue(c, result)
  /\ UNCHANGED << pool, mainVars, workerVars, sends, closed, ends >>

PeerCloses(c) ==
  /\ c \notin closed
  /\ closed' = closed \cup {c} /\ Trouble(c)
  /\ UNCHANGED << pool, mainVars, workerVars, sends, receiving, owed, port, ends >>

SendFails(c) ==
  /\ c \in closed /\ sends[c] > 0
  /\ sends' = [sends EXCEPT ![c] = @ - 1]
  /\ Queue(c, "failed")
  /\ UNCHANGED << pool, mainVars, workerVars, receiving, owed, closed, troubled, ends >>

(* It is aborted, or gets no bytes at all. *)
ReceiveFails(c) ==
  /\ c \in closed \cap receiving
  /\ receiving' = receiving \ {c}
  /\ \E result \in {"failed", "unknown"} : Queue(c, result)
  /\ UNCHANGED << pool, mainVars, workerVars, sends, owed, closed, troubled, ends >>

Finishes(c) == SendDone(c) \/ SendFails(c)
Answers(c)  == ReceiveDone(c) \/ ReceiveFails(c)
-----------------------------------------------------------------------------
Step ==
  \/ Main
  \/ \E t \in Workers : Work(t)
  \/ \E c \in Clients : Finishes(c) \/ Answers(c) \/ PeerCloses(c)

Running == ~crashed /\ ~raced

Next == Running /\ Step

Spec == Init /\ [][Next]_vars

(* main and the workers keep running and the port is first in, first out;  *)
(* a connection goes on carrying what it has accepted, and its server goes *)
(* on answering, until one of them closes it.                              *)
Fairness ==
  /\ WF_vars(Running /\ Main)
  /\ \A t \in Workers : WF_vars(Running /\ Work(t))
  /\ \A c \in Clients : WF_vars(Running /\ Finishes(c)) /\ WF_vars(Running /\ Answers(c))

FairSpec == Spec /\ Fairness
-----------------------------------------------------------------------------
(* The contexts outside the pool: with main, with a worker, in an operation *)
(* (one pair for each send in progress) or in a completion.                *)
WithMain   == IF mainAt = "send" THEN 1 ELSE 0
WithWorker == {t \in Workers : at[t] \in {"giveBack", "pushing", "rearm"}}
Sending    == UNION {{c} \X (1 .. sends[c]) : c \in Clients}

Outside ==
  Cardinality(WithWorker) + WithMain + Cardinality(Sending) + Cardinality(receiving) + Len(port)

(* Until two pushes or two pops overlap, no context is gained, and none is *)
(* lost as long as no connection closes, no call is refused and every      *)
(* receive takes a whole response: what main, the workers and the system   *)
(* hold adds up with the pool (every return path of Work, Send and         *)
(* ReceiveReady).                                                          *)
ContextsAddUp ==
  ~raced =>
    /\ pool + Outside <= ContextMax
    /\ troubled = {} /\ ~crashed => pool + Outside = ContextMax

(* The requests of c that no worker has seen the answer of. *)
Pending(c) == sends[c] > 0 \/ owed[c] > 0

Handling(c) == \E t \in Workers : client[t] = c

(* Every request is answered: unless two calls of the queue of one kind    *)
(* overlap, a worker runs out of contexts, or its own connection meets     *)
(* with trouble (a close, a refused call, a cut response), an answer to    *)
(* the client of a request comes to a worker, however main, the workers    *)
(* and the other clients compete for completions and contexts, and         *)
(* whatever trouble the others have (Network.cpp 124, 177-178, 200-201).   *)
EveryRequestIsAnswered ==
  \A c \in Clients : Pending(c) ~> (Handling(c) \/ c \in troubled \/ ~Running)

(* main never runs out of contexts for good: with two workers or more, no  *)
(* trouble with a connection and no overlap of two calls of a kind, it     *)
(* sends for ever (Network.cpp 20, main.cpp 48-50, 70-72).                 *)
MainKeepsSending == []<>(mainAt = "send" \/ troubled # {} \/ ~Running)

(* A closed connection costs a context each time main sends to it: unless  *)
(* calls of a kind overlap, main finds no context when its turn comes after *)
(* finitely many requests (the returns of Client::Send, Client.cpp 105-126, *)
(* Network.cpp 126).                                                       *)
DeadClientIsNotServedForEver ==
  \A c \in Clients : c \in closed ~> [](~Running \/ ~(mainAt = "send" /\ i = c))

=============================================================================
