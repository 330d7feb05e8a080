-------------------------- MODULE SteadyStateProofs --------------------------
(***************************************************************************)
(* Proofs about SteadyState: the contexts that main, the workers and the   *)
(* system hold add up with the pool until two calls of the queue of one    *)
(* kind overlap, for any number of threads and clients.                    *)
(***************************************************************************)
EXTENDS SteadyState, Lemmas

(* Where a worker may know a client, and where it must.                    *)
AfterMessage == {"giveBack", "pushing", "rearmPop", "popping", "rearm"}
RearmLabels  == {"rearmPop", "popping", "rearm"}

(* The types, the counters without their bounds.                           *)
CountsTypeOK ==
  /\ pool \in Nat
  /\ mainAt \in {"pop", "popping", "send"} /\ i \in Clients
  /\ at \in [Workers -> WorkerLabels]
  /\ client \in [Workers -> Clients \cup {0}]
  /\ sends \in [Clients -> Nat] /\ IsFiniteSet(Sending)
  /\ receiving \subseteq Clients
  /\ closed \subseteq troubled /\ troubled \subseteq Clients
  /\ owed \in [Clients -> 0 .. MaxOwed]
  /\ port \in Seq(Completions)
  /\ raced \in BOOLEAN /\ crashed \in BOOLEAN

(* A client has one receive at most that will be posted again: it is       *)
(* posted, its message is queued, or a worker has taken the message.  So   *)
(* posting it uses a context that no other receive of the client has.      *)
OneReceive ==
  /\ \A t \in Workers : /\ client[t] # 0 => at[t] \in AfterMessage
                        /\ at[t] \in RearmLabels => client[t] # 0
  /\ \A t, u \in Workers : client[t] = client[u] /\ t # u => client[t] = 0
  /\ \A t \in Workers : client[t] \notin receiving
  /\ \A k \in 1 .. Len(port) : Message(port[k]) =>
       /\ port[k].client \notin receiving
       /\ \A t \in Workers : client[t] # port[k].client
       /\ \A l \in 1 .. Len(port) : Message(port[l]) /\ port[l].client = port[k].client => l = k

(* What the workers drop belongs to a client in trouble.                   *)
DropsOnlyTroubled ==
  \A k \in 1 .. Len(port) : Dropped(port[k]) => port[k].client \in troubled

(* ContextsAddUp holds of the state in which the calls overlap as well.    *)
AddsUp ==
  /\ pool + Outside <= ContextMax
  /\ troubled = {} /\ ~crashed => pool + Outside = ContextMax

SteadyInv == CountsTypeOK /\ OneReceive /\ DropsOnlyTroubled /\ AddsUp
-----------------------------------------------------------------------------

(* A completion that is queued goes behind the others.                     *)
LEMMA PortGrows ==
  ASSUME port \in Seq(Completions), NEW c \in Clients, NEW result \in Results,
         Queue(c, result)
  PROVE  /\ port' \in Seq(Completions) /\ Len(port) \in Nat /\ Len(port') = Len(port) + 1
         /\ \A k \in 1 .. Len(port) : port'[k] = port[k]
         /\ port'[Len(port) + 1] = [client |-> c, what |-> result]
<1>1. [client |-> c, what |-> result] \in Completions
  BY DEF Completions
<1> QED
  BY <1>1 DEF Queue

(* The one that is taken is the oldest, and the others move up.            *)
LEMMA PortShrinks ==
  ASSUME port \in Seq(Completions), port # << >>, port' = Tail(port)
  PROVE  /\ port' \in Seq(Completions) /\ Len(port) \in Nat /\ Len(port') = Len(port) - 1
         /\ Len(port) >= 1 /\ Head(port) = port[1] /\ port[1] \in Completions
         /\ \A k \in 1 .. Len(port') : port'[k] = port[k + 1]
<1>1. Len(port) \in Nat /\ Len(port) >= 1 /\ Head(port) = port[1]
  BY EmptySeq
<1>2. /\ port' \in Seq(Completions) /\ Len(port') = Len(port) - 1
      /\ \A k \in 1 .. Len(port') : port'[k] = port[k + 1]
  BY HeadTailProperties
<1>3. port[1] \in Completions
  BY <1>1, ElementOfSeq
<1> QED
  BY <1>1, <1>2, <1>3

(* The number of sends goes up or down with the set of their pairs.        *)
LEMMA SendingStep ==
  ASSUME CountsTypeOK, NEW c \in Clients
  PROVE  /\ Cardinality(Sending) \in Nat
         /\ sends' = sends => Sending' = Sending
         /\ sends' = [sends EXCEPT ![c] = @ + 1] =>
              /\ sends' \in [Clients -> Nat]
              /\ IsFiniteSet(Sending') /\ Cardinality(Sending') = Cardinality(Sending) + 1
         /\ sends' = [sends EXCEPT ![c] = @ - 1] /\ sends[c] > 0 =>
              /\ sends' \in [Clients -> Nat]
              /\ IsFiniteSet(Sending') /\ Cardinality(Sending') = Cardinality(Sending) - 1
<1>0. Sending = PairsOf(Clients, sends) /\ Sending' = PairsOf(Clients, sends')
  BY DEF Sending, PairsOf
<1>1. sends \in [Clients -> Nat] /\ IsFiniteSet(PairsOf(Clients, sends))
  BY <1>0 DEF CountsTypeOK
<1>2. ASSUME sends' = [sends EXCEPT ![c] = @ + 1]
      PROVE  /\ sends' \in [Clients -> Nat]
             /\ IsFiniteSet(PairsOf(Clients, sends'))
             /\ Cardinality(PairsOf(Clients, sends')) = Cardinality(PairsOf(Clients, sends)) + 1
  <2>1. /\ sends' \in [Clients -> Nat] /\ sends'[c] = sends[c] + 1
        /\ \A d \in Clients \ {c} : sends'[d] = sends[d]
    BY <1>1, <1>2
  <2> QED
    BY <1>1, <2>1, PairsAdd
<1>3. ASSUME sends' = [sends EXCEPT ![c] = @ - 1], sends[c] > 0
      PROVE  /\ sends' \in [Clients -> Nat]
             /\ IsFiniteSet(PairsOf(Clients, sends'))
             /\ Cardinality(PairsOf(Clients, sends')) = Cardinality(PairsOf(Clients, sends)) - 1
  <2>1. /\ sends' \in [Clients -> Nat] /\ sends[c] = sends'[c] + 1
        /\ \A d \in Clients \ {c} : sends'[d] = sends[d]
    BY <1>1, <1>3
  <2> QED
    BY <1>1, <2>1, PairsTake
<1> QED
  BY <1>0, <1>1, <1>2, <1>3, FS_CardinalityType

(* Main goes from one client to the next.                                  *)
LEMMA NextClientType ==
  ASSUME i \in Clients, NextClient
  PROVE  i' \in Clients
  BY SteadyAssumption DEF NextClient, Clients

(* The types, step by step.                                                *)
LEMMA CountsTypeStep ==
  ASSUME CountsTypeOK, OneReceive, Next
  PROVE  CountsTypeOK'
<1> USE DEF CountsTypeOK, workerVars, mainVars, systemVars, WorkerLabels
<1>0. Sending' = PairsOf(Clients, sends') /\ (sends' = sends => Sending' = Sending)
  BY DEF Sending, PairsOf
<1>1. CASE MainEntersPop \/ MainPop
  <2>1. pool' \in Nat
    BY <1>1 DEF MainEntersPop, MainPop
  <2>2. raced' \in BOOLEAN
    BY <1>1, Zenon DEF MainEntersPop, EnterPop, MainPop, ends
  <2>3. i' \in Clients /\ mainAt' \in {"pop", "popping", "send"}
    BY <1>1, NextClientType DEF MainEntersPop, MainPop
  <2> QED
    BY <1>0, <1>1, <2>1, <2>2, <2>3 DEF MainEntersPop, MainPop, ends
<1>2. CASE MainSend
  <2>1. i' \in Clients
    BY <1>2, NextClientType DEF MainSend
  <2>2. sends' \in [Clients -> Nat] /\ IsFiniteSet(Sending')
    BY <1>0, <1>2, SendingStep DEF MainSend
  <2>3. closed \subseteq troubled' /\ troubled' \subseteq Clients
    BY <1>2 DEF MainSend, Trouble
  <2> QED
    BY <1>2, <2>1, <2>2, <2>3 DEF MainSend, ends
<1>3. ASSUME NEW t \in Workers, Dequeue(t)
      PROVE  CountsTypeOK'
  <2>1. port' \in Seq(Completions) /\ Head(port) \in Completions
    BY <1>3, PortShrinks DEF Dequeue
  <2>2. at' \in [Workers -> WorkerLabels] /\ client' \in [Workers -> Clients \cup {0}]
    BY <1>3, <2>1 DEF Dequeue, Completions
  <2>3. crashed' \in BOOLEAN
    BY <1>3 DEF Dequeue
  <2> QED
    BY <1>0, <1>3, <2>1, <2>2, <2>3 DEF Dequeue
<1>4. ASSUME NEW t \in Workers, EntersPush(t) \/ GiveBack(t) \/ EntersPop(t)
      PROVE  CountsTypeOK'
  <2>1. at' \in [Workers -> WorkerLabels] /\ pool' \in Nat
    <3>1. /\ \E l \in WorkerLabels : at' = [at EXCEPT ![t] = l]
          /\ pool' = pool \/ pool' = pool + 1
      BY <1>4 DEF EntersPush, GiveBack, EntersPop
    <3> QED
      BY <3>1
  <2>2. raced' \in BOOLEAN
    BY <1>4, Zenon DEF EntersPush, EnterPush, GiveBack, EntersPop, EnterPop, ends
  <2> QED
    BY <1>0, <1>4, <2>1, <2>2 DEF EntersPush, GiveBack, EntersPop, ends
<1>5. ASSUME NEW t \in Workers, RearmPop(t)
      PROVE  CountsTypeOK'
  <2>1. pool' \in Nat /\ at' \in [Workers -> WorkerLabels]
    BY <1>5 DEF RearmPop
  <2>2. crashed' \in BOOLEAN
    BY <1>5, Zenon DEF RearmPop
  <2> QED
    BY <1>0, <1>5, <2>1, <2>2 DEF RearmPop
<1>6. ASSUME NEW t \in Workers, Rearm(t)
      PROVE  CountsTypeOK'
  <2>1. client[t] \in Clients
    BY <1>6 DEF Rearm, OneReceive, RearmLabels
  <2>2. closed \subseteq troubled' /\ troubled' \subseteq Clients
    BY <1>6, <2>1 DEF Rearm, Trouble
  <2> QED
    BY <1>0, <1>6, <2>1, <2>2 DEF Rearm, ends
<1>7. ASSUME NEW c \in Clients, SendDone(c) \/ SendFails(c)
      PROVE  CountsTypeOK'
  <2>1. sends' \in [Clients -> Nat] /\ IsFiniteSet(Sending')
    BY <1>7, SendingStep DEF SendDone, SendFails
  <2>2. port' \in Seq(Completions)
    BY <1>7, PortGrows DEF SendDone, SendFails, Results
  <2>3. owed' \in [Clients -> 0 .. MaxOwed]
    <3>1. CASE SendDone(c)
      <4>1. owed[c] \in Int /\ 0 <= owed[c] /\ owed[c] <= MaxOwed /\ MaxOwed \in Nat
        BY SteadyAssumption
      <4>2. owed[c] + 1 \in 0 .. MaxOwed
        BY <3>1, <4>1 DEF SendDone
      <4> QED
        BY <3>1, <4>2 DEF SendDone
    <3>2. CASE SendFails(c)
      BY <3>2 DEF SendFails
    <3> QED
      BY <1>7, <3>1, <3>2
  <2> QED
    BY <1>7, <2>1, <2>2, <2>3 DEF SendDone, SendFails, ends
<1>8. ASSUME NEW c \in Clients, ReceiveDone(c) \/ ReceiveFails(c)
      PROVE  CountsTypeOK'
  <2>1. PICK result \in Results : Queue(c, result)
    BY <1>8 DEF ReceiveDone, ReceiveFails, Results
  <2>2. port' \in Seq(Completions)
    BY <2>1, PortGrows
  <2>3. owed' \in [Clients -> 0 .. MaxOwed]
    <3>1. CASE ReceiveDone(c)
      <4>1. PICK n \in 0 .. owed[c] : owed' = [owed EXCEPT ![c] = owed[c] - n]
        BY <3>1 DEF ReceiveDone
      <4>2. owed[c] \in Int /\ 0 <= owed[c] /\ owed[c] <= MaxOwed /\ MaxOwed \in Nat
        BY SteadyAssumption
      <4>3. owed[c] - n \in 0 .. MaxOwed
        BY <4>2
      <4> QED
        BY <4>1, <4>3
    <3>2. CASE ReceiveFails(c)
      BY <3>2 DEF ReceiveFails
    <3> QED
      BY <1>8, <3>1, <3>2
  <2>4. closed \subseteq troubled' /\ troubled' \subseteq Clients
    BY <1>8 DEF ReceiveDone, ReceiveFails, Trouble
  <2> QED
    BY <1>0, <1>8, <2>2, <2>3, <2>4 DEF ReceiveDone, ReceiveFails, ends
<1>9. ASSUME NEW c \in Clients, PeerCloses(c)
      PROVE  CountsTypeOK'
  BY <1>0, <1>9 DEF PeerCloses, Trouble, ends
<1> QED
  BY <1>1, <1>2, <1>3, <1>4, <1>5, <1>6, <1>7, <1>8, <1>9
     DEF Next, Step, Main, Work, Finishes, Answers

(* A receive goes from the system to its completion, to a worker and back. *)
LEMMA OneReceiveStep ==
  ASSUME CountsTypeOK, OneReceive, Next
  PROVE  OneReceive'
<1> USE DEF RearmLabels, AfterMessage
<1>0. /\ at \in [Workers -> WorkerLabels] /\ client \in [Workers -> Clients \cup {0}]
      /\ port \in Seq(Completions) /\ Len(port) \in Nat /\ 0 \notin Clients
  BY SteadyAssumption DEF CountsTypeOK, Clients
<1>1. CASE UNCHANGED << receiving, port, client >> /\ \A t \in Workers :
             /\ at[t] \in AfterMessage => at'[t] \in AfterMessage \/ client[t] = 0
             /\ at'[t] \in RearmLabels => at[t] \in RearmLabels \/ client[t] # 0
  BY <1>1 DEF OneReceive
<1>2. CASE Main \/ \E c \in Clients : PeerCloses(c)
  BY <1>1, <1>2 DEF Main, MainEntersPop, MainPop, MainSend, PeerCloses, workerVars, systemVars
<1>3. ASSUME NEW t \in Workers, EntersPush(t) \/ GiveBack(t) \/ EntersPop(t) \/ RearmPop(t)
      PROVE  OneReceive'
  BY <1>0, <1>1, <1>3 DEF EntersPush, GiveBack, EntersPop, RearmPop, systemVars
<1>4. ASSUME NEW t \in Workers, Dequeue(t)
      PROVE  OneReceive'
  <2>1. /\ Len(port') = Len(port) - 1 /\ Len(port) >= 1 /\ Head(port) = port[1]
        /\ port[1] \in Completions /\ receiving' = receiving
        /\ \A k \in 1 .. Len(port') : port'[k] = port[k + 1]
    BY <1>0, <1>4, PortShrinks DEF Dequeue
  <2>2. /\ client[t] = 0 /\ at[t] = "wait"
    BY <1>4 DEF Dequeue, OneReceive
  <2>3. \A k \in 1 .. Len(port') : k + 1 \in 1 .. Len(port)
    BY <1>0, <2>1
  <2>4. ASSUME NEW k \in 1 .. Len(port'), Message(port'[k])
        PROVE  /\ port'[k].client \notin receiving
               /\ \A u \in Workers : client[u] # port'[k].client
               /\ Message(port[1]) => port'[k].client # port[1].client
               /\ \A l \in 1 .. Len(port') :
                    Message(port'[l]) /\ port'[l].client = port'[k].client => l = k
    <3>1. \A l \in 1 .. Len(port') : l + 1 # 1 /\ (l + 1 = k + 1 => l = k)
      BY <1>0, <2>1
    <3>2. port'[k] = port[k + 1] /\ k + 1 \in 1 .. Len(port) /\ Message(port[k + 1])
      BY <2>1, <2>3, <2>4
    <3>3. 1 \in 1 .. Len(port)
      BY <1>0, <2>1
    <3>4. \A l \in 1 .. Len(port) : Message(port[l]) /\ port[l].client = port'[k].client => l = k + 1
      BY <3>2 DEF OneReceive
    <3>5. Message(port[1]) => port'[k].client # port[1].client
      BY <3>1, <3>3, <3>4
    <3>6. ASSUME NEW l \in 1 .. Len(port'), Message(port'[l]), port'[l].client = port'[k].client
          PROVE  l = k
      <4>1. port'[l] = port[l + 1] /\ l + 1 \in 1 .. Len(port)
        BY <2>1, <2>3
      <4>2. l + 1 = k + 1
        BY <3>4, <3>6, <4>1
      <4> QED
        BY <3>1, <4>2
    <3> QED
      BY <3>2, <3>5, <3>6 DEF OneReceive
  <2>5. CASE Message(port[1]) /\ at' = [at EXCEPT ![t] = "giveBack"]
             /\ client' = [client EXCEPT ![t] = port[1].client]
    <3>1. /\ port[1].client \in Clients /\ port[1].client \notin receiving
          /\ \A u \in Workers : client[u] # port[1].client
      BY <1>0, <2>1, <2>5 DEF OneReceive, Completions
    <3>2. /\ \A u \in Workers \ {t} : client'[u] = client[u] /\ at'[u] = at[u]
          /\ client'[t] = port[1].client /\ at'[t] = "giveBack"
      BY <1>0, <2>5
    <3>3. /\ \A u, v \in Workers : client'[u] = client'[v] /\ u # v => client'[u] = 0
          /\ \A u \in Workers : client'[u] \notin receiving
      BY <3>1, <3>2 DEF OneReceive
    <3>4. \A u \in Workers : /\ client'[u] # 0 => at'[u] \in AfterMessage
                             /\ at'[u] \in RearmLabels => client'[u] # 0
      BY <3>2 DEF OneReceive
    <3>5. ASSUME NEW k \in 1 .. Len(port'), Message(port'[k])
          PROVE  \A u \in Workers : client'[u] # port'[k].client
      BY <2>4, <2>5, <3>2, <3>5
    <3> QED
      BY <2>1, <2>4, <3>3, <3>4, <3>5 DEF OneReceive
  <2>6. CASE client' = client /\ \E l \in {"wait", "giveBack"} : at' = [at EXCEPT ![t] = l]
    <3>1. \A u \in Workers : /\ client'[u] # 0 => at'[u] \in AfterMessage
                             /\ at'[u] \in RearmLabels => client'[u] # 0
      BY <1>0, <2>2, <2>6 DEF OneReceive
    <3> QED
      BY <2>1, <2>4, <2>6, <3>1 DEF OneReceive
  <2>7. \/ Message(port[1]) /\ at' = [at EXCEPT ![t] = "giveBack"]
           /\ client' = [client EXCEPT ![t] = port[1].client]
        \/ client' = client /\ \E l \in {"wait", "giveBack"} : at' = [at EXCEPT ![t] = l]
    BY <1>0, <1>4, <2>1, <2>2 DEF Dequeue, workerVars
  <2> QED
    BY <2>5, <2>6, <2>7
<1>5. ASSUME NEW t \in Workers, Rearm(t)
      PROVE  OneReceive'
  <2>1. /\ receiving' = receiving \cup {client[t]} \/ receiving' = receiving
        /\ at' = [at EXCEPT ![t] = "wait"] /\ client' = [client EXCEPT ![t] = 0]
        /\ port' = port /\ client[t] # 0 /\ receiving \subseteq Clients
    BY <1>5 DEF Rearm, OneReceive, CountsTypeOK
  <2>2. \A u \in Workers : client'[u] = IF u = t THEN 0 ELSE client[u]
    BY <1>0, <2>1
  <2>3. \A u \in Workers : /\ client'[u] # 0 => at'[u] \in AfterMessage
                           /\ at'[u] \in RearmLabels => client'[u] # 0
    BY <1>0, <2>1, <2>2 DEF OneReceive
  <2>4. \A u \in Workers : client'[u] # client[t] /\ client'[u] \notin receiving'
    BY <1>0, <2>1, <2>2 DEF OneReceive
  <2>5. \A k \in 1 .. Len(port) : Message(port[k]) => port[k].client # client[t]
    BY DEF OneReceive
  <2>6. \A k \in 1 .. Len(port) : Message(port[k]) => port[k].client # 0
    <3>1. \A k \in 1 .. Len(port) : port[k] \in Completions
      BY <1>0, ElementOfSeq
    <3> QED
      BY <1>0, <3>1 DEF Completions
  <2> QED
    BY <2>1, <2>2, <2>3, <2>4, <2>5, <2>6 DEF OneReceive
<1>6. ASSUME NEW c \in Clients, Finishes(c) \/ Answers(c)
      PROVE  OneReceive'
  <2>1. PICK result \in Results :
          /\ Queue(c, result) /\ UNCHANGED << at, client >>
          /\ \/ result \in {"done", "failed"} /\ receiving' = receiving
             \/ c \in receiving /\ receiving' = receiving \ {c}
    BY <1>6 DEF Finishes, Answers, SendDone, SendFails, ReceiveDone, ReceiveFails, workerVars,
                Results
  <2>2. /\ Len(port') = Len(port) + 1 /\ \A k \in 1 .. Len(port) : port'[k] = port[k]
        /\ port'[Len(port) + 1] = [client |-> c, what |-> result]
    BY <1>0, <2>1, PortGrows
  <2>3. \A k \in 1 .. Len(port') : k \in 1 .. Len(port) \/ k = Len(port) + 1
    BY <1>0, <2>2
  <2>4. CASE result \in {"done", "failed"} /\ receiving' = receiving
    <3>1. ~Message(port'[Len(port) + 1])
      BY <2>2, <2>4 DEF Message
    <3> QED
      BY <1>0, <2>1, <2>2, <2>3, <2>4, <3>1 DEF OneReceive
  <2>5. CASE c \in receiving /\ receiving' = receiving \ {c}
    <3>1. \A k \in 1 .. Len(port) : Message(port[k]) => port[k].client # c
      BY <2>5 DEF OneReceive
    <3>2. port'[Len(port) + 1].client = c
      BY <2>2
    <3> QED
      BY <1>0, <2>1, <2>2, <2>3, <2>5, <3>1, <3>2 DEF OneReceive
  <2> QED
    BY <2>1, <2>4, <2>5
<1> QED
  BY <1>2, <1>3, <1>4, <1>5, <1>6 DEF Next, Step, Work

(* What is queued to be dropped comes with the trouble of its client.      *)
LEMMA DropsOnlyTroubledStep ==
  ASSUME CountsTypeOK, DropsOnlyTroubled, Next
  PROVE  DropsOnlyTroubled'
<1>0. port \in Seq(Completions) /\ Len(port) \in Nat /\ closed \subseteq troubled
  BY DEF CountsTypeOK
<1>1. CASE port' = port /\ troubled \subseteq troubled'
  BY <1>1 DEF DropsOnlyTroubled
<1>2. CASE Main \/ \E c \in Clients : PeerCloses(c)
  BY <1>1, <1>2 DEF Main, MainEntersPop, MainPop, MainSend, PeerCloses, Trouble, systemVars
<1>3. ASSUME NEW t \in Workers,
             EntersPush(t) \/ GiveBack(t) \/ EntersPop(t) \/ RearmPop(t) \/ Rearm(t)
      PROVE  DropsOnlyTroubled'
  BY <1>1, <1>3 DEF EntersPush, GiveBack, EntersPop, RearmPop, Rearm, Trouble, systemVars
<1>4. ASSUME NEW t \in Workers, Dequeue(t)
      PROVE  DropsOnlyTroubled'
  <2>1. /\ Len(port') = Len(port) - 1 /\ troubled' = troubled
        /\ \A k \in 1 .. Len(port') : port'[k] = port[k + 1]
    BY <1>0, <1>4, PortShrinks DEF Dequeue
  <2>2. \A k \in 1 .. Len(port') : k + 1 \in 1 .. Len(port)
    BY <1>0, <2>1
  <2> QED
    BY <2>1, <2>2 DEF DropsOnlyTroubled
<1>5. ASSUME NEW c \in Clients, Finishes(c) \/ Answers(c)
      PROVE  DropsOnlyTroubled'
  <2>1. PICK result \in Results :
          /\ Queue(c, result) /\ troubled \subseteq troubled'
          /\ result \in {"failed", "unknown"} => c \in troubled'
    BY <1>0, <1>5 DEF Finishes, Answers, SendDone, SendFails, ReceiveDone, ReceiveFails, Trouble,
                      Results
  <2>2. /\ Len(port') = Len(port) + 1 /\ \A k \in 1 .. Len(port) : port'[k] = port[k]
        /\ port'[Len(port) + 1] = [client |-> c, what |-> result]
    BY <1>0, <2>1, PortGrows
  <2>3. \A k \in 1 .. Len(port') : k \in 1 .. Len(port) \/ k = Len(port) + 1
    BY <1>0, <2>2
  <2>4. Dropped(port'[Len(port) + 1]) => c \in troubled' /\ port'[Len(port) + 1].client = c
    BY <2>1, <2>2 DEF Dropped
  <2> QED
    BY <2>1, <2>2, <2>3, <2>4 DEF DropsOnlyTroubled
<1> QED
  BY <1>2, <1>3, <1>4, <1>5 DEF Next, Step, Work

(* Every step moves a context from one place to another, and loses one     *)
(* only for a client in trouble, or when the program ends.                 *)
LEMMA AddsUpStep ==
  ASSUME CountsTypeOK, OneReceive, DropsOnlyTroubled, AddsUp, Next
  PROVE  AddsUp'
<1>0. /\ at \in [Workers -> WorkerLabels] /\ client \in [Workers -> Clients \cup {0}]
      /\ port \in Seq(Completions) /\ Len(port) \in Nat /\ pool \in Nat
      /\ IsFiniteSet(Sending) /\ receiving \subseteq Clients /\ ContextMax \in Nat
  BY SteadyAssumption DEF CountsTypeOK, ContextMax
<1>1. IsFiniteSet(receiving)
  <2>1. IsFiniteSet(Clients)
    BY SteadyAssumption, FS_Interval DEF Clients
  <2> QED
    BY <1>0, <2>1, FS_Subset
<1>2. IsFiniteSet(WithWorker)
  BY SteadyAssumption, FS_Subset DEF WithWorker
<1> DEFINE Busy     == Cardinality(WithWorker)
           Sends    == Cardinality(Sending)
           Receives == Cardinality(receiving)
<1>3. /\ Busy \in Nat /\ Sends \in Nat /\ Receives \in Nat /\ WithMain \in Nat
  BY <1>0, <1>1, <1>2, FS_CardinalityType DEF WithMain
<1>4. /\ pool + (Busy + WithMain + Sends + Receives + Len(port)) <= ContextMax
      /\ troubled = {} => pool + (Busy + WithMain + Sends + Receives + Len(port)) = ContextMax
  BY DEF AddsUp, Outside, Next, Running
<1>5. sends' = sends => Sends' = Sends
  BY DEF Sending
<1>6. receiving' = receiving => Receives' = Receives
  OBVIOUS
<1>7. at' = at => Busy' = Busy
  BY DEF WithWorker
<1>8. mainAt' = mainAt => WithMain' = WithMain
  BY DEF WithMain
<1>9. AddsUp' <=>
        /\ pool' + (Busy' + WithMain' + Sends' + Receives' + Len(port')) <= ContextMax
        /\ troubled' = {} /\ ~crashed' =>
             pool' + (Busy' + WithMain' + Sends' + Receives' + Len(port')) = ContextMax
  BY DEF AddsUp, Outside
<1> HIDE DEF Busy, Sends, Receives
<1>10. CASE MainEntersPop \/ MainPop
  <2>1. /\ UNCHANGED << sends, receiving, at, port, troubled >>
        /\ \/ pool' = pool - 1 /\ WithMain = 0 /\ WithMain' = 1
           \/ pool' = pool /\ WithMain' = WithMain
    BY <1>10 DEF MainEntersPop, MainPop, WithMain, workerVars, systemVars
  <2> QED
    BY <1>0, <1>3, <1>4, <1>5, <1>6, <1>7, <1>9, <2>1
<1>11. CASE MainSend
  <2>1. /\ UNCHANGED << pool, receiving, at, port >> /\ WithMain = 1 /\ WithMain' = 0
        /\ \/ sends' = [sends EXCEPT ![i] = @ + 1] /\ troubled' = troubled
           \/ sends' = sends /\ troubled' # {}
    BY <1>11 DEF MainSend, Trouble, WithMain, workerVars
  <2>2. sends' = [sends EXCEPT ![i] = @ + 1] => Sends' = Sends + 1
    BY SendingStep DEF CountsTypeOK, Sends
  <2> QED
    BY <1>0, <1>3, <1>4, <1>5, <1>6, <1>7, <1>9, <2>1, <2>2
<1>12. ASSUME NEW t \in Workers, Dequeue(t)
       PROVE  AddsUp'
  <2>1. /\ Len(port') = Len(port) - 1 /\ Len(port) >= 1 /\ Head(port) = port[1]
        /\ port[1] \in Completions
    BY <1>0, <1>12, PortShrinks DEF Dequeue
  <2>2. /\ UNCHANGED << pool, sends, receiving, mainAt, troubled >> /\ at[t] = "wait"
    BY <1>12 DEF Dequeue, mainVars
  <2>3. CASE at' = at /\ (troubled # {} \/ crashed')
    BY <1>0, <1>3, <1>4, <1>5, <1>6, <1>7, <1>8, <1>9, <2>1, <2>2, <2>3
  <2>4. CASE at' = [at EXCEPT ![t] = "giveBack"]
    <3>1. WithWorker' = WithWorker \cup {t} /\ t \notin WithWorker
      BY <1>0, <2>2, <2>4 DEF WithWorker
    <3>2. Busy' = Busy + 1
      BY <1>2, <3>1, CountStep DEF Busy
    <3> QED
      BY <1>0, <1>3, <1>4, <1>5, <1>6, <1>8, <1>9, <2>1, <2>2, <3>2
  <2>5. Dropped(port[1]) => troubled # {}
    BY <1>0, <2>1 DEF DropsOnlyTroubled
  <2>6. \/ at' = at /\ (Dropped(port[1]) \/ crashed')
        \/ at' = [at EXCEPT ![t] = "giveBack"]
    BY <1>12, <2>1 DEF Dequeue, workerVars
  <2> QED
    BY <2>3, <2>4, <2>5, <2>6
<1>13. ASSUME NEW t \in Workers, EntersPush(t) \/ EntersPop(t)
       PROVE  AddsUp'
  <2>1. UNCHANGED << pool, sends, receiving, port, troubled, mainAt >>
    BY <1>13 DEF EntersPush, EntersPop, systemVars, mainVars
  <2>2. WithWorker' = WithWorker
    BY <1>0, <1>13 DEF EntersPush, EntersPop, WithWorker
  <2>3. Busy' = Busy
    BY <2>2 DEF Busy
  <2> QED
    BY <1>0, <1>3, <1>4, <1>5, <1>6, <1>8, <1>9, <2>1, <2>3
<1>14. ASSUME NEW t \in Workers, GiveBack(t)
       PROVE  AddsUp'
  <2>1. /\ UNCHANGED << sends, receiving, port, troubled, mainAt >> /\ pool' = pool + 1
        /\ WithWorker' = WithWorker \ {t} /\ t \in WithWorker
    BY <1>0, <1>14 DEF GiveBack, WithWorker, systemVars, mainVars
  <2>2. Busy' = Busy - 1
    BY <1>2, <2>1, CountStep DEF Busy
  <2> QED
    BY <1>0, <1>3, <1>4, <1>5, <1>6, <1>8, <1>9, <2>1, <2>2
<1>15. ASSUME NEW t \in Workers, RearmPop(t)
       PROVE  AddsUp'
  <2>1. UNCHANGED << sends, receiving, port, troubled, mainAt >>
    BY <1>15 DEF RearmPop, systemVars, mainVars
  <2>2. CASE pool' = pool - 1 /\ at' = [at EXCEPT ![t] = "rearm"]
    <3>1. WithWorker' = WithWorker \cup {t} /\ t \notin WithWorker
      BY <1>0, <1>15, <2>2 DEF RearmPop, WithWorker
    <3>2. Busy' = Busy + 1
      BY <1>2, <3>1, CountStep DEF Busy
    <3> QED
      BY <1>0, <1>3, <1>4, <1>5, <1>6, <1>8, <1>9, <2>1, <2>2, <3>2
  <2>3. CASE pool' = pool /\ at' = at
    BY <1>0, <1>3, <1>4, <1>5, <1>6, <1>7, <1>8, <1>9, <2>1, <2>3
  <2> QED
    BY <1>15, <2>2, <2>3 DEF RearmPop
<1>16. ASSUME NEW t \in Workers, Rearm(t)
       PROVE  AddsUp'
  <2>1. /\ UNCHANGED << pool, sends, port, mainAt >>
        /\ WithWorker' = WithWorker \ {t} /\ t \in WithWorker
        /\ \/ receiving' = receiving \cup {client[t]} /\ troubled' = troubled
           \/ receiving' = receiving /\ troubled' # {}
    BY <1>0, <1>16 DEF Rearm, Trouble, WithWorker, mainVars
  <2>2. Busy' = Busy - 1
    BY <1>2, <2>1, CountStep DEF Busy
  <2>3. client[t] \notin receiving
    BY DEF OneReceive
  <2>4. receiving' = receiving \cup {client[t]} => Receives' = Receives + 1
    BY <1>1, <2>3, CountStep DEF Receives
  <2> QED
    BY <1>0, <1>3, <1>4, <1>5, <1>6, <1>8, <1>9, <2>1, <2>2, <2>4
<1>17. ASSUME NEW c \in Clients, Finishes(c)
       PROVE  AddsUp'
  <2>1. /\ UNCHANGED << pool, receiving, at, troubled, mainAt >> /\ sends[c] > 0
        /\ sends' = [sends EXCEPT ![c] = @ - 1]
        /\ \E result \in Results : Queue(c, result)
    BY <1>17 DEF Finishes, SendDone, SendFails, mainVars, workerVars, Results
  <2>2. Sends' = Sends - 1
    BY <2>1, SendingStep DEF Sends
  <2>3. Len(port') = Len(port) + 1
    BY <1>0, <2>1, PortGrows
  <2> QED
    BY <1>0, <1>3, <1>4, <1>6, <1>7, <1>8, <1>9, <2>1, <2>2, <2>3
<1>18. ASSUME NEW c \in Clients, Answers(c)
       PROVE  AddsUp'
  <2>1. /\ UNCHANGED << pool, sends, at, mainAt >> /\ c \in receiving
        /\ receiving' = receiving \ {c}
        /\ troubled' = troubled \/ troubled' # {}
        /\ \E result \in Results : Queue(c, result)
    BY <1>18 DEF Answers, ReceiveDone, ReceiveFails, Trouble, mainVars, workerVars, Results
  <2>2. Receives' = Receives - 1
    BY <1>1, <2>1, CountStep DEF Receives
  <2>3. Len(port') = Len(port) + 1
    BY <1>0, <2>1, PortGrows
  <2> QED
    BY <1>0, <1>3, <1>4, <1>5, <1>7, <1>8, <1>9, <2>1, <2>2, <2>3
<1>19. ASSUME NEW c \in Clients, PeerCloses(c)
       PROVE  AddsUp'
  <2>1. UNCHANGED << pool, sends, receiving, at, port, mainAt >> /\ troubled' # {}
    BY <1>19 DEF PeerCloses, Trouble, mainVars, workerVars
  <2> QED
    BY <1>0, <1>3, <1>4, <1>5, <1>6, <1>7, <1>8, <1>9, <2>1
<1> QED
  BY <1>10, <1>11, <1>12, <1>13, <1>14, <1>15, <1>16, <1>17, <1>18, <1>19
     DEF Next, Step, Main, Work

(* What adds up to ContextMax is within it.                                *)
LEMMA CountsAreBounded ==
  ASSUME CountsTypeOK, AddsUp
  PROVE  TypeOK
<1>1. IsFiniteSet(receiving) /\ IsFiniteSet(WithWorker) /\ IsFiniteSet(Sending)
  <2>1. IsFiniteSet(Clients)
    BY SteadyAssumption, FS_Interval DEF Clients
  <2>2. receiving \in SUBSET Clients /\ WithWorker \in SUBSET Workers
    BY DEF CountsTypeOK, WithWorker
  <2> QED
    BY <2>1, <2>2, SteadyAssumption, FS_Subset DEF CountsTypeOK
<1>2. /\ Cardinality(WithWorker) \in Nat /\ Cardinality(Sending) \in Nat
      /\ Cardinality(receiving) \in Nat /\ WithMain \in Nat /\ Len(port) \in Nat /\ pool \in Nat
      /\ ContextMax \in Nat
  BY <1>1, FS_CardinalityType, SteadyAssumption DEF WithMain, CountsTypeOK, ContextMax
<1>3. /\ pool <= ContextMax /\ Cardinality(Sending) <= ContextMax /\ Len(port) <= ContextMax
  BY <1>2 DEF AddsUp, Outside
<1>4. \A c \in Clients : sends[c] <= Cardinality(Sending)
  <2>1. Sending = PairsOf(Clients, sends)
    BY DEF Sending, PairsOf
  <2> QED
    BY <1>1, <2>1, PairsBound DEF CountsTypeOK
<1>5. sends \in [Clients -> 0 .. ContextMax]
  BY <1>2, <1>3, <1>4 DEF CountsTypeOK
<1> QED
  BY <1>2, <1>3, <1>5 DEF CountsTypeOK, TypeOK

(* After Start and Process two contexts per client are out of the pool.    *)
LEMMA SteadyInit ==
  ASSUME Init
  PROVE  SteadyInv
<1>0. ClientCount \in Nat \ {0} /\ Clients = 1 .. ClientCount
  BY SteadyAssumption DEF Clients
<1>1. /\ port \in Seq(Completions) /\ Len(port) = ClientCount
      /\ \A k \in 1 .. Len(port) : port[k] = [client |-> k, what |-> "done"]
  <2>1. port = [c \in 1 .. ClientCount |-> [client |-> c, what |-> "done"]]
    BY <1>0 DEF Init
  <2>2. port \in [1 .. ClientCount -> Completions]
    BY <1>0, <2>1 DEF Completions, Results
  <2>3. port \in Seq(Completions) /\ Len(port) = ClientCount
    BY <1>0, <2>2
  <2> QED
    BY <2>1, <2>3
<1>2. Sending = {} /\ WithWorker = {} /\ receiving = Clients /\ WithMain = 0
  <2>1. \A x : x \notin Sending
    <3> SUFFICES ASSUME NEW x, x \in Sending PROVE FALSE
      OBVIOUS
    <3>1. x \in PairsOf(Clients, sends)
      BY DEF Sending, PairsOf
    <3>2. PICK c \in Clients : \E k \in 1 .. sends[c] : x = << c, k >>
      BY <3>1, PairsMember
    <3>3. sends[c] = 0
      BY DEF Init
    <3> QED
      BY <3>2, <3>3
  <2> QED
    BY <2>1 DEF Init, WithWorker, WithMain
<1>3. /\ Cardinality(Sending) = 0 /\ Cardinality(WithWorker) = 0 /\ IsFiniteSet(Sending)
      /\ Cardinality(receiving) = ClientCount
  BY <1>0, <1>2, FS_EmptySet, FS_Interval
<1>4. ContextMax \in Nat /\ 2 * ClientCount <= ContextMax
  <2>1. \A m, n \in Nat : m >= 2 => m * n \in Nat /\ 2 * n <= m * n
    BY SMT
  <2> QED
    BY <1>0, <2>1, SteadyAssumption DEF ContextMax
<1>5. CountsTypeOK
  <2>1. pool \in Nat
    BY <1>0, <1>4 DEF Init
  <2>2. owed \in [Clients -> 0 .. MaxOwed] /\ sends \in [Clients -> Nat] /\ i \in Clients
    BY <1>0, SteadyAssumption DEF Init
  <2>3. /\ at \in [Workers -> WorkerLabels] /\ client \in [Workers -> Clients \cup {0}]
        /\ mainAt = "pop" /\ receiving = Clients /\ closed = {} /\ troubled = {}
        /\ raced = FALSE /\ crashed = FALSE
    BY DEF Init, WorkerLabels
  <2> QED
    BY <1>1, <1>3, <2>1, <2>2, <2>3 DEF CountsTypeOK
<1>6. OneReceive
  BY <1>1 DEF Init, OneReceive, RearmLabels, Message
<1>7. DropsOnlyTroubled
  BY <1>1 DEF DropsOnlyTroubled, Dropped
<1>8. AddsUp
  BY <1>0, <1>1, <1>2, <1>3, <1>4 DEF Init, AddsUp, Outside
<1> QED
  BY <1>5, <1>6, <1>7, <1>8 DEF SteadyInv

(* With any number of threads, two at least, and of clients, and until two *)
(* pushes or two pops overlap: no context is lost as long as no connection *)
(* closes, no call is refused and every receive takes a whole response;    *)
(* none is ever gained, and so every counter stays within the contexts     *)
(* that Start has made.                                                    *)
THEOREM SteadyCorrect == Spec => [](TypeOK /\ ContextsAddUp)
<1>1. Init => SteadyInv
  BY SteadyInit
<1>2. SteadyInv /\ [Next]_vars => SteadyInv'
  <2> SUFFICES ASSUME SteadyInv, [Next]_vars PROVE SteadyInv'
    OBVIOUS
  <2>1. CASE Next
    BY <2>1, CountsTypeStep, OneReceiveStep, DropsOnlyTroubledStep, AddsUpStep DEF SteadyInv
  <2>2. CASE UNCHANGED vars
    BY <2>2 DEF vars, mainVars, workerVars, systemVars, SteadyInv, CountsTypeOK, OneReceive,
                DropsOnlyTroubled, AddsUp, Outside, WithMain, WithWorker, Sending, ends
  <2> QED
    BY <2>1, <2>2
<1>3. SteadyInv => TypeOK /\ ContextsAddUp
  BY CountsAreBounded DEF SteadyInv, AddsUp, ContextsAddUp
<1> QED
  BY <1>1, <1>2, <1>3, PTL DEF Spec

=============================================================================
