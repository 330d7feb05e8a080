------------------------ MODULE NetworkReceiveProofs ------------------------
(***************************************************************************)
(* Proofs about the receives of Network's clients: each armed client has   *)
(* one, wherever it is, and no other client ever gets one; and about what  *)
(* the number of threads does: one worker leaves the loop of main without  *)
(* contexts, two are enough for Start and Process.                         *)
(***************************************************************************)
EXTENDS NetworkProofs

(* The receives in progress, and those that have completed.                *)
Posted  == {o \in ops : o.op = "recv"}
Arrived == {r \in port : opType[r.ctx] = "OP_RECV"}

(* Process has armed clients of the map only, none of them that it has not *)
(* come to; one that is in no trouble is connected.                        *)
ArmedFit ==
  /\ \A c \in Clients : conn[c] = "closed" => c \in troubled
  /\ ~raced =>
       /\ armed \subseteq mClientMap /\ toArm \cap armed = {}
       /\ \A c \in armed \ troubled : conn[c] = "up"

(* Only armed clients receive. *)
ReceivesAreArmed ==
  /\ \A o \in Posted : o.client \in armed
  /\ \A r \in Arrived : r.client \in armed
  /\ \A t \in Workers : client[t] # 0 => client[t] \in armed

(* No two of the receives posted, completed and about to be posted again   *)
(* are of one client.                                                      *)
NoTwoReceives ==
  /\ \A o1, o2 \in Posted : o1.client = o2.client => o1 = o2
  /\ \A r1, r2 \in Arrived : r1.client = r2.client => r1 = r2
  /\ \A t1, t2 \in Workers : client[t1] = client[t2] /\ client[t1] # 0 => t1 = t2
  /\ \A o \in Posted, r \in Arrived : o.client # r.client
  /\ \A o \in Posted, t \in Workers : o.client # client[t]
  /\ \A r \in Arrived, t \in Workers : r.client # client[t]

HasReceive(c) ==
  \/ \E o \in Posted : o.client = c
  \/ \E r \in Arrived : r.client = c
  \/ \E t \in Workers : client[t] = c

(* A receive of a client in no trouble completes with a response, and an   *)
(* armed client in no trouble has a receive somewhere.                     *)
UntroubledReceive ==
  /\ \A r \in Arrived : r.client \notin troubled => r.ok /\ r.msg = "response"
  /\ \A c \in armed \ troubled : HasReceive(c)

ReceivesFit == ~raced => ReceivesAreArmed /\ NoTwoReceives /\ UntroubledReceive
-----------------------------------------------------------------------------

(* A context handed over leaves the completions' types alone; the receives *)
(* change only if it is posted as one.                                     *)
LEMMA HandOverKeepsReceives ==
  ASSUME NetworkTypeOK, OneOwner, EachInOneOperation, ~raced, NEW t \in Threads, HandOver(t),
         NEW type, opType' = opType \/ opType' = [opType EXCEPT ![hand[t]] = type],
         UNCHANGED port
  PROVE  /\ Arrived' = Arrived
         /\ ops' = ops => Posted' = Posted
         /\ hand[t] \notin {o.ctx : o \in ops}
<1>1. /\ hand[t] \in Contexts /\ hand[t] \notin away
      /\ \A r \in port : r.ctx # hand[t] /\ r.ctx \in Contexts
  BY HeldIsNotAway DEF HandOver, EachInOneOperation, NetworkTypeOK, SystemTypeOK, Completions
<1>2. \A r \in port : opType'[r.ctx] = opType[r.ctx]
  BY <1>1 DEF NetworkTypeOK, SystemTypeOK
<1>3. hand[t] \notin {o.ctx : o \in ops}
  BY <1>1 DEF EachInOneOperation
<1> QED
  BY <1>2, <1>3 DEF Arrived, Posted

(* A receive that ends becomes a completion, of the same client; any other *)
(* operation that ends is none.                                            *)
LEMMA EndOfReceive ==
  ASSUME NetworkTypeOK, EachInOneOperation, RegisteredOnly, NEW o \in ops, NEW ok, NEW msg,
         Complete(o, ok, msg)
  PROVE  /\ o.op # "recv" => Posted' = Posted /\ Arrived' = Arrived
         /\ o.op = "recv" =>
              /\ Posted' = Posted \ {o}
              /\ Arrived' = Arrived \cup {[ctx |-> o.ctx, client |-> o.client,
                                           ok |-> ok, msg |-> msg]}
<1> DEFINE new == [ctx |-> o.ctx, client |-> o.client, ok |-> ok, msg |-> msg]
<1>1. /\ ops' = ops \ {o} /\ opType' = opType
      /\ port' = IF o.client \in Registered THEN port \cup {new} ELSE port
  BY DEF Complete
<1>2. opType[o.ctx] = TypeOfOp[o.op] /\ o.op \in {"connect", "recv", "send"}
  BY DEF EachInOneOperation, NetworkTypeOK, SystemTypeOK, Operations
<1>3. opType[o.ctx] = "OP_RECV" <=> o.op = "recv"
  BY <1>2 DEF TypeOfOp
<1>4. new.ctx = o.ctx
  OBVIOUS
<1> HIDE DEF new
<1>5. CASE o.op # "recv"
  BY <1>1, <1>3, <1>4, <1>5 DEF Posted, Arrived
<1>6. CASE o.op = "recv"
  <2>1. port' = port \cup {new}
    BY <1>1, <1>6 DEF RegisteredOnly
  <2> QED
    BY <1>1, <1>3, <1>4, <1>6, <2>1 DEF Posted, Arrived, new
<1> QED
  BY <1>5, <1>6

(* A completion that a worker takes is no longer a receive, and no other   *)
(* completion changes.                                                     *)
LEMMA TakeOfReceive ==
  ASSUME NetworkTypeOK, EachInOneOperation, NEW r \in port,
         port' = port \ {r}, ops' = ops,
         opType' = opType \/ opType' = [opType EXCEPT ![r.ctx] = "OP_DEFAULT"]
  PROVE  Posted' = Posted /\ Arrived' = Arrived \ {r}
<1>1. \A q \in port' : opType'[q.ctx] = opType[q.ctx]
  BY DEF EachInOneOperation, NetworkTypeOK, SystemTypeOK, Completions
<1> QED
  BY <1>1 DEF Posted, Arrived

(* Process arms a client of the map when it comes to it; a worker posts    *)
(* receives for clients that are armed already.                            *)
LEMMA ArmedFitStep ==
  ASSUME NetworkTypeOK, IndicesInRange, PhaseInv, ArmedFit, ReceivesFit, NetworkNext
  PROVE  ArmedFit'
<1>0. /\ armed \subseteq Clients /\ conn \in [Clients -> SocketStates]
      /\ toArm \subseteq mClientMap /\ toArm \subseteq Clients /\ troubled \subseteq troubled'
      /\ \A c \in Clients : conn[c] = "closed" => c \in troubled
      /\ ~raced' =>
           /\ ~raced /\ armed \subseteq mClientMap /\ toArm \cap armed = {}
           /\ \A c \in armed \ troubled : conn[c] = "up"
  BY RacedIsForEver, HistoriesGrow
     DEF ArmedFit, NetworkTypeOK, SystemTypeOK, ControlTypeOK, PhaseInv, MapTried
<1>1. CASE UNCHANGED << armed, toArm, mClientVector, conn, key >>
  BY <1>0, <1>1 DEF ArmedFit, mClientMap, MapOf
<1>2. ASSUME armed = {}, armed' = {}, \A c \in Clients : conn'[c] = "closed" => conn[c] = "closed"
      PROVE  ArmedFit'
  BY <1>0, <1>2 DEF ArmedFit
<1>3. CASE StartFails \/ CreateSocket \/ SkipSocket \/ StartConnects \/ Associate
  <2>1. armed = {} /\ armed' = {}
    BY <1>3 DEF PhaseInv, StartFirst, StartLabels, StartFails, CreateSocket, SkipSocket,
                StartConnects, Associate, NextSocket, systemVars
  <2>2. \A c \in Clients : conn'[c] = "closed" => conn[c] = "closed"
    BY <1>0, <1>3 DEF StartFails, CreateSocket, SkipSocket, StartConnects, ConnectEx, Associate,
                      NextSocket, systemVars
  <2> QED
    BY <1>2, <2>1, <2>2
<1>4. CASE ProcessArms
  <2>1. PICK c \in toArm : /\ ReceiveReady(Main, c) /\ toArm' = toArm \ {c}
                           /\ UNCHANGED << mClientVector, conn, key >>
    BY <1>4 DEF ProcessArms, NetworkNext
  <2>2. armed' = armed \/ (armed' = armed \cup {c} /\ conn[c] \in {"up", "closed"})
    BY <2>1 DEF ReceiveReady
  <2>3. c \in Clients /\ mClientMap' = mClientMap
    BY <1>0, <2>1 DEF mClientMap, MapOf
  <2> QED
    BY <1>0, <2>1, <2>2, <2>3 DEF ArmedFit
<1>5. CASE SendRequest
  BY <1>1, <1>5 DEF SendRequest, NetworkNext
<1>6. ASSUME NEW t \in Workers, WorkerStep(t)
      PROVE  ArmedFit'
  <2>1. CASE Rearm(t)
    <3>1. /\ UNCHANGED << toArm, mClientVector, conn, key >>
          /\ armed' \subseteq armed \cup {client[t]}
      BY <2>1 DEF Rearm, ReceiveReady, NetworkNext, mainVars
    <3>2. ~raced => client[t] \in armed
      BY <1>0, <2>1 DEF Rearm, ReceivesFit, ReceivesAreArmed, IndicesInRange
    <3>3. mClientMap' = mClientMap
      BY <3>1 DEF mClientMap, MapOf
    <3> QED
      BY <1>0, <3>1, <3>2, <3>3 DEF ArmedFit
  <2>2. CASE ForgetRefused(t) \/ \E r \in port : IgnoreCompletion(t, r) \/ HandleCompletion(t, r)
    BY <1>1, <2>2 DEF ForgetRefused, IgnoreCompletion, HandleCompletion, NetworkNext, mainVars,
                      systemVars, ArmedFit
  <2> QED
    BY <1>6, <2>1, <2>2 DEF WorkerStep
<1>7. CASE SystemStep
  <2>1. UNCHANGED << armed, toArm, mClientVector, key >>
    BY <1>7 DEF SystemStep, ConnectDone, SendDone, ReceiveDone, DoneByClose, PeerCloses, Complete,
                mainVars, NetworkNext
  <2>2. ASSUME NEW o \in ops, ConnectDone(o)
        PROVE  ArmedFit'
    <3>1. /\ conn[o.client] = "open" /\ o.client \in Clients
          /\ \E state \in {"up", "refused"} : conn' = [conn EXCEPT ![o.client] = state]
      BY <2>2 DEF ConnectDone, NetworkTypeOK, SystemTypeOK, Operations
    <3>2. \A c \in Clients : conn[c] \in {"up", "closed"} \/ conn'[c] = "closed" => conn'[c] = conn[c]
      BY <1>0, <3>1
    <3> QED
      BY <1>0, <2>1, <3>2 DEF ArmedFit, mClientMap, MapOf
  <2>3. ASSUME NEW c \in Clients, PeerCloses(c)
        PROVE  ArmedFit'
    BY <1>0, <2>1, <2>3 DEF PeerCloses, ArmedFit, mClientMap, MapOf
  <2>4. CASE \E o \in ops : SendDone(o) \/ ReceiveDone(o) \/ DoneByClose(o)
    BY <1>1, <2>1, <2>4 DEF SendDone, ReceiveDone, DoneByClose
  <2> QED
    BY <1>7, <2>2, <2>3, <2>4 DEF SystemStep
<1>8. CASE \E t \in Threads : CallQueue(t) \/ UseNull(t)
  BY <1>1, <1>8 DEF CallQueue, UseNull, Crash, mainVars, systemVars, NetworkNext
<1> QED
  BY <1>3, <1>4, <1>5, <1>6, <1>7, <1>8, NetworkAssumption DEF NetworkNext, MainStep

(* find() returns an armed client itself.                                  *)
LEMMA FindsTheArmed ==
  ASSUME NetworkTypeOK, ArmedFit, ~raced, NEW c \in armed
  PROVE  Finds(c) = {c}
BY MapHasOneOfAKey DEF ArmedFit, Finds, mClientMap, NetworkTypeOK, ControlTypeOK

(* Every step moves a receive on, or ends it for a client in trouble, or   *)
(* posts the first one of a client.                                        *)
LEMMA ReceivesFitStep ==
  ASSUME NetworkTypeOK, IndicesInRange, PhaseInv, SafetyInv, OneOwner, ArmedFit, ReceivesFit,
         NetworkNext
  PROVE  ReceivesFit'
<1> DEFINE Fit == ReceivesAreArmed /\ NoTwoReceives /\ UntroubledReceive
<1> SUFFICES ASSUME ~raced'
             PROVE  Fit'
  BY DEF ReceivesFit
<1> USE DEF ReceivesAreArmed, NoTwoReceives, UntroubledReceive, HasReceive
<1>0. /\ ~raced /\ PoolTypeOK /\ Main \in Threads /\ Workers \subseteq Threads
      /\ EachInOneOperation /\ RegisteredOnly
      /\ client \in [Workers -> Clients \cup {0}] /\ 0 \notin Clients
      /\ armed \subseteq Clients /\ toArm \subseteq Clients
  BY RacedIsForEver, NetworkAssumption
     DEF SafetyInv, OperationsApart, NetworkTypeOK, ControlTypeOK, SystemTypeOK, Clients
<1>1. Fit
  BY <1>0 DEF ReceivesFit
<1>2. troubled \subseteq troubled'
  BY HistoriesGrow
<1>3. \A r \in Arrived : r.client \in Clients
  BY DEF Arrived, NetworkTypeOK, SystemTypeOK, Completions
<1>4. CASE UNCHANGED << Posted, Arrived, client, armed >>
  BY <1>1, <1>2, <1>4
<1>5. CASE UNCHANGED << ops, port, opType, client, armed >>
  BY <1>4, <1>5 DEF Posted, Arrived
<1>6. CASE StartFails \/ CreateSocket \/ SkipSocket \/ Associate
  BY <1>5, <1>6 DEF StartFails, CreateSocket, SkipSocket, Associate, NextSocket, systemVars
<1>7. CASE StartConnects
  <2>1. /\ HandOver(Main) /\ opType' = [opType EXCEPT ![hand[Main]] = "OP_ACCEPT"]
        /\ UNCHANGED << port, client, armed >>
        /\ ops' = ops \/ ops' = ops \cup {[ctx |-> hand[Main], client |-> i, op |-> "connect"]}
    BY <1>7 DEF StartConnects, ConnectEx
  <2>2. Posted' = Posted
    BY <2>1 DEF Posted
  <2>3. Arrived' = Arrived
    BY <1>0, <2>1, HandOverKeepsReceives
  <2> QED
    BY <1>4, <2>1, <2>2, <2>3
<1>8. CASE ProcessArms
  <2>1. PICK c \in toArm : ReceiveReady(Main, c) /\ UNCHANGED << port, client >>
    BY <1>8 DEF ProcessArms
  <2>2. c \notin armed /\ c \in Clients
    BY <1>0 DEF ArmedFit
  <2>3. CASE UNCHANGED << opType, ops, armed >>
    BY <1>5, <2>1, <2>3
  <2>4. CASE HandOver(Main) /\ opType' = [opType EXCEPT ![hand[Main]] = "OP_RECV"]
    <3> DEFINE new == [ctx |-> hand[Main], client |-> c, op |-> "recv"]
    <3>1. Arrived' = Arrived /\ (ops' = ops => Posted' = Posted)
      BY <1>0, <2>1, <2>4, HandOverKeepsReceives
    <3>2. CASE UNCHANGED << ops, armed >>
      BY <1>4, <2>1, <3>1, <3>2
    <3>3. CASE ops' = ops \cup {new} /\ armed' = armed \cup {c}
      <4>1. Posted' = Posted \cup {new} /\ new.client = c
        BY <3>3 DEF Posted
      <4>2. /\ \A o \in Posted : o.client # c
            /\ \A r \in Arrived : r.client # c
            /\ \A t \in Workers : client[t] # c
        BY <1>0, <1>1, <2>2
      <4> HIDE DEF new
      <4> QED
        BY <1>1, <1>2, <2>1, <3>1, <3>3, <4>1, <4>2
    <3> QED
      BY <2>1, <2>4, <3>2, <3>3 DEF ReceiveReady
  <2> QED
    BY <2>1, <2>3, <2>4 DEF ReceiveReady
<1>9. CASE SendRequest
  <2>1. UNCHANGED << port, client, armed >>
    BY <1>9 DEF SendRequest
  <2>2. CASE UNCHANGED << opType, ops >>
    BY <1>5, <2>1, <2>2
  <2>3. CASE Send(mClientVector[i])
    <3>1. /\ HandOver(Main)
          /\ opType' = opType \/ opType' = [opType EXCEPT ![hand[Main]] = "OP_SEND"]
          /\ \/ ops' = ops
             \/ ops' = ops \cup {[ctx |-> hand[Main], client |-> mClientVector[i],
                                  op |-> "send"]}
      BY <2>3 DEF Send
    <3>2. Posted' = Posted
      BY <3>1 DEF Posted
    <3>3. Arrived' = Arrived
      BY <1>0, <2>1, <3>1, HandOverKeepsReceives
    <3> QED
      BY <1>4, <2>1, <3>2, <3>3
  <2> QED
    BY <1>9, <2>2, <2>3 DEF SendRequest
<1>10. ASSUME NEW t \in Workers, Rearm(t)
       PROVE  Fit'
  <2>1. /\ ReceiveReady(t, client[t]) /\ client' = [client EXCEPT ![t] = 0]
        /\ UNCHANGED port
    BY <1>10 DEF Rearm
  <2>2. client[t] \in armed /\ client[t] \in Clients /\ t \in Threads
    BY <1>0, <1>1, <1>10 DEF Rearm, IndicesInRange
  <2>3. ASSUME Posted' = Posted, Arrived' = Arrived, armed' = armed, client[t] \in troubled'
        PROVE  Fit'
    BY <1>0, <1>1, <1>2, <2>1, <2>2, <2>3
  <2>4. CASE UNCHANGED << opType, ops, armed >> /\ client[t] \in troubled'
    BY <2>1, <2>3, <2>4 DEF Posted, Arrived
  <2>5. CASE HandOver(t) /\ opType' = [opType EXCEPT ![hand[t]] = "OP_RECV"]
    <3> DEFINE new == [ctx |-> hand[t], client |-> client[t], op |-> "recv"]
    <3>1. Arrived' = Arrived /\ (ops' = ops => Posted' = Posted)
      BY <1>0, <2>1, <2>2, <2>5, HandOverKeepsReceives
    <3>2. CASE UNCHANGED << ops, armed >> /\ client[t] \in troubled'
      BY <2>3, <3>1, <3>2
    <3>3. CASE ops' = ops \cup {new} /\ armed' = armed \cup {client[t]}
      <4>1. Posted' = Posted \cup {new} /\ new.client = client[t]
        BY <3>3 DEF Posted
      <4>2. armed' = armed
        BY <2>2, <3>3
      <4>3. /\ client'[t] = 0
            /\ \A u \in Workers \ {t} : client'[u] = client[u] /\ client[u] # client[t]
        BY <1>0, <1>1, <2>1, <2>2
      <4> HIDE DEF new
      <4> QED
        BY <1>0, <1>1, <1>2, <2>1, <2>2, <3>1, <4>1, <4>2, <4>3
    <3> QED
      BY <2>1, <2>5, <3>2, <3>3 DEF ReceiveReady
  <2> QED
    BY <2>1, <2>4, <2>5 DEF ReceiveReady
<1>11. ASSUME NEW t \in Workers, NEW r \in port, IgnoreCompletion(t, r)
       PROVE  Fit'
  <2>1. /\ port' = port \ {r} /\ Ignored(r)
        /\ UNCHANGED << ops, opType, client, armed >>
    BY <1>11 DEF IgnoreCompletion
  <2>2. Posted' = Posted /\ Arrived' = Arrived \ {r}
    BY <1>0, <2>1, TakeOfReceive
  <2>3. r \in Arrived => r.client \in troubled
    <3>1. r \in Arrived => Finds(r.client) = {r.client}
      BY <1>0, <1>1, FindsTheArmed
    <3> QED
      BY <1>1, <2>1, <3>1 DEF Ignored
  <2> QED
    BY <1>1, <1>2, <2>1, <2>2, <2>3
<1>12. ASSUME NEW t \in Workers, NEW r \in port, HandleCompletion(t, r)
       PROVE  Fit'
  <2>1. /\ port' = port \ {r} /\ opType' = [opType EXCEPT ![r.ctx] = "OP_DEFAULT"]
        /\ UNCHANGED << ops, armed >> /\ at[t] = "wait"
    BY <1>12 DEF HandleCompletion
  <2>2. Posted' = Posted /\ Arrived' = Arrived \ {r}
    BY <1>0, <2>1, TakeOfReceive
  <2>3. CASE r \in Arrived
    <3>1. r.client \in armed /\ r.client \in Clients
      BY <1>0, <1>1, <2>3
    <3>2. client' = [client EXCEPT ![t] = r.client]
      BY <1>0, <1>12, <2>3, <3>1, FindsTheArmed DEF HandleCompletion, Arrived
    <3>3. client[t] = 0
      BY <2>1 DEF PhaseInv, ClientsFit, RearmLabels
    <3>4. client'[t] = r.client /\ \A u \in Workers \ {t} : client'[u] = client[u]
      BY <1>0, <3>2
    <3>5. ReceivesAreArmed' /\ NoTwoReceives'
      BY <1>0, <1>1, <2>1, <2>2, <2>3, <3>1, <3>4
    <3>6. UntroubledReceive'
      BY <1>0, <1>1, <1>2, <2>1, <2>2, <2>3, <3>1, <3>3, <3>4
    <3> QED
      BY <3>5, <3>6
  <2>4. CASE r \notin Arrived
    <3>1. UNCHANGED client
      BY <1>12, <2>4 DEF HandleCompletion, Arrived
    <3> QED
      BY <1>4, <2>1, <2>2, <2>4, <3>1
  <2> QED
    BY <2>3, <2>4
<1>13. ASSUME NEW o \in ops, NEW ok, NEW msg, Complete(o, ok, msg),
              o.op = "recv" /\ o.client \notin troubled' => ok /\ msg = "response"
       PROVE  Fit'
  <2>1. UNCHANGED << client, armed >>
    BY <1>13 DEF Complete
  <2>2. CASE o.op # "recv"
    BY <1>0, <1>4, <1>13, <2>1, <2>2, EndOfReceive
  <2>3. CASE o.op = "recv"
    <3> DEFINE new == [ctx |-> o.ctx, client |-> o.client, ok |-> ok, msg |-> msg]
    <3>1. Posted' = Posted \ {o} /\ Arrived' = Arrived \cup {new}
      BY <1>0, <1>13, <2>3, EndOfReceive
    <3>2. new.client = o.client /\ new.ok = ok /\ new.msg = msg /\ o \in Posted
      BY <2>3 DEF Posted
    <3> HIDE DEF new
    <3>3. /\ \A p \in Posted' : p \in Posted /\ p.client # o.client
          /\ \A t \in Workers : client[t] # o.client
      BY <1>1, <3>1, <3>2
    <3>4. ReceivesAreArmed' /\ NoTwoReceives'
      BY <1>1, <2>1, <3>1, <3>2, <3>3
    <3>5. UntroubledReceive'
      BY <1>1, <1>2, <1>13, <2>1, <2>3, <3>1, <3>2
    <3> QED
      BY <3>4, <3>5
  <2> QED
    BY <2>2, <2>3
<1>14. CASE SystemStep
  <2>1. ASSUME NEW o \in ops, ConnectDone(o) \/ SendDone(o) \/ ReceiveDone(o) \/ DoneByClose(o)
        PROVE  Fit'
    <3>1. PICK ok, msg :
            /\ Complete(o, ok, msg)
            /\ o.op = "recv" /\ o.client \notin troubled' => ok /\ msg = "response"
      <4>1. CASE ConnectDone(o) \/ SendDone(o) \/ ReceiveDone(o)
        BY <2>1, <4>1 DEF ConnectDone, SendDone, ReceiveDone
      <4>2. CASE DoneByClose(o)
        <5>1. conn[o.client] \in {"closed", "reset"} /\ \E ok, msg : Complete(o, ok, msg)
          BY <4>2 DEF DoneByClose
        <5>2. o.op = "recv" => o.client \in armed /\ o.client \in Clients
          BY <1>0, <1>1 DEF Posted
        <5> QED
          BY <1>0, <1>2, <5>1, <5>2 DEF ArmedFit
      <4> QED
        BY <2>1, <4>1, <4>2
    <3> QED
      BY <1>13, <3>1
  <2>2. ASSUME NEW c \in Clients, PeerCloses(c)
        PROVE  Fit'
    BY <1>5, <2>2 DEF PeerCloses
  <2> QED
    BY <1>14, <2>1, <2>2 DEF SystemStep
<1>15. CASE \E t \in Threads : CallQueue(t) \/ UseNull(t)
  BY <1>5, <1>15 DEF CallQueue, UseNull, Crash, systemVars
<1>16. ASSUME NEW t \in Workers, ForgetRefused(t)
       PROVE  Fit'
  BY <1>5, <1>16 DEF ForgetRefused, systemVars
<1> QED
  BY <1>6, <1>7, <1>8, <1>9, <1>10, <1>11, <1>12, <1>14, <1>15, <1>16
     DEF NetworkNext, MainStep, WorkerStep

(* The receives keep to their clients for ever.                            *)
LEMMA ReceivesCorrect == NetworkSpec => [](ArmedFit /\ ReceivesFit)
<1>1. NetworkInit => ArmedFit /\ ReceivesFit
  <2> SUFFICES ASSUME NetworkInit PROVE ArmedFit /\ ReceivesFit
    OBVIOUS
  <2>1. ArmedFit
    BY DEF NetworkInit, ArmedFit
  <2>2. Posted = {} /\ Arrived = {} /\ armed = {} /\ \A t \in Workers : client[t] = 0
    BY DEF NetworkInit, Posted, Arrived
  <2> QED
    BY <2>1, <2>2 DEF ReceivesFit, ReceivesAreArmed, NoTwoReceives, UntroubledReceive
<1>2. /\ NetworkTypeOK /\ IndicesInRange /\ PhaseInv /\ SafetyInv /\ OneOwner
      /\ ArmedFit /\ ReceivesFit /\ [NetworkNext]_networkVars
      => (ArmedFit /\ ReceivesFit)'
  <2> SUFFICES ASSUME NetworkTypeOK, IndicesInRange, PhaseInv, SafetyInv, OneOwner,
                      ArmedFit, ReceivesFit, [NetworkNext]_networkVars
               PROVE  ArmedFit' /\ ReceivesFit'
    OBVIOUS
  <2>1. CASE UNCHANGED networkVars
    <3>1. ArmedFit'
      BY <2>1 DEF networkVars, poolVars, queueVars, mainVars, systemVars, ArmedFit, mClientMap, MapOf
    <3>2. UNCHANGED << raced, Posted, Arrived, client, armed, troubled >>
      BY <2>1 DEF networkVars, poolVars, queueVars, systemVars, Posted, Arrived
    <3>3. ReceivesFit'
      BY <3>2 DEF ReceivesFit, ReceivesAreArmed, NoTwoReceives, UntroubledReceive, HasReceive
    <3> QED
      BY <3>1, <3>3
  <2>2. CASE NetworkNext
    BY <2>2, ArmedFitStep, ReceivesFitStep
  <2> QED
    BY <2>1, <2>2
<1> QED
  BY <1>1, <1>2, NetworkTypeCorrect, PhaseCorrect, SafetyCorrect, NetworkPoolFacts, PTL
     DEF NetworkSpec

(* A set without two elements has none or one.                             *)
LEMMA AtMostOne ==
  ASSUME NEW S, \A x, y \in S : x = y
  PROVE  Cardinality(S) = IF S = {} THEN 0 ELSE 1
<1>1. CASE S = {}
  BY <1>1, FS_EmptySet
<1>2. CASE S # {}
  <2>1. PICK x : S = {x}
    BY <1>2
  <2> QED
    BY <1>2, <2>1, FS_Singleton
<1> QED
  BY <1>1, <1>2

(* Until two calls of the queue of one kind overlap: a client never has    *)
(* two receives, and one that Process has armed has one until a call fails *)
(* or is refused for it, its connection is closed, or one of its receives  *)
(* gets anything but a whole response, whatever happens to the others.     *)
THEOREM OneReceiveForEverCorrect == NetworkSpec => []OneReceiveForEver
<1>1. NetworkTypeOK /\ ReceivesFit => OneReceiveForEver
  <2> SUFFICES ASSUME NetworkTypeOK, ReceivesFit, ~raced, NEW c \in Clients
               PROVE  Receives(c) <= 1 /\ (c \in armed \ troubled => Receives(c) = 1)
    BY DEF OneReceiveForEver
  <2> DEFINE O == {o \in ops : o.op = "recv" /\ o.client = c}
             R == {r \in port : opType[r.ctx] = "OP_RECV" /\ r.client = c}
             W == {t \in Workers : client[t] = c}
  <2>1. c # 0
    BY NetworkAssumption DEF Clients
  <2>2. O = {o \in Posted : o.client = c} /\ R = {r \in Arrived : r.client = c}
    BY DEF Posted, Arrived
  <2>3. /\ \A x, y \in O : x = y
        /\ \A x, y \in R : x = y
        /\ \A x, y \in W : x = y
        /\ O = {} \/ R = {}
        /\ O = {} \/ W = {}
        /\ R = {} \/ W = {}
    BY <2>1, <2>2 DEF ReceivesFit, NoTwoReceives
  <2>4. c \in armed \ troubled => O # {} \/ R # {} \/ W # {}
    BY <2>2 DEF ReceivesFit, UntroubledReceive, HasReceive
  <2>5. Receives(c) = Cardinality(O) + Cardinality(R) + Cardinality(W)
    BY DEF Receives
  <2> HIDE DEF O, R, W
  <2>6. /\ Cardinality(O) = IF O = {} THEN 0 ELSE 1
        /\ Cardinality(R) = IF R = {} THEN 0 ELSE 1
        /\ Cardinality(W) = IF W = {} THEN 0 ELSE 1
    BY <2>3, AtMostOne
  <2> QED
    BY <2>3, <2>4, <2>5, <2>6
<1> QED
  BY <1>1, NetworkTypeCorrect, ReceivesCorrect, PTL

(* After Process, and until two calls of a kind overlap, no client that is *)
(* not armed ever is.                                                      *)
THEOREM DeafForGoodCorrect == NetworkSpec => DeafForGood
<1>1. /\ NetworkTypeOK /\ IndicesInRange /\ ReceivesFit /\ [NetworkNext]_networkVars
      => [at[Main] \in {"sendPop", "send"} /\ ~raced' => armed' = armed]_networkVars
  <2> SUFFICES ASSUME NetworkTypeOK, IndicesInRange, ReceivesFit, NetworkNext,
                      at[Main] \in {"sendPop", "send"}, ~raced'
               PROVE  armed' = armed
    BY DEF networkVars
  <2>1. ~raced
    BY RacedIsForEver DEF NetworkTypeOK
  <2>2. ASSUME NEW t \in Workers, Rearm(t)
        PROVE  armed' = armed
    <3>1. client[t] \in armed
      BY <2>1, <2>2 DEF Rearm, ReceivesFit, ReceivesAreArmed, IndicesInRange
    <3> QED
      BY <2>2, <3>1 DEF Rearm, ReceiveReady
  <2>3. CASE MainStep
    BY <2>3 DEF MainStep, StartFails, CreateSocket, SkipSocket, StartConnects, Associate,
                ProcessArms, SendRequest
  <2>4. CASE SystemStep \/ \E t \in Threads : CallQueue(t) \/ UseNull(t)
    BY <2>4 DEF SystemStep, ConnectDone, SendDone, ReceiveDone, DoneByClose, PeerCloses, Complete,
                CallQueue, UseNull, Crash
  <2> QED
    BY <2>2, <2>3, <2>4 DEF NetworkNext, WorkerStep, IgnoreCompletion, HandleCompletion,
                            ForgetRefused
<1> QED
  BY <1>1, NetworkTypeCorrect, ReceivesCorrect, PTL DEF NetworkSpec, DeafForGood

-----------------------------------------------------------------------------

(* The contexts of the receives in progress: one for each client that has  *)
(* one, so fewer than the clients of which one has none.                   *)
LEMMA PostedContexts ==
  ASSUME NetworkTypeOK, NoTwoReceives, NEW K \in SUBSET Clients,
         \A o \in Posted : o.client \in K
  PROVE  /\ IsFiniteSet({o.ctx : o \in Posted})
         /\ Cardinality({o.ctx : o \in Posted}) <= Cardinality(K)
<1> DEFINE X == {o.ctx : o \in Posted}
           OpOf(x) == CHOOSE o \in Posted : o.ctx = x
           f == [x \in X |-> OpOf(x).client]
<1>1. \A x \in X : OpOf(x) \in Posted /\ OpOf(x).ctx = x
  OBVIOUS
<1>2. f \in [X -> K]
  BY <1>1
<1>3. ASSUME NEW x \in X, NEW y \in X, f[x] = f[y]
      PROVE  x = y
  <2>1. OpOf(x).client = OpOf(y).client
    BY <1>3
  <2>2. OpOf(x) = OpOf(y)
    BY <1>1, <2>1 DEF NoTwoReceives
  <2> QED
    BY <1>1, <2>2
<1>4. f \in Injection(X, K)
  BY <1>2, <1>3 DEF Injection, IsInjective
<1>5. IsFiniteSet(K)
  <2>1. IsFiniteSet(Clients)
    BY NetworkAssumption, FS_Interval DEF Clients
  <2> QED
    BY <2>1, FS_Subset
<1> QED
  BY <1>4, <1>5, FS_Injection

(* Until a race the receives alone never keep the pool from a worker: when *)
(* it finds the pool empty, more than (threads - 1) * clients contexts are *)
(* elsewhere.                                                              *)
THEOREM WorkerStarvesCorrect == NetworkSpec => WorkerStarvesOnlyIfDrained
<1> DEFINE Elsewhere == Contexts \ (Queued \cup {o.ctx : o \in {p \in ops : p.op = "recv"}})
           Starves(t) == ~raced /\ pc[t] = "popLoaded" /\ pc'[t] = "idle"
           Drained == Cardinality(Elsewhere) > (Cardinality(Workers) - 1) * ClientCount
<1>1. /\ NetworkTypeOK /\ PhaseInv /\ SerialInv /\ ReceivesFit /\ [NetworkNext]_networkVars
      => [\A t \in Workers : Starves(t) => Drained]_networkVars
  <2> SUFFICES ASSUME NetworkTypeOK, PhaseInv, SerialInv, ReceivesFit, NetworkNext,
                      NEW t \in Workers, Starves(t)
               PROVE  Drained
    OBVIOUS
  <2>0. t \in Threads /\ TypeOK /\ PoolTypeOK
    BY NetworkAssumption DEF NetworkTypeOK, PoolTypeOK
  <2>1. PopEmpty(t)
    <3>1. [PoolNext]_poolVars
      BY NetworkPoolStep DEF NetworkTypeOK
    <3>2. \E u \in Threads : QueueStep(u)
      BY <3>1 DEF PoolNext, HandOver, TakeOver, poolVars, queueVars
    <3> QED
      BY <2>0, <3>2 DEF TypeOK, QueueStep, PushLoadInput, PushFull, PushHasRoom, PushWrite,
         PushStoreInput, PopLoadOutput, PopEmpty, PopHasItem, PopRead, PopStoreOutput, Return
  <2>2. Queued = {}
    <3>1. mOutputIndex = mInputIndex
      BY <2>0, <2>1 DEF PopEmpty, SerialInv, PopIsCurrent, PopPcs
    <3>2. InUse = {}
      BY <2>0, <3>1, QueueAssumption DEF InUse, FromUpTo, TypeOK, Slots
    <3> QED
      BY <3>2 DEF Queued
  <2>3. client[t] \in Clients
    <3>1. at[t] \in RearmLabels
      BY <2>0 DEF PhaseInv, CallsFit, PopPcs, PopLabels, RearmLabels, NetworkTypeOK,
                  ControlTypeOK, WorkerLabels
    <3> QED
      BY <3>1 DEF PhaseInv, ClientsFit, NetworkTypeOK, ControlTypeOK
  <2> DEFINE X == {o.ctx : o \in Posted}
             K == Clients \ {client[t]}
  <2>4. Elsewhere = Contexts \ X /\ X \subseteq Contexts
    BY <2>2 DEF Posted, NetworkTypeOK, SystemTypeOK, Operations
  <2>5. Cardinality(K) = ClientCount - 1
    <3>1. IsFiniteSet(Clients) /\ Cardinality(Clients) = ClientCount
      BY NetworkAssumption, FS_Interval DEF Clients
    <3> QED
      BY <2>3, <3>1, FS_RemoveElement
  <2>6. IsFiniteSet(X) /\ Cardinality(X) <= ClientCount - 1
    <3>1. \A o \in Posted : o.client \in K
      BY DEF ReceivesFit, NoTwoReceives, Posted, NetworkTypeOK, SystemTypeOK, Operations
    <3>2. NoTwoReceives
      BY DEF ReceivesFit
    <3> QED
      BY <2>5, <3>1, <3>2, PostedContexts
  <2>7. /\ Cardinality(Contexts \ X) = Cardinality(Contexts) - Cardinality(X)
        /\ Cardinality(X) \in Nat /\ Cardinality(Contexts) \in Nat
        /\ Cardinality(Workers) \in Nat
    <3>1. Contexts \cap X = X
      BY <2>4
    <3> QED
      BY <2>6, <3>1, PoolAssumption, NetworkAssumption, FS_Difference, FS_CardinalityType
  <2>8. Cardinality(Contexts) = (Cardinality(Workers) - 1) * ClientCount + ClientCount
    BY <2>7, NetworkAssumption
  <2>9. (Cardinality(Workers) - 1) * ClientCount \in Int /\ ClientCount \in Nat
    BY <2>7, NetworkAssumption
  <2> HIDE DEF X, Elsewhere
  <2> QED
    BY <2>4, <2>6, <2>7, <2>8, <2>9
<1>2. NetworkSpec => []SerialInv
  BY NetworkUsesPool, PoolSerialCorrect
<1> QED
  BY <1>1, <1>2, NetworkTypeCorrect, PhaseCorrect, ReceivesCorrect, PTL
     DEF NetworkSpec, WorkerStarvesOnlyIfDrained
-----------------------------------------------------------------------------
(***************************************************************************)
(* The number of threads                                                   *)
(***************************************************************************)

(* Without trouble Start puts every client into the vector.                *)
AllRegistered ==
  troubled = {} =>
    /\ at[Main] \in {"create", "startPop", "connect", "associate"} => 1 .. i - 1 \subseteq Registered
    /\ at[Main] \notin StartLabels => Clients \subseteq Registered

(* One worker, no trouble and no shared key: no request is sent, so none   *)
(* is answered, no receive completes and the worker only gives contexts    *)
(* back, while main only pops them.                                        *)
NeverSends ==
  Cardinality(Workers) = 1 /\ troubled = {} /\ KeysApart =>
    /\ ~raced
    /\ \A o \in ops : o.op # "send"
    /\ \A c \in Clients : owed[c] = 0
    /\ Arrived = {}
    /\ \A t \in Workers : client[t] = 0
-----------------------------------------------------------------------------

(* Start goes on to the next client only when the last one is in the       *)
(* vector, or in trouble.                                                  *)
LEMMA AllRegisteredStep ==
  ASSUME NetworkTypeOK, IndicesInRange, AllRegistered, NetworkNext
  PROVE  AllRegistered'
<1> USE NetworkAssumption DEF Goto, StartLabels
<1> SUFFICES ASSUME troubled' = {}
             PROVE  AllRegistered'
  BY DEF AllRegistered
<1>0. /\ troubled = {} /\ Registered \subseteq Registered'
      /\ at \in [Threads -> MainLabels \cup WorkerLabels] /\ at[Main] \in MainLabels
      /\ Main \in Threads /\ Workers \subseteq Threads /\ Main \notin Workers
      /\ i \in Clients /\ mClientVector \in Seq(Clients)
  BY HistoriesGrow DEF NetworkTypeOK, ControlTypeOK
<1>1. ASSUME i' = i \/ at[Main] \notin StartLabels,
             at'[Main] \in StartLabels => at[Main] \in StartLabels /\ at[Main] # "ended",
             at'[Main] \notin StartLabels => at[Main] \notin StartLabels
      PROVE  AllRegistered'
  BY <1>0, <1>1 DEF AllRegistered, Clients
<1>2. CASE at'[Main] = at[Main] /\ i' = i
  BY <1>0, <1>2 DEF AllRegistered, Clients
<1>3. ASSUME NEW t \in Threads, CallQueue(t)
      PROVE  AllRegistered'
  <2>1. i' = i /\ (at' = at \/ at' = [at EXCEPT ![t] = AfterCall[at[t]]])
    BY <1>3 DEF CallQueue, mainVars
  <2>2. CASE t = Main
    <3>1. at[t] \in {"startPop", "processPop", "sendPop"}
      BY <1>0, <1>3, <2>2 DEF CallQueue, MainLabels, PopLabels, PushLabels
    <3> QED
      BY <1>0, <1>1, <1>2, <2>1, <2>2, <3>1 DEF AfterCall
  <2>3. CASE t # Main
    BY <1>0, <1>2, <2>1, <2>3
  <2> QED
    BY <2>2, <2>3
<1>4. CASE StartFails
  BY <1>0, <1>4 DEF StartFails, AllRegistered
<1>5. CASE CreateSocket \/ StartConnects
  BY <1>0, <1>1, <1>5 DEF CreateSocket, StartConnects, mainVars
<1>6. CASE SkipSocket
  BY <1>6 DEF SkipSocket
<1>7. CASE Associate
  <2>1. /\ Registered' = Registered \cup {i} /\ 1 .. i - 1 \subseteq Registered
    <3>1. mClientVector' = Append(mClientVector, i)
      BY <1>7 DEF Associate, NextSocket
    <3>2. {Append(mClientVector, i)[n] : n \in DOMAIN Append(mClientVector, i)}
            = Registered \cup {i}
      BY <1>0, MapOfAppend DEF Registered
    <3> QED
      BY <1>0, <1>7, <3>1, <3>2 DEF Registered, Associate, AllRegistered
  <2>2. 1 .. i \subseteq Registered'
    BY <1>0, <2>1 DEF Clients
  <2>3. CASE i < ClientCount
    <3>1. i' = i + 1 /\ at'[Main] = "create"
      BY <1>0, <1>7, <2>3 DEF Associate, NextSocket
    <3> QED
      BY <1>0, <2>2, <3>1 DEF AllRegistered, Clients
  <2>4. CASE ~(i < ClientCount)
    <3>1. i = ClientCount
      BY <1>0, <2>4 DEF Clients
    <3>2. at'[Main] \in {"sendPop", "processPop"}
      BY <1>0, <1>7, <2>4 DEF Associate, NextSocket
    <3> QED
      BY <2>2, <3>1, <3>2 DEF AllRegistered, Clients
  <2> QED
    BY <2>3, <2>4
<1>8. CASE ProcessArms \/ SendRequest
  BY <1>0, <1>1, <1>8 DEF ProcessArms, SendRequest, NextRequest
<1>9. ASSUME NEW t \in Workers, WorkerStep(t)
      PROVE  AllRegistered'
  BY <1>0, <1>2, <1>9 DEF WorkerStep, IgnoreCompletion, HandleCompletion, Rearm, ForgetRefused,
                          mainVars
<1>10. ASSUME SystemStep \/ \E t \in Threads : UseNull(t)
       PROVE  AllRegistered'
  BY <1>2, <1>10 DEF SystemStep, ConnectDone, SendDone, ReceiveDone, DoneByClose, PeerCloses,
                     Complete, UseNull, Crash, mainVars
<1> QED
  BY <1>3, <1>4, <1>5, <1>6, <1>7, <1>8, <1>9, <1>10 DEF NetworkNext, MainStep

(* One worker, no trouble and no shared key: once Process has armed the    *)
(* clients their receives hold every context, and main holds none.         *)
LEMMA ReceivesHoldAll ==
  ASSUME NetworkTypeOK, PhaseInv, SafetyInv, OneOwner, ArmedFit, ReceivesFit, AllRegistered,
         NeverSends, Cardinality(Workers) = 1, troubled = {}, KeysApart,
         at[Main] \in {"sendPop", "send"}
  PROVE  {o.ctx : o \in Posted} = Contexts /\ HandOutside[Main] = Null
<1>1. /\ ~raced /\ Arrived = {} /\ toArm = {}
      /\ \A t \in Workers : client[t] = 0
      /\ EachInOneOperation /\ Clients \subseteq Registered /\ mClientMap \subseteq armed
  BY DEF NeverSends, PhaseInv, StartFirst, StartLabels, MapTried, AllRegistered, SafetyInv,
         OperationsApart
<1>2. ASSUME NEW c \in Clients
      PROVE  \E o \in Posted : o.client = c
  <2>1. c \in armed
    <3>1. PICK d \in mClientMap : key[d] = key[c]
      BY <1>1 DEF PhaseInv, MapTried, Finds
    <3>2. d \in Clients
      BY <1>1, <3>1 DEF NetworkTypeOK, SystemTypeOK
    <3> QED
      BY <1>1, <3>1, <3>2 DEF KeysApart
  <2>2. 0 \notin Clients
    BY NetworkAssumption DEF Clients
  <2> QED
    BY <1>1, <2>1, <2>2 DEF ReceivesFit, UntroubledReceive, HasReceive
<1> DEFINE OpOf(c) == CHOOSE o \in Posted : o.client = c
           f == [c \in Clients |-> OpOf(c).ctx]
<1>3. \A c \in Clients : OpOf(c) \in Posted /\ OpOf(c).client = c
  BY <1>2
<1>4. Posted \subseteq Operations
  BY DEF Posted, NetworkTypeOK, SystemTypeOK
<1>5. f \in Injection(Clients, Contexts)
  <2>1. f \in [Clients -> Contexts]
    BY <1>3, <1>4 DEF Operations
  <2>2. ASSUME NEW c \in Clients, NEW d \in Clients, f[c] = f[d]
        PROVE  c = d
    <3>1. OpOf(c) = OpOf(d)
      BY <1>1, <1>3, <2>2 DEF EachInOneOperation, Posted
    <3> QED
      BY <1>3, <3>1
  <2> QED
    BY <2>1, <2>2 DEF Injection, IsInjective
<1>6. Cardinality(Clients) = Cardinality(Contexts)
  <2>1. Cardinality(Clients) = ClientCount
    BY NetworkAssumption, FS_Interval DEF Clients
  <2> QED
    BY <2>1, NetworkAssumption
<1>7. f \in Surjection(Clients, Contexts)
  BY <1>5, <1>6, PoolAssumption, FS_Injection
<1>8. {o.ctx : o \in Posted} = Contexts
  <2>1. Contexts \subseteq {o.ctx : o \in Posted}
    BY <1>3, <1>7 DEF Surjection
  <2> QED
    BY <1>4, <2>1 DEF Operations
<1>9. HandOutside[Main] = Null
  <2>1. Contexts \subseteq away /\ Main \in Threads
    BY <1>1, <1>8, NetworkAssumption DEF EachInOneOperation, Posted
  <2>2. HandOutside[Main] \in Contexts \cup {Null}
    <3>1. HandOutside[Main] \in Contexts \cup {Null, Uninit}
      BY <2>1 DEF HandOutside, NetworkTypeOK, PoolTypeOK, TypeOK, Contexts
    <3>2. HandOutside[Main] \in Held \cup {Null}
      BY <2>1 DEF Held
    <3> QED
      BY <1>1, <2>1, <3>1, <3>2, QueueAssumption DEF OneOwner, Held, Contexts
  <2>3. Held \cap away = {}
    BY <1>1 DEF OneOwner
  <2> QED
    BY <2>1, <2>2, <2>3 DEF Held
<1> QED
  BY <1>8, <1>9

(* No two calls of a kind overlap: the worker only pushes, main only pops. *)
LEMMA OneWorkerNeverRaces ==
  ASSUME NetworkTypeOK, PhaseInv, Cardinality(Workers) = 1, ~raced,
         \A t \in Workers : client[t] = 0, NetworkNext
  PROVE  ~raced'
<1>1. PICK w : Workers = {w}
  BY NetworkAssumption, FS_Singleton
<1>2. Threads = {w, Main} /\ w # Main /\ TypeOK
  BY <1>1, NetworkAssumption DEF NetworkTypeOK, PoolTypeOK
<1>3. at[w] \notin PopLabels /\ at[Main] \notin PushLabels
  BY <1>1 DEF PhaseInv, ClientsFit, RearmLabels, NetworkTypeOK, ControlTypeOK, MainLabels,
              WorkerLabels, PopLabels, PushLabels
<1>4. Pushing \subseteq {w} /\ Popping \subseteq {Main}
  BY <1>2, <1>3 DEF Pushing, Popping, PhaseInv, CallsFit
<1>5. ASSUME NEW t \in Threads, CallQueue(t)
      PROVE  ~raced'
  <2>1. QueueStep(t) /\ (pc[t] = "idle" => (at[t] \in PopLabels <=> hand[t] = Null))
        /\ at[t] \in PopLabels \cup PushLabels
    BY <1>5 DEF CallQueue
  <2>2. CASE PushLoadInput(t)
    <3>1. t = w /\ pc[t] = "idle"
      BY <1>2, <1>3, <2>1, <2>2, QueueAssumption DEF PushLoadInput
    <3>2. Pushing = {}
      BY <1>4, <3>1 DEF Pushing, PushPcs
    <3> QED
      BY <2>2, <3>2 DEF PushLoadInput
  <2>3. CASE PopLoadOutput(t)
    <3>1. t = Main /\ pc[t] = "idle"
      BY <1>2, <1>3, <2>1, <2>3 DEF PopLoadOutput
    <3>2. Popping = {}
      BY <1>4, <3>1 DEF Popping, PopPcs
    <3> QED
      BY <2>3, <3>2 DEF PopLoadOutput
  <2>4. CASE ~PushLoadInput(t) /\ ~PopLoadOutput(t)
    BY <2>1, <2>4 DEF QueueStep, PushFull, PushHasRoom, PushWrite, PushStoreInput, PopEmpty,
                      PopHasItem, PopRead, PopStoreOutput
  <2> QED
    BY <2>2, <2>3, <2>4
<1>6. CASE UNCHANGED poolVars
  BY <1>6 DEF poolVars, queueVars
<1>7. ASSUME NEW t, HandOver(t) \/ \E x : TakeOver(t, x)
      PROVE  ~raced'
  BY <1>7 DEF HandOver, TakeOver
<1>8. CASE MainStep
  BY <1>6, <1>7, <1>8 DEF MainStep, StartFails, CreateSocket, SkipSocket, StartConnects, ConnectEx,
         Associate, NextSocket, ProcessArms, ReceiveReady, SendRequest, Send
<1>9. CASE \E t \in Workers : WorkerStep(t)
  BY <1>6, <1>7, <1>9 DEF WorkerStep, IgnoreCompletion, HandleCompletion, Rearm, ReceiveReady,
         ForgetRefused
<1>10. CASE SystemStep \/ \E t \in Threads : UseNull(t)
  BY <1>6, <1>10 DEF SystemStep, ConnectDone, SendDone, ReceiveDone, DoneByClose, PeerCloses,
                     Complete, UseNull, Crash
<1> QED
  BY <1>5, <1>8, <1>9, <1>10 DEF NetworkNext

(* So main finds no context to send a request with.                        *)
LEMMA NeverSendsStep ==
  ASSUME NetworkTypeOK, IndicesInRange, PhaseInv, SafetyInv, OneOwner, ArmedFit, ReceivesFit,
         AllRegistered, NeverSends, NetworkNext
  PROVE  NeverSends'
<1> SUFFICES ASSUME Cardinality(Workers) = 1, troubled' = {}, KeysApart'
             PROVE  NeverSends'
  BY DEF NeverSends
<1>0. /\ troubled = {} /\ KeysApart /\ ~raced /\ Arrived = {}
      /\ \A o \in ops : o.op # "send"
      /\ \A c \in Clients : owed[c] = 0
      /\ \A t \in Workers : client[t] = 0
  BY HistoriesGrow DEF NetworkNext, KeysApart, NeverSends
<1>1. /\ EachInOneOperation /\ RegisteredOnly /\ SocketsFit
      /\ Main \in Threads /\ Workers \subseteq Threads /\ i \in Clients
      /\ client \in [Workers -> Clients \cup {0}]
  BY <1>0, NetworkAssumption DEF SafetyInv, OperationsApart, NetworkTypeOK, ControlTypeOK
<1>2. ~raced'
  BY <1>0, OneWorkerNeverRaces
<1>3. ASSUME owed' = owed, client' = client, Arrived' = {}, \A o \in ops' : o.op # "send"
      PROVE  NeverSends'
  BY <1>0, <1>2, <1>3 DEF NeverSends
<1>4. CASE UNCHANGED << owed, client, ops, port, opType >>
  BY <1>0, <1>3, <1>4 DEF Arrived
<1>5. ASSUME NEW t \in Threads, HandOver(t), NEW type,
             opType' = opType \/ opType' = [opType EXCEPT ![hand[t]] = type],
             UNCHANGED << owed, client, port >>, NEW new, new.op # "send",
             ops' = ops \/ ops' = ops \cup {new}
      PROVE  NeverSends'
  <2>1. Arrived' = {}
    BY <1>0, <1>1, <1>5, HandOverKeepsReceives
  <2> QED
    BY <1>0, <1>3, <1>5, <2>1
<1>6. CASE StartFails \/ CreateSocket \/ SkipSocket \/ Associate
  BY <1>4, <1>6 DEF StartFails, CreateSocket, SkipSocket, Associate, NextSocket, systemVars
<1>7. CASE StartConnects
  <2> DEFINE new == [ctx |-> hand[Main], client |-> i, op |-> "connect"]
  <2>1. /\ HandOver(Main) /\ opType' = [opType EXCEPT ![hand[Main]] = "OP_ACCEPT"]
        /\ ops' = ops \/ ops' = ops \cup {new}
        /\ UNCHANGED << owed, client, port >>
    BY <1>7 DEF StartConnects, ConnectEx
  <2>2. new.op # "send"
    OBVIOUS
  <2> HIDE DEF new
  <2> QED
    BY <1>1, <1>5, <2>1, <2>2
<1>8. CASE ProcessArms
  <2>1. PICK c \in toArm : ReceiveReady(Main, c) /\ UNCHANGED << owed, client, port >>
    BY <1>8 DEF ProcessArms
  <2> DEFINE new == [ctx |-> hand[Main], client |-> c, op |-> "recv"]
  <2>2. CASE UNCHANGED << opType, ops >>
    BY <1>4, <2>1, <2>2
  <2>3. CASE /\ HandOver(Main) /\ opType' = [opType EXCEPT ![hand[Main]] = "OP_RECV"]
             /\ ops' = ops \/ ops' = ops \cup {new}
    <3>1. new.op # "send"
      OBVIOUS
    <3> HIDE DEF new
    <3> QED
      BY <1>1, <1>5, <2>1, <2>3, <3>1
  <2> QED
    BY <2>1, <2>2, <2>3 DEF ReceiveReady
<1>9. CASE SendRequest
  <2>1. HandOutside[Main] = Null
    BY <1>0, <1>9, ReceivesHoldAll DEF SendRequest
  <2>2. pc[Main] = "idle"
    BY <1>1, <1>9 DEF SendRequest, PhaseInv, CallsFit, PopLabels, PushLabels, NetworkTypeOK,
                      PoolTypeOK, TypeOK
  <2>3. hand[Main] = Null
    BY <1>1, <2>1, <2>2 DEF HandOutside
  <2>4. UNCHANGED << owed, client, ops, port, opType >>
    BY <1>9, <2>3, QueueAssumption DEF SendRequest, Send, HandOver, Contexts
  <2> QED
    BY <1>4, <2>4
<1>10. ASSUME NEW t \in Workers, WorkerStep(t)
       PROVE  NeverSends'
  <2>1. ~Rearm(t)
    BY <1>0, <1>10 DEF Rearm, PhaseInv, ClientsFit, RearmLabels
  <2>2. ASSUME NEW r \in port, IgnoreCompletion(t, r) \/ HandleCompletion(t, r)
        PROVE  NeverSends'
    <3>1. /\ port' = port \ {r} /\ UNCHANGED << owed, ops >>
          /\ opType' = opType \/ opType' = [opType EXCEPT ![r.ctx] = "OP_DEFAULT"]
      BY <2>2 DEF IgnoreCompletion, HandleCompletion
    <3>2. Arrived' = Arrived \ {r}
      BY <1>1, <3>1, TakeOfReceive
    <3>3. client' = client
      BY <1>0, <2>2 DEF IgnoreCompletion, HandleCompletion, Arrived
    <3> QED
      BY <1>0, <1>3, <3>1, <3>2, <3>3
  <2>3. CASE ForgetRefused(t)
    BY <1>4, <2>3 DEF ForgetRefused, systemVars
  <2> QED
    BY <1>10, <2>1, <2>2, <2>3 DEF WorkerStep
<1>11. CASE SystemStep
  <2>1. ASSUME NEW o \in ops, ConnectDone(o) \/ SendDone(o) \/ ReceiveDone(o) \/ DoneByClose(o)
        PROVE  NeverSends'
    <3>1. /\ o.client \in Clients /\ owed[o.client] = 0 /\ o.op # "send"
          /\ conn[o.client] \in {"none", "open", "up"}
      BY <1>0, <1>1 DEF NetworkTypeOK, SystemTypeOK, Operations, SocketsFit
    <3>2. ~SendDone(o)
      BY <3>1 DEF SendDone
    <3>3. ~ReceiveDone(o)
      BY <3>1 DEF ReceiveDone
    <3>4. ~DoneByClose(o)
      BY <3>1 DEF DoneByClose
    <3>5. PICK ok \in BOOLEAN : Complete(o, ok, "none") /\ owed' = owed /\ o.op = "connect"
      BY <2>1, <3>2, <3>3, <3>4 DEF ConnectDone
    <3>6. Arrived' = Arrived
      BY <1>1, <3>5, EndOfReceive
    <3> QED
      BY <1>0, <1>3, <3>5, <3>6 DEF Complete
  <2>2. ASSUME NEW c \in Clients, PeerCloses(c)
        PROVE  NeverSends'
    BY <1>4, <2>2 DEF PeerCloses
  <2> QED
    BY <1>11, <2>1, <2>2 DEF SystemStep
<1>12. CASE \E t \in Threads : CallQueue(t) \/ UseNull(t)
  BY <1>4, <1>12 DEF CallQueue, UseNull, Crash, systemVars
<1> QED
  BY <1>6, <1>7, <1>8, <1>9, <1>10, <1>11, <1>12 DEF NetworkNext, MainStep

(* With one worker, no trouble and no shared key no request is ever sent,  *)
(* whatever the threads interleave and however many clients there are.     *)
THEOREM OneWorkerCorrect == NetworkSpec => []OneWorkerNeverSends
<1>1. NetworkInit => AllRegistered /\ NeverSends
  <2> SUFFICES ASSUME NetworkInit PROVE AllRegistered /\ NeverSends
    OBVIOUS
  <2>1. i = 1 /\ at[Main] = "create"
    BY NetworkAssumption DEF NetworkInit
  <2>2. AllRegistered
    BY <2>1 DEF AllRegistered, StartLabels
  <2>3. Arrived = {} /\ ~raced
    BY DEF NetworkInit, PoolInit, Arrived
  <2> QED
    BY <2>2, <2>3 DEF NetworkInit, NeverSends
<1>2. /\ NetworkTypeOK /\ IndicesInRange /\ PhaseInv /\ SafetyInv /\ OneOwner
      /\ ArmedFit /\ ReceivesFit /\ AllRegistered /\ NeverSends /\ [NetworkNext]_networkVars
      => (AllRegistered /\ NeverSends)'
  <2> SUFFICES ASSUME NetworkTypeOK, IndicesInRange, PhaseInv, SafetyInv, OneOwner,
                      ArmedFit, ReceivesFit, AllRegistered, NeverSends, [NetworkNext]_networkVars
               PROVE  AllRegistered' /\ NeverSends'
    OBVIOUS
  <2>1. CASE UNCHANGED networkVars
    <3>1. AllRegistered'
      BY <2>1 DEF networkVars, mainVars, AllRegistered, Registered
    <3>2. UNCHANGED << raced, ops, owed, Arrived, client, troubled, KeysApart >>
      BY <2>1 DEF networkVars, poolVars, queueVars, systemVars, Arrived, KeysApart
    <3>3. NeverSends'
      BY <3>2 DEF NeverSends
    <3> QED
      BY <3>1, <3>3
  <2>2. CASE NetworkNext
    BY <2>2, AllRegisteredStep, NeverSendsStep
  <2> QED
    BY <2>1, <2>2
<1>3. NeverSends => OneWorkerNeverSends
  BY DEF NeverSends, OneWorkerNeverSends
<1> QED
  BY <1>1, <1>2, <1>3, NetworkTypeCorrect, PhaseCorrect, SafetyCorrect, ReceivesCorrect,
     NetworkPoolFacts, PTL DEF NetworkSpec
-----------------------------------------------------------------------------
(***************************************************************************)
(* With two workers or more: Start and Process find a context for each     *)
(* client (StartupFindsContexts).  Main makes every pop of that time, two  *)
(* per client at most, so its index does not come to the slot that Start   *)
(* left free; and every push gives back a context that main has popped     *)
(* before, so no push, whatever pushes overlap, comes up to mOutputIndex.  *)
(***************************************************************************)

(* Up to the first request nothing is sent, so no message is answered and  *)
(* no worker pops.                                                         *)
NoAnswers ==
  /\ at[Main] # "send"
  /\ \A t \in Workers : at[t] \in {"none", "wait", "giveBack"}
  /\ \A o \in ops : o.op # "send"
  /\ \A c \in Clients : owed[c] = 0
  /\ \A r \in port : r.msg \in {"none", "unknown"}

(* The contexts popped before now that no push will give back any more:    *)
(* those that main does not hold, no operation or completion has, and no   *)
(* worker is about to push.                                                *)
Giving   == {t \in Workers : at[t] = "giveBack"}
MainHas  == IF at[Main] \in {"connect", "arm"} THEN 1 ELSE 0
Returned ==
  mOutputIndex - MainHas - Cardinality(ops) - Cardinality(port) - Cardinality(Giving)

(* mInputIndex, and the copy of it that a push works with, have followed   *)
(* each other that often at most.                                          *)
PushesFollowPops ==
  /\ IsFiniteSet(ops) /\ IsFiniteSet(port)
  /\ Following(mInputIndex) <= Returned
  /\ \A t \in Workers : pc[t] \in PushPcs => Following(cur[t]) <= Returned

(* Main's pop works with the index of now, and mOutputIndex counts the     *)
(* pops that are done: one per client in Start and one in Process.         *)
PopsCounted ==
  /\ pc[Main] \in PopPcs => cur[Main] = mOutputIndex
  /\ pc[Main] = "popRead" => hand[Main] # Null
  /\ at[Main] \in {"connect", "arm"} => hand[Main] # Null
  /\ at[Main] \in {"create", "startPop"} => mOutputIndex <= i - 1
  /\ at[Main] \in {"connect", "associate"} => mOutputIndex <= i
  /\ at[Main] = "processPop" => mOutputIndex + Cardinality(toArm) <= 2 * ClientCount
  /\ at[Main] = "arm" => mOutputIndex + Cardinality(toArm) <= 2 * ClientCount + 1

(* The contexts that main has not come to are as Start has pushed them: in  *)
(* one slot each and in no operation, and so is the one it has just popped. *)
(* No completion is therefore taken for a message that it does not carry.   *)
Ahead == {n \in Slots : mOutputIndex <= n /\ n < QueueMaxSize - 1}
FirstPops ==
  /\ \A n \in Ahead : mBuffer[n] \notin InOperation
  /\ \A m, n \in Ahead : mBuffer[m] = mBuffer[n] => m = n
  /\ pc[Main] = "popRead" => hand[Main] = mBuffer[mOutputIndex]
  /\ at[Main] \in {"connect", "arm"} =>
       hand[Main] \notin InOperation /\ \A n \in Ahead : mBuffer[n] # hand[Main]
  /\ \A o \in ops : o.op = "connect" => opType[o.ctx] # "OP_RECV"
  /\ \A r \in port : r.ok /\ opType[r.ctx] = "OP_RECV" => r.msg = "unknown"

StartupInv == NoAnswers /\ PushesFollowPops /\ PopsCounted /\ FirstPops

StartupNext == NetworkNext /\ at[Main] # "sendPop"

(* One element more, or one less.                                          *)
LEMMA OneMoreOrLess ==
  ASSUME NEW S, IsFiniteSet(S), NEW x
  PROVE  /\ Cardinality(S) \in Nat
         /\ IsFiniteSet(S \cup {x}) /\ IsFiniteSet(S \ {x})
         /\ Cardinality(S \cup {x}) \in Nat /\ Cardinality(S \ {x}) \in Nat
         /\ Cardinality(S \cup {x}) <= Cardinality(S) + 1
         /\ x \in S => Cardinality(S \ {x}) = Cardinality(S) - 1
<1>1. /\ IsFiniteSet(S \cup {x}) /\ IsFiniteSet(S \ {x})
      /\ Cardinality(S \cup {x}) = Cardinality(S) \/ Cardinality(S \cup {x}) = Cardinality(S) + 1
      /\ x \in S => Cardinality(S \ {x}) = Cardinality(S) - 1
  BY FS_AddElement, FS_RemoveElement
<1> QED
  BY <1>1, FS_CardinalityType

(* The same of a state and the next.                                       *)
LEMMA AtMostOneMore ==
  ASSUME NEW S, IsFiniteSet(S), NEW T, NEW x, T = S \/ T = S \cup {x}
  PROVE  IsFiniteSet(T) /\ Cardinality(T) \in Nat /\ Cardinality(T) <= Cardinality(S) + 1
<1>1. CASE T = S
  <2>1. Cardinality(S) \in Nat
    BY FS_CardinalityType
  <2> QED
    BY <1>1, <2>1
<1>2. CASE T = S \cup {x}
  BY <1>2, OneMoreOrLess
<1> QED
  BY <1>1, <1>2

(* Start and Process neither send nor receive an answer.                   *)
LEMMA NoAnswersStep ==
  ASSUME NetworkTypeOK, PhaseInv, NoAnswers, FirstPops, StartupNext
  PROVE  NoAnswers'
<1> USE NetworkAssumption DEF Goto
<1>0. /\ at \in [Threads -> MainLabels \cup WorkerLabels] /\ at[Main] \in MainLabels
      /\ Main \in Threads /\ Workers \subseteq Threads
      /\ CallsFit /\ StartFirst /\ at[Main] # "sendPop" /\ NetworkNext
      /\ owed \in [Clients -> 0 .. MaxOwed] /\ ops \subseteq Operations
  BY DEF NetworkTypeOK, ControlTypeOK, SystemTypeOK, PhaseInv, StartupNext
<1>1. ASSUME at' = at \/ \E l \in MainLabels \ {"send"} : at' = [at EXCEPT ![Main] = l],
             owed' = owed, port' \subseteq port,
             ops' = ops \/ \E new : ops' = ops \cup {new} /\ new.op # "send"
      PROVE  NoAnswers'
  BY <1>0, <1>1 DEF NoAnswers
<1>2. ASSUME NEW t \in Threads, CallQueue(t)
      PROVE  NoAnswers'
  <2>1. at[t] \in {"startPop", "processPop", "giveBack"} /\ (t \in Workers => at[t] = "giveBack")
        /\ (t \notin Workers => t = Main)
    BY <1>0, <1>2 DEF CallQueue, NoAnswers, PopLabels, PushLabels, MainLabels
  <2>2. at' = at \/ at' = [at EXCEPT ![t] = AfterCall[at[t]]]
    BY <1>2 DEF CallQueue
  <2>3. UNCHANGED << owed, ops, port >>
    BY <1>2 DEF CallQueue, systemVars
  <2> QED
    BY <1>0, <2>1, <2>2, <2>3 DEF NoAnswers, AfterCall
<1>3. CASE StartFails \/ CreateSocket
  BY <1>0, <1>1, <1>3 DEF StartFails, CreateSocket, MainLabels, systemVars
<1>4. CASE SkipSocket \/ Associate
  <2>1. /\ UNCHANGED << owed, ops, port >>
        /\ \/ at' = [at EXCEPT ![Main] = "create"]
           \/ \E l \in {"sendPop", "processPop"} :
                at' = [t \in Threads |-> IF t # Main THEN "wait" ELSE l]
    BY <1>0, <1>4 DEF SkipSocket, Associate, NextSocket, systemVars
  <2> QED
    BY <1>0, <2>1 DEF NoAnswers, MainLabels
<1>5. CASE StartConnects
  <2>1. /\ at' = [at EXCEPT ![Main] = "associate"] /\ UNCHANGED << owed, port >>
        /\ \/ ops' = ops
           \/ ops' = ops \cup {[ctx |-> hand[Main], client |-> i, op |-> "connect"]}
    BY <1>5 DEF StartConnects, ConnectEx
  <2>2. [ctx |-> hand[Main], client |-> i, op |-> "connect"].op # "send"
    OBVIOUS
  <2> QED
    BY <1>1, <2>1, <2>2 DEF MainLabels
<1>6. CASE ProcessArms
  <2>1. PICK c \in toArm, l \in {"sendPop", "processPop"} :
          /\ at' = [at EXCEPT ![Main] = l] /\ UNCHANGED << owed, port >>
          /\ ReceiveReady(Main, c)
    BY <1>6 DEF ProcessArms
  <2>2. \/ ops' = ops
        \/ ops' = ops \cup {[ctx |-> hand[Main], client |-> c, op |-> "recv"]}
    BY <2>1 DEF ReceiveReady
  <2>3. [ctx |-> hand[Main], client |-> c, op |-> "recv"].op # "send"
    OBVIOUS
  <2> QED
    BY <1>1, <2>1, <2>2, <2>3 DEF MainLabels
<1>7. ~SendRequest
  BY DEF SendRequest, NoAnswers
<1>8. ASSUME NEW t \in Workers, WorkerStep(t)
      PROVE  NoAnswers'
  <2>1. CASE \E r \in port : IgnoreCompletion(t, r)
    BY <1>1, <2>1 DEF IgnoreCompletion
  <2>2. ASSUME NEW r \in port, HandleCompletion(t, r)
        PROVE  NoAnswers'
    <3>1. opType[r.ctx] # "OP_RECV"
      BY <2>2 DEF HandleCompletion, Handled, FirstPops
    <3>2. at' = [at EXCEPT ![t] = "giveBack"] /\ port' \subseteq port /\ UNCHANGED << ops, owed >>
      BY <2>2, <3>1 DEF HandleCompletion
    <3> QED
      BY <1>0, <3>2 DEF NoAnswers
  <2>3. ~Rearm(t)
    BY DEF Rearm, NoAnswers
  <2>4. CASE ForgetRefused(t)
    BY <1>1, <2>4 DEF ForgetRefused, systemVars
  <2> QED
    BY <1>8, <2>1, <2>2, <2>3, <2>4 DEF WorkerStep
<1>9. CASE SystemStep
  <2>1. ASSUME NEW o \in ops, NEW ok, NEW msg, Complete(o, ok, msg), msg \in {"none", "unknown"}, owed' = owed
        PROVE  NoAnswers'
    <3>1. at' = at /\ ops' \subseteq ops
      BY <2>1 DEF Complete
    <3>2. \A r \in port' : r.msg \in {"none", "unknown"}
      BY <2>1 DEF Complete, NoAnswers
    <3> QED
      BY <2>1, <3>1, <3>2 DEF NoAnswers
  <2>2. ASSUME NEW o \in ops, ConnectDone(o) \/ SendDone(o) \/ ReceiveDone(o) \/ DoneByClose(o)
        PROVE  NoAnswers'
    <3>1. ~SendDone(o)
      BY DEF SendDone, NoAnswers
    <3>2. owed[o.client] = 0
      BY <1>0 DEF Operations, NoAnswers
    <3>3. ~ReceiveDone(o)
      BY <3>2 DEF ReceiveDone
    <3> QED
      BY <2>1, <2>2, <3>1, <3>3 DEF ConnectDone, DoneByClose
  <2>3. CASE \E c \in Clients : PeerCloses(c)
    BY <1>1, <2>3 DEF PeerCloses
  <2> QED
    BY <1>9, <2>2, <2>3 DEF SystemStep
<1>10. CASE \E t \in Threads : UseNull(t)
  BY <1>1, <1>10 DEF UseNull, Crash, systemVars
<1> QED
  BY <1>0, <1>2, <1>3, <1>4, <1>5, <1>6, <1>7, <1>8, <1>9, <1>10 DEF NetworkNext, MainStep

(* The slot after the one before a push is one further, as long as a pop   *)
(* has been there.                                                         *)
LEMMA FollowingCounts ==
  ASSUME NEW n \in Slots
  PROVE  /\ Following(n) \in Slots
         /\ n < QueueMaxSize - 1 => Following(n) = n + 1
         /\ n = QueueMaxSize - 1 => Following(n) = 0
  BY QueueAssumption DEF Slots, Following

(* With two workers or more the pool is twice the clients.                 *)
LEMMA PoolOfTwoWorkers ==
  ASSUME Cardinality(Workers) >= 2
  PROVE  2 * ClientCount < QueueMaxSize
<1>1. \A m, n \in Nat : m >= 2 => m * n >= 2 * n
  BY SMT
<1> QED
  BY <1>1, NetworkAssumption, PoolAssumption, FS_CardinalityType

(* No push, whatever pushes overlap, has come up to mOutputIndex.          *)
LEMMA PushesBehind ==
  ASSUME NetworkTypeOK, PushesFollowPops
  PROVE  /\ Following(mInputIndex) <= mOutputIndex
         /\ \A t \in Workers : pc[t] \in PushPcs => Following(cur[t]) <= mOutputIndex
<1>1. IsFiniteSet(Giving)
  BY NetworkAssumption, FS_Subset DEF Giving
<1>2. /\ Cardinality(ops) \in Nat /\ Cardinality(port) \in Nat /\ Cardinality(Giving) \in Nat
      /\ MainHas \in Nat /\ mOutputIndex \in Nat
  BY <1>1, FS_CardinalityType, QueueAssumption
     DEF PushesFollowPops, MainHas, NetworkTypeOK, PoolTypeOK, TypeOK, Slots
<1>3. Returned \in Int /\ Returned <= mOutputIndex /\ mOutputIndex \in Int
  BY <1>2 DEF Returned
<1>4. Following(mInputIndex) \in Int /\ \A t \in Workers : Following(cur[t]) \in Int
  BY NetworkAssumption, FollowingCounts, QueueAssumption
     DEF NetworkTypeOK, PoolTypeOK, TypeOK, Slots
<1> HIDE DEF Returned
<1> QED
  BY <1>3, <1>4 DEF PushesFollowPops

(* A step outside the queue that leaves no more contexts to be given back. *)
LEMMA PushesFollowPopsOutside ==
  ASSUME NetworkTypeOK, PushesFollowPops,
         UNCHANGED << mInputIndex, mOutputIndex, pc, cur >>,
         IsFiniteSet(ops'), IsFiniteSet(port'),
         MainHas' + Cardinality(ops)' + Cardinality(port)' + Cardinality(Giving)'
           <= MainHas + Cardinality(ops) + Cardinality(port) + Cardinality(Giving)
  PROVE  PushesFollowPops'
<1>1. IsFiniteSet(Giving) /\ IsFiniteSet(Giving')
  BY NetworkAssumption, FS_Subset DEF Giving
<1>2. /\ Cardinality(ops) \in Nat /\ Cardinality(port) \in Nat /\ Cardinality(Giving) \in Nat
      /\ Cardinality(ops)' \in Nat /\ Cardinality(port)' \in Nat /\ Cardinality(Giving)' \in Nat
      /\ MainHas \in Nat /\ MainHas' \in Nat /\ mOutputIndex \in Nat
  BY <1>1, FS_CardinalityType, QueueAssumption
     DEF PushesFollowPops, MainHas, NetworkTypeOK, PoolTypeOK, TypeOK, Slots
<1>3. Returned \in Int /\ Returned' \in Int /\ Returned <= Returned'
  BY <1>2 DEF Returned
<1>4. Following(mInputIndex) \in Int /\ \A t \in Workers : Following(cur[t]) \in Int
  BY NetworkAssumption, FollowingCounts, QueueAssumption
     DEF NetworkTypeOK, PoolTypeOK, TypeOK, Slots
<1>5. Following(mInputIndex)' = Following(mInputIndex)
      /\ \A t \in Workers : Following(cur[t])' = Following(cur[t])
  BY DEF Following
<1> QED
  BY <1>3, <1>4, <1>5 DEF PushesFollowPops

(* Each access of the queue: a pop by main makes room for a push, a push   *)
(* that ends uses it.                                                      *)
LEMMA PushesFollowPopsInCall ==
  ASSUME NetworkTypeOK, PhaseInv, NoAnswers, PushesFollowPops, PopsCounted,
         mOutputIndex < QueueMaxSize - 1 \/ at[Main] \notin {"startPop", "processPop"},
         at[Main] # "sendPop", NEW t \in Threads, CallQueue(t)
  PROVE  PushesFollowPops'
<1> USE NetworkAssumption DEF Goto
<1>0. /\ TypeOK /\ CallsFit /\ at \in [Threads -> MainLabels \cup WorkerLabels]
      /\ at[Main] \in MainLabels /\ Main \in Threads /\ Workers \subseteq Threads
  BY DEF NetworkTypeOK, PoolTypeOK, ControlTypeOK, PhaseInv
<1>1. /\ UNCHANGED << ops, port >> /\ QueueStep(t)
      /\ pc[t] = "idle" => (at[t] \in PopLabels <=> hand[t] = Null)
      /\ IF pc'[t] = "idle" THEN at' = [at EXCEPT ![t] = AfterCall[at[t]]] ELSE at' = at
  BY DEF CallQueue, systemVars
<1>2. /\ t \in Workers => at[t] = "giveBack"
      /\ t \notin Workers => t = Main /\ at[t] \in {"startPop", "processPop"}
  BY <1>0 DEF CallQueue, NoAnswers, PopLabels, PushLabels, MainLabels
<1>3. IsFiniteSet(Giving) /\ IsFiniteSet(Giving')
  BY FS_Subset DEF Giving
<1>4. /\ Cardinality(ops) \in Nat /\ Cardinality(port) \in Nat /\ Cardinality(Giving) \in Nat
      /\ MainHas \in Nat /\ mOutputIndex \in 0 .. QueueMaxSize - 1
      /\ Cardinality(ops)' = Cardinality(ops) /\ Cardinality(port)' = Cardinality(port)
  BY <1>0, <1>1, <1>3, FS_CardinalityType, QueueAssumption
     DEF PushesFollowPops, MainHas, TypeOK, Slots
<1>5. Following(mInputIndex) \in Int /\ \A u \in Workers : Following(cur[u]) \in Int
  BY <1>0, FollowingCounts, QueueAssumption DEF TypeOK, Slots
<1>6. IsFiniteSet(ops') /\ IsFiniteSet(port')
  BY <1>1 DEF PushesFollowPops
<1>7. CASE t = Main
  <2>1. /\ Giving' = Giving
        /\ pc[t] \notin PushPcs /\ (pc[t] = "idle" => hand[t] = Null)
    BY <1>0, <1>1, <1>2, <1>7 DEF Giving, CallsFit, PopLabels, PushLabels
  <2>2. PopLoadOutput(t) \/ PopEmpty(t) \/ PopHasItem(t) \/ PopRead(t) \/ PopStoreOutput(t)
    BY <1>1, <2>1, QueueAssumption
       DEF QueueStep, PushLoadInput, PushFull, PushHasRoom, PushWrite, PushStoreInput, PushPcs
  <2>3. /\ mInputIndex' = mInputIndex
        /\ \A u \in Workers : pc'[u] = pc[u] /\ cur'[u] = cur[u]
    BY <1>0, <1>7, <2>2 DEF TypeOK, PopLoadOutput, PopEmpty, PopHasItem, PopRead, PopStoreOutput,
                            Return
  <2>4. Returned' >= Returned /\ Returned' \in Int /\ Returned \in Int
    <3>1. CASE pc'[t] # "idle"
      <4>1. at' = at /\ mOutputIndex' = mOutputIndex
        BY <1>0, <1>1, <2>2, <3>1
           DEF TypeOK, PopLoadOutput, PopEmpty, PopHasItem, PopRead, PopStoreOutput, Return
      <4>2. MainHas' = MainHas
        BY <4>1 DEF MainHas
      <4> QED
        BY <1>4, <2>1, <4>1, <4>2 DEF Returned
    <3>2. CASE PopStoreOutput(t)
      <4>1. mOutputIndex' = mOutputIndex + 1
        <5>1. cur[t] = mOutputIndex
          BY <1>7, <3>2 DEF PopStoreOutput, PopsCounted, PopPcs
        <5> QED
          BY <1>2, <1>4, <1>7, <3>2, <5>1, FollowingCounts DEF PopStoreOutput, Slots
      <4>2. MainHas \in Nat /\ MainHas' <= 1 /\ MainHas = 0 /\ MainHas' \in Nat
        BY <1>2, <1>7 DEF MainHas
      <4> QED
        BY <1>4, <2>1, <4>1, <4>2 DEF Returned
    <3>3. ~PopEmpty(t)
      <4>1. SUFFICES ASSUME PopEmpty(t) PROVE FALSE
        OBVIOUS
      <4>2. cur[t] = mOutputIndex /\ cur[t] = mInputIndex
        BY <1>7, <4>1 DEF PopEmpty, PopsCounted, PopPcs
      <4>3. Following(mInputIndex) = mOutputIndex + 1
        BY <1>2, <1>4, <1>7, <4>2, FollowingCounts DEF Slots
      <4>4. Following(mInputIndex) <= mOutputIndex
        BY <1>4, <1>5 DEF PushesFollowPops, Returned
      <4> QED
        BY <1>4, <4>3, <4>4
    <3>4. pc'[t] = "idle" => PopStoreOutput(t) \/ PopEmpty(t)
      BY <1>0, <2>2 DEF TypeOK, PopLoadOutput, PopHasItem, PopRead
    <3> QED
      BY <3>1, <3>2, <3>3, <3>4
  <2>5. Following(mInputIndex)' = Following(mInputIndex)
        /\ \A u \in Workers : Following(cur[u])' = Following(cur[u])
    BY <2>3 DEF Following
  <2> QED
    BY <1>5, <1>6, <2>3, <2>4, <2>5 DEF PushesFollowPops
<1>8. CASE t \in Workers
  <2>1. /\ t \in Giving /\ pc[t] \notin PopPcs /\ (pc[t] = "idle" => hand[t] # Null)
    BY <1>0, <1>1, <1>2, <1>8 DEF Giving, CallsFit, PopLabels, PushLabels
  <2>2. \/ PushLoadInput(t) \/ PushFull(t) \/ PushHasRoom(t) \/ PushWrite(t) \/ PushStoreInput(t)
    BY <1>1, <2>1 DEF QueueStep, PopLoadOutput, PopEmpty, PopHasItem, PopRead, PopStoreOutput,
                      PopPcs
  <2>3. mOutputIndex' = mOutputIndex /\ MainHas' = MainHas
    <3>1. at'[Main] = at[Main]
      BY <1>0, <1>1, <1>8
    <3> QED
      BY <2>2, <3>1 DEF MainHas, PushLoadInput, PushFull, PushHasRoom, PushWrite, PushStoreInput
  <2>4. CASE pc'[t] # "idle"
    <3>1. /\ Giving' = Giving /\ mInputIndex' = mInputIndex
          /\ \A u \in Workers : \/ pc'[u] \in PushPcs => pc[u] \in PushPcs /\ cur'[u] = cur[u]
                                \/ cur'[u] = mInputIndex
      BY <1>0, <1>1, <1>8, <2>2, <2>4
         DEF TypeOK, Giving, PushLoadInput, PushFull, PushHasRoom, PushWrite, PushStoreInput,
             Return, PushPcs
    <3>2. Returned' = Returned
      BY <1>4, <2>3, <3>1 DEF Returned
    <3>3. Following(mInputIndex)' = Following(mInputIndex)
      BY <3>1 DEF Following
    <3>4. ASSUME NEW u \in Workers, pc'[u] \in PushPcs
          PROVE  Following(cur[u])' <= Returned'
      <4>1. CASE pc[u] \in PushPcs /\ cur'[u] = cur[u]
        BY <3>2, <4>1 DEF PushesFollowPops, Following
      <4>2. CASE cur'[u] = mInputIndex
        BY <3>2, <4>2 DEF PushesFollowPops, Following
      <4> QED
        BY <3>1, <3>4, <4>1, <4>2
    <3> QED
      BY <1>6, <3>2, <3>3, <3>4 DEF PushesFollowPops
  <2>5. CASE pc'[t] = "idle"
    <3>1. /\ pc[t] \in PushPcs /\ (mInputIndex' = mInputIndex \/ mInputIndex' = Following(cur[t]))
          /\ pc'[t] \notin PushPcs
          /\ \A u \in Workers \ {t} : pc'[u] = pc[u] /\ cur'[u] = cur[u]
      BY <1>0, <1>8, <2>2, <2>5
         DEF TypeOK, PushLoadInput, PushFull, PushHasRoom, PushWrite, PushStoreInput, Return,
             PushPcs
    <3>2. Giving' = Giving \ {t}
      BY <1>0, <1>1, <1>2, <1>8, <2>5 DEF Giving, AfterCall
    <3>3. Cardinality(Giving)' = Cardinality(Giving) - 1 /\ Cardinality(Giving) >= 1
      BY <1>3, <1>4, <2>1, <3>2, OneMoreOrLess
    <3>4. Returned' = Returned + 1 /\ Returned + 1 <= mOutputIndex /\ Returned \in Int
      BY <1>4, <2>3, <3>3 DEF Returned
    <3>5. Following(mInputIndex') <= Returned + 1
      <4>1. CASE mInputIndex' = mInputIndex
        BY <1>5, <3>4, <4>1 DEF PushesFollowPops
      <4>2. CASE mInputIndex' = Following(cur[t])
        <5>1. Following(cur[t]) \in Slots /\ Following(cur[t]) <= Returned
          BY <1>0, <1>8, <3>1, FollowingCounts DEF PushesFollowPops, TypeOK
        <5>2. Following(cur[t]) < QueueMaxSize - 1
          BY <1>4, <3>4, <5>1, QueueAssumption DEF Slots
        <5>3. Following(Following(cur[t])) = Following(cur[t]) + 1
          BY <5>1, <5>2, FollowingCounts
        <5> QED
          BY <3>4, <4>2, <5>1, <5>3, QueueAssumption DEF Slots
      <4> QED
        BY <3>1, <4>1, <4>2
    <3>6. Following(mInputIndex)' <= Returned'
      BY <3>4, <3>5 DEF Following
    <3>7. ASSUME NEW u \in Workers, pc'[u] \in PushPcs
          PROVE  Following(cur[u])' <= Returned'
      <4>1. pc[u] \in PushPcs /\ cur'[u] = cur[u]
        BY <3>1, <3>7
      <4>2. Following(cur[u])' = Following(cur[u])
        BY <4>1 DEF Following
      <4> QED
        BY <1>5, <3>4, <4>1, <4>2 DEF PushesFollowPops
    <3> QED
      BY <1>6, <3>6, <3>7 DEF PushesFollowPops
  <2> QED
    BY <2>4, <2>5
<1> QED
  BY <1>2, <1>7, <1>8

(* Outside the queue a context only goes on: from main's hand to an        *)
(* operation, to its completion, to a worker that will push it.            *)
LEMMA PushesFollowPopsStep ==
  ASSUME NetworkTypeOK, PhaseInv, NoAnswers, PushesFollowPops, PopsCounted,
         mOutputIndex < QueueMaxSize - 1 \/ at[Main] \notin {"startPop", "processPop"},
         StartupNext
  PROVE  PushesFollowPops'
<1> USE NetworkAssumption DEF Goto
<1>0. /\ at \in [Threads -> MainLabels \cup WorkerLabels] /\ at[Main] \in MainLabels
      /\ Main \in Threads /\ Workers \subseteq Threads /\ StartFirst
      /\ IsFiniteSet(ops) /\ IsFiniteSet(port) /\ at[Main] # "sendPop" /\ NetworkNext
  BY DEF NetworkTypeOK, ControlTypeOK, PhaseInv, StartupNext, PushesFollowPops
<1>1. IsFiniteSet(Giving)
  BY FS_Subset DEF Giving
<1>2. /\ Cardinality(ops) \in Nat /\ Cardinality(port) \in Nat /\ Cardinality(Giving) \in Nat
  BY <1>0, <1>1, FS_CardinalityType
<1>3. MainHas \in Nat /\ MainHas' \in Nat
  BY DEF MainHas
<1>4. ASSUME UNCHANGED << mInputIndex, mOutputIndex, pc, cur, ops, port >>,
             Giving' = Giving, MainHas' = MainHas
      PROVE  PushesFollowPops'
  BY <1>0, <1>2, <1>3, <1>4, PushesFollowPopsOutside
<1>5. ASSUME UNCHANGED << mInputIndex, mOutputIndex, pc, cur, port >>, NEW new,
             ops' = ops \/ ops' = ops \cup {new},
             Giving' = Giving, MainHas = 1, MainHas' = 0
      PROVE  PushesFollowPops'
  <2>1. IsFiniteSet(ops') /\ Cardinality(ops)' <= Cardinality(ops) + 1 /\ Cardinality(ops)' \in Nat
    BY <1>0, <1>5, AtMostOneMore
  <2> QED
    BY <1>0, <1>2, <1>5, <2>1, PushesFollowPopsOutside
<1>6. CASE \E t \in Threads : CallQueue(t)
  BY <1>0, <1>6, PushesFollowPopsInCall
<1>7. CASE StartFails \/ CreateSocket
  <2>1. /\ UNCHANGED << poolVars, ops, port >>
        /\ \E l \in {"ended", "startPop"} : at[Main] = "create" /\ at' = [at EXCEPT ![Main] = l]
    BY <1>7 DEF StartFails, CreateSocket, systemVars
  <2>2. Giving' = Giving /\ MainHas' = MainHas
    BY <1>0, <2>1 DEF Giving, MainHas
  <2> QED
    BY <1>4, <2>1, <2>2 DEF poolVars, queueVars
<1>8. CASE SkipSocket \/ Associate
  <2>1. /\ at[Main] \in {"create", "associate"} /\ UNCHANGED << poolVars, ops, port >>
        /\ \/ at' = [at EXCEPT ![Main] = "create"]
           \/ \E l \in {"sendPop", "processPop"} :
                at' = [t \in Threads |-> IF t # Main THEN "wait" ELSE l]
    BY <1>0, <1>8 DEF SkipSocket, Associate, NextSocket, systemVars
  <2>2. Giving = {}
    BY <1>0, <2>1 DEF Giving, StartFirst, StartLabels
  <2>3. Giving' = {} /\ MainHas' = MainHas
    BY <1>0, <2>1, <2>2 DEF Giving, MainHas
  <2> QED
    BY <1>4, <2>1, <2>2, <2>3 DEF poolVars, queueVars
<1>9. CASE StartConnects
  <2> DEFINE new == [ctx |-> hand[Main], client |-> i, op |-> "connect"]
  <2>1. /\ at[Main] = "connect" /\ at' = [at EXCEPT ![Main] = "associate"]
        /\ UNCHANGED << mInputIndex, mOutputIndex, pc, cur, port >>
        /\ ops' = ops \/ ops' = ops \cup {new}
    BY <1>9 DEF StartConnects, ConnectEx, HandOver
  <2>2. Giving' = Giving /\ MainHas = 1 /\ MainHas' = 0
    BY <1>0, <2>1 DEF Giving, MainHas
  <2> HIDE DEF new
  <2> QED
    BY <1>5, <2>1, <2>2
<1>10. CASE ProcessArms
  <2>1. PICK c \in toArm, l \in {"sendPop", "processPop"} :
          /\ at[Main] = "arm" /\ at' = [at EXCEPT ![Main] = l] /\ port' = port
          /\ ReceiveReady(Main, c)
    BY <1>10 DEF ProcessArms
  <2> DEFINE new == [ctx |-> hand[Main], client |-> c, op |-> "recv"]
  <2>2. /\ ops' = ops \/ ops' = ops \cup {new}
        /\ UNCHANGED << mInputIndex, mOutputIndex, pc, cur >>
    BY <2>1 DEF ReceiveReady, HandOver, poolVars, queueVars
  <2>3. Giving' = Giving /\ MainHas = 1 /\ MainHas' = 0
    BY <1>0, <2>1 DEF Giving, MainHas
  <2> HIDE DEF new
  <2> QED
    BY <1>5, <2>1, <2>2, <2>3
<1>11. ~SendRequest
  BY DEF SendRequest, NoAnswers
<1>12. ASSUME NEW t \in Workers, WorkerStep(t)
       PROVE  PushesFollowPops'
  <2>1. ASSUME NEW r \in port, IgnoreCompletion(t, r) \/ HandleCompletion(t, r)
        PROVE  PushesFollowPops'
    <3>1. /\ at[t] = "wait" /\ port' = port \ {r} /\ ops' = ops
          /\ UNCHANGED << mInputIndex, mOutputIndex, pc, cur >>
          /\ at' = at \/ at' = [at EXCEPT ![t] = "giveBack"] \/ at' = [at EXCEPT ![t] = "giveBackRearm"]
      BY <2>1 DEF IgnoreCompletion, HandleCompletion, TakeOver, poolVars, queueVars
    <3>2. /\ Giving' = Giving \/ Giving' = Giving \cup {t}
          /\ MainHas' = MainHas
      BY <1>0, <3>1 DEF Giving, MainHas
    <3>3. IsFiniteSet(port') /\ Cardinality(port)' = Cardinality(port) - 1
      BY <1>0, <3>1, OneMoreOrLess
    <3>4. Cardinality(Giving)' <= Cardinality(Giving) + 1 /\ Cardinality(Giving)' \in Nat
      BY <1>1, <3>2, AtMostOneMore
    <3> QED
      BY <1>0, <1>2, <1>3, <3>1, <3>2, <3>3, <3>4, PushesFollowPopsOutside
  <2>2. ~Rearm(t)
    BY DEF Rearm, NoAnswers
  <2>3. CASE ForgetRefused(t)
    BY <1>4, <2>3 DEF ForgetRefused, HandOver, systemVars, Giving, MainHas
  <2> QED
    BY <1>12, <2>1, <2>2, <2>3 DEF WorkerStep
<1>13. CASE SystemStep
  <2>1. ASSUME NEW o \in ops, NEW ok, NEW msg, Complete(o, ok, msg)
        PROVE  PushesFollowPops'
    <3> DEFINE new == [ctx |-> o.ctx, client |-> o.client, ok |-> ok, msg |-> msg]
    <3>1. /\ ops' = ops \ {o} /\ (port' = port \/ port' = port \cup {new})
          /\ UNCHANGED << mInputIndex, mOutputIndex, pc, cur, at >>
      BY <2>1 DEF Complete, poolVars, queueVars
    <3>2. Giving' = Giving /\ MainHas' = MainHas
      BY <3>1 DEF Giving, MainHas
    <3> HIDE DEF new
    <3>3. IsFiniteSet(ops') /\ Cardinality(ops)' = Cardinality(ops) - 1
      BY <1>0, <3>1, OneMoreOrLess
    <3>4. /\ IsFiniteSet(port') /\ Cardinality(port)' <= Cardinality(port) + 1
          /\ Cardinality(port)' \in Nat
      BY <1>0, <3>1, AtMostOneMore
    <3> QED
      BY <1>0, <1>2, <1>3, <3>1, <3>2, <3>3, <3>4, PushesFollowPopsOutside
  <2>2. CASE \E c \in Clients : PeerCloses(c)
    BY <1>4, <2>2 DEF PeerCloses, poolVars, queueVars, Giving, MainHas
  <2> QED
    BY <1>13, <2>1, <2>2 DEF SystemStep, ConnectDone, SendDone, ReceiveDone, DoneByClose
<1>14. CASE \E t \in Threads : UseNull(t)
  BY <1>4, <1>14 DEF UseNull, Crash, poolVars, queueVars, systemVars, Giving, MainHas
<1> QED
  BY <1>0, <1>6, <1>7, <1>8, <1>9, <1>10, <1>11, <1>12, <1>13, <1>14 DEF NetworkNext, MainStep

(* Main's own pops, one for each client in Start and one in Process.       *)
LEMMA PopsCountedInCall ==
  ASSUME NetworkTypeOK, PhaseInv, NoAnswers, PushesFollowPops, PopsCounted,
         mOutputIndex < QueueMaxSize - 1 \/ at[Main] \notin {"startPop", "processPop"},
         at[Main] # "sendPop", NEW t \in Threads, CallQueue(t)
  PROVE  PopsCounted'
<1> USE NetworkAssumption DEF Goto
<1>0. /\ TypeOK /\ CallsFit /\ at \in [Threads -> MainLabels \cup WorkerLabels]
      /\ at[Main] \in MainLabels /\ Main \in Threads /\ Workers \subseteq Threads
  BY DEF NetworkTypeOK, PoolTypeOK, ControlTypeOK, PhaseInv
<1>1. /\ UNCHANGED << i, toArm >> /\ QueueStep(t)
      /\ pc[t] = "idle" => (at[t] \in PopLabels <=> hand[t] = Null)
      /\ IF pc'[t] = "idle" THEN at' = [at EXCEPT ![t] = AfterCall[at[t]]] ELSE at' = at
  BY DEF CallQueue, mainVars
<1>2. /\ t \in Workers => at[t] = "giveBack"
      /\ t \notin Workers => t = Main /\ at[t] \in {"startPop", "processPop"}
  BY <1>0 DEF CallQueue, NoAnswers, PopLabels, PushLabels, MainLabels
<1>3. CASE t = Main
  <2>1. /\ pc[t] \notin PushPcs /\ (pc[t] = "idle" => hand[t] = Null)
    BY <1>0, <1>1, <1>2, <1>3 DEF CallsFit, PopLabels, PushLabels
  <2>2. PopLoadOutput(t) \/ PopEmpty(t) \/ PopHasItem(t) \/ PopRead(t) \/ PopStoreOutput(t)
    BY <1>1, <2>1, QueueAssumption
       DEF QueueStep, PushLoadInput, PushFull, PushHasRoom, PushWrite, PushStoreInput, PushPcs
  <2>3. CASE pc'[t] # "idle"
    <3>1. at' = at /\ mOutputIndex' = mOutputIndex /\ at[Main] \in {"startPop", "processPop"}
      BY <1>0, <1>1, <1>2, <1>3, <2>2, <2>3
         DEF TypeOK, PopLoadOutput, PopEmpty, PopHasItem, PopRead, PopStoreOutput, Return
    <3>2. pc'[Main] \in PopPcs => cur'[Main] = mOutputIndex'
      BY <1>0, <1>3, <2>2, <2>3
         DEF PopsCounted, TypeOK, PopLoadOutput, PopEmpty, PopHasItem, PopRead, PopStoreOutput,
             Return, PopPcs
    <3>3. pc'[Main] = "popRead" => hand'[Main] # Null
      BY <1>0, <1>3, <2>2, <2>3, QueueAssumption
         DEF PopsCounted, TypeOK, PopLoadOutput, PopEmpty, PopHasItem, PopRead, PopStoreOutput,
             Return
    <3> QED
      BY <1>1, <3>1, <3>2, <3>3 DEF PopsCounted
  <2>4. CASE PopStoreOutput(t)
    <3>1. /\ cur[t] = mOutputIndex /\ hand[Main] # Null /\ hand' = hand /\ pc'[t] = "idle"
          /\ mOutputIndex' = Following(mOutputIndex)
      BY <1>0, <1>3, <2>4 DEF PopStoreOutput, PopsCounted, PopPcs, Return, TypeOK
    <3>2. mOutputIndex' = mOutputIndex + 1 /\ mOutputIndex \in Nat
      BY <1>0, <1>2, <1>3, <3>1, FollowingCounts, QueueAssumption DEF TypeOK, Slots
    <3>3. \/ at[Main] = "startPop" /\ at'[Main] = "connect"
          \/ at[Main] = "processPop" /\ at'[Main] = "arm"
      BY <1>0, <1>1, <1>2, <1>3, <3>1 DEF AfterCall
    <3>4. IsFiniteSet(toArm) /\ i \in Nat /\ ClientCount \in Nat
      <4>1. ClientCount \in Nat /\ IsFiniteSet(1 .. ClientCount)
        BY FS_Interval
      <4>2. toArm \in SUBSET (1 .. ClientCount) /\ i \in 1 .. ClientCount
        BY DEF NetworkTypeOK, ControlTypeOK, Clients
      <4>3. IsFiniteSet(toArm)
        BY <4>1, <4>2, FS_Subset
      <4> QED
        BY <4>1, <4>2, <4>3
    <3>5. Cardinality(toArm) \in Nat
      BY <3>4, FS_CardinalityType
    <3> QED
      BY <1>1, <1>3, <3>1, <3>2, <3>3, <3>4, <3>5 DEF PopsCounted, PopPcs
  <2>5. ~PopEmpty(t)
    <3>1. SUFFICES ASSUME PopEmpty(t) PROVE FALSE
      OBVIOUS
    <3>2. cur[t] = mOutputIndex /\ cur[t] = mInputIndex
      BY <1>3, <3>1 DEF PopEmpty, PopsCounted, PopPcs
    <3>3. Following(mInputIndex) = mOutputIndex + 1
      BY <1>0, <1>2, <1>3, <3>2, FollowingCounts, QueueAssumption DEF TypeOK, Slots
    <3>4. IsFiniteSet(Giving)
      BY FS_Subset DEF Giving
    <3>5. Following(mInputIndex) <= mOutputIndex
      <4>1. Cardinality(ops) \in Nat /\ Cardinality(port) \in Nat /\ Cardinality(Giving) \in Nat
        BY <3>4, FS_CardinalityType DEF PushesFollowPops
      <4>2. mOutputIndex \in Nat /\ MainHas \in Nat
        BY <1>0, QueueAssumption DEF MainHas, TypeOK, Slots
      <4>3. Following(mInputIndex) <= Returned
        BY DEF PushesFollowPops
      <4> HIDE DEF MainHas
      <4> QED
        BY <3>3, <4>1, <4>2, <4>3 DEF Returned
    <3> QED
      BY <1>0, <3>3, <3>5, QueueAssumption DEF TypeOK, Slots
  <2>6. pc'[t] = "idle" => PopStoreOutput(t) \/ PopEmpty(t)
    BY <1>0, <2>2 DEF TypeOK, PopLoadOutput, PopHasItem, PopRead
  <2> QED
    BY <2>3, <2>4, <2>5, <2>6
<1>4. CASE t \in Workers
  <2>1. /\ pc[t] \notin PopPcs /\ (pc[t] = "idle" => hand[t] # Null)
    BY <1>0, <1>1, <1>2, <1>4 DEF CallsFit, PopLabels, PushLabels
  <2>2. \/ PushLoadInput(t) \/ PushFull(t) \/ PushHasRoom(t) \/ PushWrite(t) \/ PushStoreInput(t)
    BY <1>1, <2>1 DEF QueueStep, PopLoadOutput, PopEmpty, PopHasItem, PopRead, PopStoreOutput,
                      PopPcs
  <2>3. /\ mOutputIndex' = mOutputIndex /\ pc'[Main] = pc[Main] /\ cur'[Main] = cur[Main]
        /\ hand'[Main] = hand[Main]
    BY <1>0, <1>4, <2>2 DEF TypeOK, PushLoadInput, PushFull, PushHasRoom, PushWrite, PushStoreInput,
                            Return
  <2>4. at'[Main] = at[Main]
    BY <1>0, <1>1, <1>4
  <2> QED
    BY <1>1, <2>3, <2>4 DEF PopsCounted
<1> QED
  BY <1>2, <1>3, <1>4

(* The steps outside the queue keep the count.                             *)
LEMMA PopsCountedStep ==
  ASSUME NetworkTypeOK, IndicesInRange, PhaseInv, NoAnswers, PushesFollowPops, PopsCounted,
         mOutputIndex < QueueMaxSize - 1 \/ at[Main] \notin {"startPop", "processPop"},
         StartupNext
  PROVE  PopsCounted'
<1> USE NetworkAssumption DEF Goto
<1>0. /\ TypeOK /\ at \in [Threads -> MainLabels \cup WorkerLabels] /\ at[Main] \in MainLabels
      /\ Main \in Threads /\ Workers \subseteq Threads /\ StartFirst /\ CallsFit
      /\ at[Main] # "sendPop" /\ NetworkNext /\ mOutputIndex \in Nat
  BY QueueAssumption DEF NetworkTypeOK, PoolTypeOK, TypeOK, Slots, ControlTypeOK, PhaseInv,
                         StartupNext
<1>1. i \in Nat /\ ClientCount \in Nat /\ i <= ClientCount
  BY DEF NetworkTypeOK, ControlTypeOK, Clients
<1>2. /\ IsFiniteSet(Clients) /\ Cardinality(Clients) = ClientCount
  BY <1>1, FS_Interval DEF Clients
<1>3. CASE \E t \in Threads : CallQueue(t)
  BY <1>0, <1>3, PopsCountedInCall
<1>4. ASSUME UNCHANGED << mOutputIndex, i, toArm >>, at'[Main] = at[Main],
             pc'[Main] = pc[Main], cur'[Main] = cur[Main], hand'[Main] = hand[Main]
      PROVE  PopsCounted'
  BY <1>4 DEF PopsCounted
<1>5. pc[Main] \in PopPcs => at[Main] \in PopLabels
  BY <1>0 DEF CallsFit
<1>6. CASE StartFails \/ CreateSocket
  <2>1. /\ UNCHANGED << poolVars, i, toArm >> /\ at[Main] = "create"
        /\ at'[Main] \in {"ended", "startPop"}
    BY <1>0, <1>6 DEF StartFails, CreateSocket, mainVars
  <2> QED
    BY <1>0, <2>1 DEF PopsCounted, poolVars, queueVars
<1>7. CASE SkipSocket \/ Associate
  <2>1. PICK v \in Seq(Clients) : NextSocket(v)
    <3>1. mClientVector \in Seq(Clients) /\ i \in Clients
      BY DEF NetworkTypeOK, ControlTypeOK
    <3>2. Append(mClientVector, i) \in Seq(Clients)
      BY <3>1
    <3> QED
      BY <1>7, <3>1, <3>2 DEF SkipSocket, Associate
  <2>2. at[Main] \in {"create", "associate"} /\ mOutputIndex <= i
    BY <1>0, <1>1, <1>7 DEF SkipSocket, Associate, PopsCounted
  <2>3. mOutputIndex' = mOutputIndex /\ pc' = pc /\ cur' = cur /\ hand' = hand
    BY <2>1 DEF NextSocket, poolVars, queueVars
  <2>4. pc[Main] \notin PopPcs
    BY <1>5, <2>2 DEF PopLabels
  <2>5. CASE i < ClientCount
    <3>1. i' = i + 1 /\ at'[Main] = "create"
      BY <1>0, <2>1, <2>5 DEF NextSocket
    <3> QED
      BY <1>0, <1>1, <2>2, <2>3, <2>4, <3>1 DEF PopsCounted, PopPcs
  <2>6. CASE ~(i < ClientCount)
    <3>1. toArm' = MapOf(v) /\ at'[Main] \in {"sendPop", "processPop"}
      BY <1>0, <2>1, <2>6 DEF NextSocket
    <3>2. IsFiniteSet(toArm') /\ Cardinality(toArm') <= ClientCount
      <4>1. MapOf(v) \in SUBSET Clients
        BY MapOfClients
      <4> QED
        BY <1>2, <3>1, <4>1, FS_Subset
    <3>3. Cardinality(toArm') \in Nat
      BY <3>2, FS_CardinalityType
    <3>4. mOutputIndex' + Cardinality(toArm') <= 2 * ClientCount
      BY <1>0, <1>1, <2>2, <2>3, <3>2, <3>3
    <3> QED
      BY <2>3, <2>4, <3>1, <3>4 DEF PopsCounted, PopPcs
  <2> QED
    BY <2>5, <2>6
<1>8. CASE StartConnects
  <2>1. /\ at[Main] = "connect" /\ at'[Main] = "associate" /\ pc' = pc /\ i' = i
        /\ mOutputIndex' = mOutputIndex
    BY <1>0, <1>8 DEF StartConnects, ConnectEx, HandOver
  <2>2. pc[Main] \notin PopPcs
    BY <1>5, <2>1 DEF PopLabels
  <2> QED
    BY <2>1, <2>2 DEF PopsCounted, PopPcs
<1>9. CASE ProcessArms
  <2>1. PICK c \in toArm :
          /\ at[Main] = "arm" /\ toArm' = toArm \ {c}
          /\ at' = [at EXCEPT ![Main] = IF toArm = {c} THEN "sendPop" ELSE "processPop"]
          /\ ReceiveReady(Main, c)
    BY <1>9 DEF ProcessArms
  <2>2. mOutputIndex' = mOutputIndex /\ pc' = pc /\ at'[Main] \in {"sendPop", "processPop"}
    BY <1>0, <2>1 DEF ReceiveReady, HandOver, poolVars, queueVars
  <2>3. pc[Main] \notin PopPcs
    BY <1>5, <2>1 DEF PopLabels
  <2>4. mOutputIndex' + Cardinality(toArm') <= 2 * ClientCount
    <3>1. toArm \in SUBSET Clients
      BY DEF NetworkTypeOK, ControlTypeOK
    <3>2. IsFiniteSet(toArm)
      BY <1>2, <3>1, FS_Subset
    <3>3. /\ Cardinality(toArm) \in Nat /\ Cardinality(toArm') = Cardinality(toArm) - 1
      BY <2>1, <3>2, OneMoreOrLess
    <3>4. mOutputIndex + Cardinality(toArm) <= 2 * ClientCount + 1
      BY <2>1 DEF PopsCounted
    <3> QED
      BY <1>0, <1>1, <2>2, <3>3, <3>4
  <2> QED
    BY <2>2, <2>3, <2>4 DEF PopsCounted, PopPcs
<1>10. ~SendRequest
  BY DEF SendRequest, NoAnswers
<1>11. ASSUME NEW t \in Workers, WorkerStep(t)
       PROVE  PopsCounted'
  <2>1. /\ UNCHANGED << mOutputIndex, i, toArm >> /\ pc' = pc /\ cur' = cur
        /\ at' = at \/ \E l \in WorkerLabels : at' = [at EXCEPT ![t] = l]
        /\ hand' = hand \/ \E x : hand' = [hand EXCEPT ![t] = x]
    <3>1. ~Rearm(t)
      BY DEF Rearm, NoAnswers
    <3>2. CASE ForgetRefused(t)
      BY <3>2 DEF ForgetRefused, HandOver, mainVars
    <3>3. ASSUME NEW r \in port, IgnoreCompletion(t, r)
          PROVE  UNCHANGED << poolVars, at, mainVars >>
      BY <3>3 DEF IgnoreCompletion
    <3>4. ASSUME NEW r \in port, HandleCompletion(t, r)
          PROVE  /\ TakeOver(t, r.ctx) /\ UNCHANGED mainVars
                 /\ \E l \in WorkerLabels : at' = [at EXCEPT ![t] = l]
      BY <3>4 DEF HandleCompletion, WorkerLabels
    <3> QED
      BY <1>11, <3>1, <3>2, <3>3, <3>4
         DEF WorkerStep, TakeOver, poolVars, queueVars, mainVars
  <2>2. at'[Main] = at[Main] /\ hand'[Main] = hand[Main]
    BY <1>0, <2>1 DEF TypeOK
  <2> QED
    BY <1>4, <2>1, <2>2
<1>12. CASE SystemStep \/ \E t \in Threads : UseNull(t)
  BY <1>4, <1>12 DEF SystemStep, ConnectDone, SendDone, ReceiveDone, DoneByClose, PeerCloses,
                     Complete, UseNull, Crash, mainVars, poolVars, queueVars
<1> QED
  BY <1>0, <1>3, <1>6, <1>7, <1>8, <1>9, <1>10, <1>11, <1>12 DEF NetworkNext, MainStep

(* Main's pop takes the contexts in the order of the slots, and no push    *)
(* writes to a slot that main has not come to.                             *)
LEMMA FirstPopsInCall ==
  ASSUME NetworkTypeOK, PhaseInv, NoAnswers, PushesFollowPops, PopsCounted, FirstPops,
         mOutputIndex < QueueMaxSize - 1 \/ at[Main] \notin {"startPop", "processPop"},
         at[Main] # "sendPop", NEW t \in Threads, CallQueue(t)
  PROVE  FirstPops'
<1> USE NetworkAssumption DEF Goto
<1>0. /\ TypeOK /\ CallsFit /\ at \in [Threads -> MainLabels \cup WorkerLabels]
      /\ at[Main] \in MainLabels /\ Main \in Threads /\ Workers \subseteq Threads
  BY DEF NetworkTypeOK, PoolTypeOK, ControlTypeOK, PhaseInv
<1>1. /\ UNCHANGED << ops, port, opType >> /\ QueueStep(t)
      /\ pc[t] = "idle" => (at[t] \in PopLabels <=> hand[t] = Null)
      /\ IF pc'[t] = "idle" THEN at' = [at EXCEPT ![t] = AfterCall[at[t]]] ELSE at' = at
  BY DEF CallQueue, systemVars
<1>2. /\ t \in Workers => at[t] = "giveBack"
      /\ t \notin Workers => t = Main /\ at[t] \in {"startPop", "processPop"}
  BY <1>0 DEF CallQueue, NoAnswers, PopLabels, PushLabels, MainLabels
<1>3. InOperation' = InOperation
  BY <1>1 DEF InOperation
<1>4. mOutputIndex \in Slots /\ Slots = 0 .. QueueMaxSize - 1 /\ QueueMaxSize \in Nat \ {0}
  BY <1>0, QueueAssumption DEF TypeOK, Slots
<1>5. CASE t = Main
  <2>1. /\ pc[t] \notin PushPcs /\ (pc[t] = "idle" => hand[t] = Null)
    BY <1>0, <1>1, <1>2, <1>5 DEF CallsFit, PopLabels, PushLabels
  <2>2. PopLoadOutput(t) \/ PopEmpty(t) \/ PopHasItem(t) \/ PopRead(t) \/ PopStoreOutput(t)
    BY <1>1, <2>1, QueueAssumption
       DEF QueueStep, PushLoadInput, PushFull, PushHasRoom, PushWrite, PushStoreInput, PushPcs
  <2>3. mBuffer' = mBuffer /\ mOutputIndex \in Ahead
    BY <1>2, <1>4, <1>5, <2>2
       DEF Ahead, PopLoadOutput, PopEmpty, PopHasItem, PopRead, PopStoreOutput
  <2>4. CASE pc'[t] # "idle"
    <3>1. at' = at /\ mOutputIndex' = mOutputIndex /\ at[Main] \in {"startPop", "processPop"}
      BY <1>0, <1>1, <1>2, <1>5, <2>2, <2>4
         DEF TypeOK, PopLoadOutput, PopEmpty, PopHasItem, PopRead, PopStoreOutput, Return
    <3>2. pc'[Main] = "popRead" => hand'[Main] = mBuffer[mOutputIndex]
      BY <1>0, <1>5, <2>2, <2>4
         DEF PopsCounted, PopPcs, TypeOK, PopLoadOutput, PopEmpty, PopHasItem, PopRead,
             PopStoreOutput, Return
    <3>3. Ahead' = Ahead
      BY <3>1 DEF Ahead
    <3> QED
      BY <1>1, <1>3, <2>3, <3>1, <3>2, <3>3 DEF FirstPops
  <2>5. CASE PopStoreOutput(t)
    <3>1. /\ cur[t] = mOutputIndex /\ hand[Main] = mBuffer[mOutputIndex] /\ hand' = hand
          /\ mOutputIndex' = Following(mOutputIndex) /\ pc'[Main] = "idle"
      BY <1>0, <1>5, <2>5 DEF PopStoreOutput, PopsCounted, PopPcs, FirstPops, Return, TypeOK
    <3>2. mOutputIndex' = mOutputIndex + 1
      BY <1>2, <1>4, <1>5, <3>1, FollowingCounts
    <3>3. Ahead' \subseteq Ahead \ {mOutputIndex}
      BY <1>4, <3>2 DEF Ahead
    <3>4. hand'[Main] \notin InOperation /\ \A n \in Ahead' : mBuffer[n] # hand'[Main]
      BY <2>3, <3>1, <3>3 DEF FirstPops
    <3> QED
      BY <1>1, <1>3, <2>3, <3>1, <3>3, <3>4 DEF FirstPops
  <2>6. CASE PopEmpty(t)
    <3>1. cur[t] = mOutputIndex /\ cur[t] = mInputIndex
      BY <1>5, <2>6 DEF PopEmpty, PopsCounted, PopPcs
    <3>2. Following(mInputIndex) = mOutputIndex + 1
      BY <1>2, <1>4, <1>5, <3>1, FollowingCounts
    <3>3. Following(mInputIndex) <= mOutputIndex
      BY PushesBehind
    <3> QED
      BY <1>4, <3>2, <3>3
  <2>7. pc'[t] = "idle" => PopStoreOutput(t) \/ PopEmpty(t)
    BY <1>0, <2>2 DEF TypeOK, PopLoadOutput, PopHasItem, PopRead
  <2> QED
    BY <2>4, <2>5, <2>6, <2>7
<1>6. CASE t \in Workers
  <2>1. /\ pc[t] \notin PopPcs /\ (pc[t] = "idle" => hand[t] # Null)
    BY <1>0, <1>1, <1>2, <1>6 DEF CallsFit, PopLabels, PushLabels
  <2>2. \/ PushLoadInput(t) \/ PushFull(t) \/ PushHasRoom(t) \/ PushWrite(t) \/ PushStoreInput(t)
    BY <1>1, <2>1 DEF QueueStep, PopLoadOutput, PopEmpty, PopHasItem, PopRead, PopStoreOutput,
                      PopPcs
  <2>3. /\ mOutputIndex' = mOutputIndex /\ pc'[Main] = pc[Main] /\ hand'[Main] = hand[Main]
        /\ at'[Main] = at[Main]
    BY <1>0, <1>1, <1>6, <2>2
       DEF TypeOK, PushLoadInput, PushFull, PushHasRoom, PushWrite, PushStoreInput, Return
  <2>4. Ahead' = Ahead
    BY <2>3 DEF Ahead
  <2>5. \A n \in Ahead : mBuffer'[n] = mBuffer[n]
    <3>1. CASE ~PushWrite(t)
      BY <2>2, <3>1 DEF PushLoadInput, PushFull, PushHasRoom, PushStoreInput
    <3>2. CASE PushWrite(t)
      <4>1. mBuffer' = [mBuffer EXCEPT ![cur[t]] = hand[t]] /\ pc[t] \in PushPcs
        BY <3>2 DEF PushWrite, PushPcs
      <4>2. cur[t] \in Slots /\ Following(cur[t]) <= mOutputIndex
        BY <1>0, <1>6, <4>1, PushesBehind DEF TypeOK
      <4>3. cur[t] \notin Ahead
        BY <1>4, <4>2, FollowingCounts DEF Ahead
      <4> QED
        BY <1>0, <4>1, <4>3 DEF TypeOK, Ahead
    <3> QED
      BY <3>1, <3>2
  <2>6. pc[Main] = "popRead" => mOutputIndex \in Ahead
    BY <1>0, <1>4 DEF CallsFit, PopPcs, PopLabels, MainLabels, Ahead
  <2> QED
    BY <1>1, <1>3, <2>3, <2>4, <2>5, <2>6 DEF FirstPops
<1> QED
  BY <1>2, <1>5, <1>6

(* A context that main hands over was in no operation; what the workers    *)
(* and the system do goes from an operation to its completion.             *)
LEMMA FirstPopsStep ==
  ASSUME NetworkTypeOK, PhaseInv, NoAnswers, PushesFollowPops, PopsCounted, FirstPops,
         mOutputIndex < QueueMaxSize - 1 \/ at[Main] \notin {"startPop", "processPop"},
         StartupNext
  PROVE  FirstPops'
<1> USE NetworkAssumption DEF Goto
<1>0. /\ TypeOK /\ at \in [Threads -> MainLabels \cup WorkerLabels] /\ at[Main] \in MainLabels
      /\ Main \in Threads /\ Workers \subseteq Threads /\ CallsFit
      /\ at[Main] # "sendPop" /\ NetworkNext /\ opType \in [Contexts -> OpTypes]
      /\ ops \subseteq Operations /\ port \subseteq Completions
  BY DEF NetworkTypeOK, PoolTypeOK, ControlTypeOK, SystemTypeOK, PhaseInv, StartupNext
<1>1. /\ \A o \in ops : o.ctx \in Contexts /\ o.op \in {"connect", "recv"}
      /\ \A r \in port : r.ctx \in Contexts
  BY <1>0 DEF NoAnswers, Operations, Completions
<1>2. pc[Main] = "popRead" => at[Main] \in PopLabels
  BY <1>0 DEF CallsFit, PopPcs
<1>3. CASE \E t \in Threads : CallQueue(t)
  BY <1>0, <1>3, FirstPopsInCall
<1>4. ASSUME UNCHANGED << mOutputIndex, mBuffer, ops, port, opType >>, pc'[Main] = pc[Main],
             at'[Main] = at[Main] \/ at'[Main] \notin {"connect", "arm"},
             hand'[Main] = hand[Main]
      PROVE  FirstPops'
  <2>1. InOperation' = InOperation /\ Ahead' = Ahead
    BY <1>4 DEF InOperation, Ahead
  <2> QED
    BY <1>4, <2>1 DEF FirstPops
<1>5. ASSUME UNCHANGED << mOutputIndex, mBuffer, port >>, pc'[Main] = pc[Main],
             at[Main] \in {"connect", "arm"}, at'[Main] \notin {"connect", "arm"},
             hand[Main] \in Contexts,
             NEW new, new.ctx = hand[Main], ops' = ops \/ ops' = ops \cup {new},
             opType' = opType \/ \E type : opType' = [opType EXCEPT ![hand[Main]] = type],
             new.op = "connect" => opType'[hand[Main]] # "OP_RECV"
      PROVE  FirstPops'
  <2>1. Ahead' = Ahead /\ InOperation' \subseteq InOperation \cup {hand[Main]}
    BY <1>5 DEF InOperation, Ahead
  <2>2. hand[Main] \notin InOperation /\ \A n \in Ahead : mBuffer[n] # hand[Main]
    BY <1>5 DEF FirstPops
  <2>3. pc'[Main] # "popRead"
    BY <1>2, <1>5 DEF PopLabels
  <2>4. \A x \in InOperation : opType'[x] = opType[x]
    <3>1. InOperation \subseteq Contexts
      BY <1>1 DEF InOperation
    <3> QED
      BY <1>0, <1>5, <2>2, <3>1
  <2>5. \A o \in ops : o.ctx \in InOperation
    BY DEF InOperation
  <2>6. \A r \in port : r.ctx \in InOperation
    BY DEF InOperation
  <2> QED
    BY <1>5, <2>1, <2>2, <2>3, <2>4, <2>5, <2>6 DEF FirstPops
<1>6. CASE StartFails \/ CreateSocket \/ SkipSocket \/ Associate
  <2>1. UNCHANGED << poolVars, ops, port, opType >>
    BY <1>6 DEF StartFails, CreateSocket, SkipSocket, Associate, NextSocket, systemVars
  <2>2. at'[Main] \in {"ended", "startPop", "create", "sendPop", "processPop"}
    BY <1>0, <1>6 DEF StartFails, CreateSocket, SkipSocket, Associate, NextSocket
  <2> QED
    BY <1>4, <2>1, <2>2 DEF poolVars, queueVars
<1>7. CASE StartConnects
  <2> DEFINE new == [ctx |-> hand[Main], client |-> i, op |-> "connect"]
  <2>1. /\ at[Main] = "connect" /\ at'[Main] = "associate" /\ hand[Main] \in Contexts
        /\ UNCHANGED << mOutputIndex, mBuffer, pc, port >>
        /\ opType' = [opType EXCEPT ![hand[Main]] = "OP_ACCEPT"]
        /\ ops' = ops \/ ops' = ops \cup {new}
    BY <1>0, <1>7 DEF StartConnects, ConnectEx, HandOver
  <2>2. new.ctx = hand[Main] /\ opType'[hand[Main]] # "OP_RECV"
    BY <1>0, <2>1
  <2>3. at'[Main] \notin {"connect", "arm"} /\ pc'[Main] = pc[Main]
    BY <2>1
  <2>4. \E type : opType' = [opType EXCEPT ![hand[Main]] = type]
    BY <2>1
  <2> HIDE DEF new
  <2> QED
    BY <1>5, <2>1, <2>2, <2>3, <2>4
<1>8. CASE ProcessArms
  <2>1. PICK c \in toArm, l \in {"sendPop", "processPop"} :
          /\ at[Main] = "arm" /\ at' = [at EXCEPT ![Main] = l] /\ port' = port
          /\ ReceiveReady(Main, c)
    BY <1>8 DEF ProcessArms
  <2>2. hand[Main] # Null
    BY <2>1 DEF PopsCounted
  <2> DEFINE new == [ctx |-> hand[Main], client |-> c, op |-> "recv"]
  <2>3. /\ ops' = ops \/ ops' = ops \cup {new}
        /\ UNCHANGED << mOutputIndex, mBuffer, pc >> /\ hand[Main] \in Contexts
        /\ opType' = opType \/ opType' = [opType EXCEPT ![hand[Main]] = "OP_RECV"]
    BY <2>1, <2>2 DEF ReceiveReady, HandOver
  <2>4. new.ctx = hand[Main] /\ new.op = "recv"
    OBVIOUS
  <2>5. at'[Main] \notin {"connect", "arm"}
    BY <1>0, <2>1
  <2> HIDE DEF new
  <2> QED
    BY <1>5, <2>1, <2>3, <2>4, <2>5
<1>9. ~SendRequest
  BY DEF SendRequest, NoAnswers
<1>10. ASSUME NEW t \in Workers, WorkerStep(t)
       PROVE  FirstPops'
  <2>1. ASSUME NEW r \in port, IgnoreCompletion(t, r) \/ HandleCompletion(t, r)
        PROVE  FirstPops'
    <3>1. /\ port' = port \ {r} /\ ops' = ops /\ UNCHANGED << mOutputIndex, mBuffer, pc >>
          /\ opType' = opType \/ opType' = [opType EXCEPT ![r.ctx] = "OP_DEFAULT"]
      BY <2>1 DEF IgnoreCompletion, HandleCompletion, TakeOver, poolVars, queueVars
    <3>2. /\ at'[Main] = at[Main] /\ hand'[Main] = hand[Main]
      BY <1>0, <2>1 DEF IgnoreCompletion, HandleCompletion, TakeOver, poolVars, queueVars, TypeOK
    <3>3. InOperation' \subseteq InOperation /\ Ahead' = Ahead
      BY <3>1 DEF InOperation, Ahead
    <3>4. \A x \in Contexts : opType'[x] = "OP_RECV" => opType[x] = "OP_RECV"
      BY <1>0, <3>1
    <3> QED
      BY <1>1, <3>1, <3>2, <3>3, <3>4 DEF FirstPops
  <2>2. ~Rearm(t)
    BY DEF Rearm, NoAnswers
  <2>3. CASE ForgetRefused(t)
    BY <1>0, <1>4, <2>3 DEF ForgetRefused, HandOver, systemVars, TypeOK
  <2> QED
    BY <1>10, <2>1, <2>2, <2>3 DEF WorkerStep
<1>11. CASE SystemStep
  <2>1. ASSUME NEW o \in ops, NEW ok, NEW msg, Complete(o, ok, msg),
               ok /\ o.op = "recv" => msg = "unknown"
        PROVE  FirstPops'
    <3> DEFINE new == [ctx |-> o.ctx, client |-> o.client, ok |-> ok, msg |-> msg]
    <3>1. /\ ops' = ops \ {o} /\ (port' = port \/ port' = port \cup {new})
          /\ UNCHANGED << mOutputIndex, mBuffer, pc, at, hand, opType >>
      BY <2>1 DEF Complete, poolVars, queueVars
    <3>2. new.ctx = o.ctx /\ new.ok = ok /\ new.msg = msg
      OBVIOUS
    <3> HIDE DEF new
    <3>3. InOperation' \subseteq InOperation /\ Ahead' = Ahead
      BY <3>1, <3>2 DEF InOperation, Ahead
    <3>4. new.ok /\ opType[new.ctx] = "OP_RECV" => new.msg = "unknown"
      BY <1>1, <2>1, <3>2 DEF FirstPops
    <3> QED
      BY <3>1, <3>3, <3>4 DEF FirstPops
  <2>2. ASSUME NEW o \in ops, ConnectDone(o) \/ SendDone(o) \/ ReceiveDone(o) \/ DoneByClose(o)
        PROVE  FirstPops'
    <3>1. ~SendDone(o)
      BY DEF SendDone, NoAnswers
    <3>2. owed[o.client] = 0
      BY <1>0 DEF Operations, NoAnswers
    <3>3. ~ReceiveDone(o)
      BY <3>2 DEF ReceiveDone
    <3> QED
      BY <2>1, <2>2, <3>1, <3>3 DEF ConnectDone, DoneByClose
  <2>3. CASE \E c \in Clients : PeerCloses(c)
    BY <1>4, <2>3 DEF PeerCloses, poolVars, queueVars
  <2> QED
    BY <1>11, <2>2, <2>3 DEF SystemStep
<1>12. CASE \E t \in Threads : UseNull(t)
  BY <1>4, <1>12 DEF UseNull, Crash, poolVars, queueVars, systemVars
<1> QED
  BY <1>0, <1>3, <1>6, <1>7, <1>8, <1>9, <1>10, <1>11, <1>12 DEF NetworkNext, MainStep

(* With two workers or more main finds a context for every ConnectEx of    *)
(* Start and every first receive of Process, whatever the workers, the     *)
(* system and the peers do meanwhile, with any number of clients.          *)
THEOREM StartupCorrect == StartupSpec => []StartupFindsContexts
<1> DEFINE Safe == Cardinality(Workers) >= 2 => StartupInv
<1>1. NetworkInit => Safe
  <2> SUFFICES ASSUME NetworkInit PROVE StartupInv
    OBVIOUS
  <2> USE NetworkAssumption
  <2>1. /\ at = [t \in Threads |-> IF t = Main THEN "create" ELSE "none"] /\ i = 1
        /\ Main \in Threads /\ Workers \subseteq Threads
    BY DEF NetworkInit
  <2>2. NoAnswers
    BY <2>1 DEF NoAnswers, NetworkInit
  <2>3. /\ IsFiniteSet(ops) /\ IsFiniteSet(port) /\ Cardinality(ops) = 0 /\ Cardinality(port) = 0
    BY FS_EmptySet DEF NetworkInit
  <2>4. Cardinality(Giving) = 0 /\ MainHas = 0
    <3>1. Giving = {}
      BY <2>1 DEF Giving
    <3> QED
      BY <2>1, <3>1, FS_EmptySet DEF MainHas
  <2>5. /\ mOutputIndex = 0 /\ mInputIndex = QueueMaxSize - 1
        /\ \A t \in Threads : pc[t] = "idle"
    BY DEF NetworkInit, PoolInit
  <2>6. Following(mInputIndex) = 0
    BY <2>5, FollowingCounts, QueueAssumption DEF Slots
  <2>7. PushesFollowPops
    BY <2>1, <2>3, <2>4, <2>5, <2>6 DEF PushesFollowPops, Returned, PushPcs
  <2>8. PopsCounted
    BY <2>1, <2>5 DEF PopsCounted, PopPcs
  <2>9. FirstPops
    <3>1. /\ mOutputIndex = 0 /\ ops = {} /\ port = {}
          /\ \A m, n \in Slots : mBuffer[m] = mBuffer[n] => m = n
      BY DEF NetworkInit, PoolInit
    <3> QED
      BY <2>1, <2>5, <3>1 DEF FirstPops, Ahead, InOperation
  <2> QED
    BY <2>2, <2>7, <2>8, <2>9 DEF StartupInv
<1>2. /\ NetworkTypeOK /\ IndicesInRange /\ PhaseInv /\ Safe
      /\ [StartupNext]_networkVars
      => Safe'
  <2> SUFFICES ASSUME NetworkTypeOK, IndicesInRange, PhaseInv, Cardinality(Workers) >= 2,
                      StartupInv, [StartupNext]_networkVars
               PROVE  StartupInv'
    OBVIOUS
  <2>1. CASE StartupNext
    <3>1. mOutputIndex < QueueMaxSize - 1 \/ at[Main] \notin {"startPop", "processPop"}
      <4>1. 2 * ClientCount < QueueMaxSize /\ ClientCount \in Nat \ {0} /\ QueueMaxSize \in Nat
        BY PoolOfTwoWorkers, NetworkAssumption, QueueAssumption
      <4>2. mOutputIndex \in Nat /\ i \in 1 .. ClientCount
        BY QueueAssumption DEF NetworkTypeOK, PoolTypeOK, TypeOK, Slots, ControlTypeOK, Clients
      <4>3. CASE at[Main] = "startPop"
        BY <4>1, <4>2, <4>3 DEF StartupInv, PopsCounted
      <4>4. CASE at[Main] = "processPop"
        <5>1. toArm \in SUBSET Clients /\ toArm # {}
          BY <4>4 DEF NetworkTypeOK, ControlTypeOK, IndicesInRange
        <5>2. IsFiniteSet(toArm)
          <6>1. IsFiniteSet(Clients)
            BY <4>1, FS_Interval DEF Clients
          <6> QED
            BY <5>1, <6>1, FS_Subset
        <5>3. Cardinality(toArm) \in Nat /\ Cardinality(toArm) # 0
          BY <5>1, <5>2, FS_CardinalityType, FS_EmptySet
        <5> QED
          BY <4>1, <4>2, <4>4, <5>3 DEF StartupInv, PopsCounted
      <4> QED
        BY <4>3, <4>4
    <3>2. at[Main] # "sendPop"
      BY <2>1 DEF StartupNext
    <3> QED
      BY <2>1, <3>1, <3>2, NoAnswersStep, PushesFollowPopsStep, PopsCountedStep, FirstPopsStep
         DEF StartupInv
  <2>2. CASE UNCHANGED networkVars
    <3>1. NoAnswers'
      BY <2>2 DEF networkVars, systemVars, StartupInv, NoAnswers
    <3>2. UNCHANGED << mInputIndex, mOutputIndex, pc, cur, hand, at, i, toArm, ops, port >>
      BY <2>2 DEF networkVars, systemVars, poolVars, queueVars, mainVars
    <3>3. PushesFollowPops'
      BY <3>2 DEF StartupInv, PushesFollowPops, Returned, Giving, MainHas, Following
    <3>4. PopsCounted'
      BY <3>2 DEF StartupInv, PopsCounted
    <3>5. UNCHANGED << mBuffer, opType, ops, port >>
      BY <2>2 DEF networkVars, systemVars, poolVars, queueVars
    <3>6. FirstPops'
      BY <3>2, <3>5 DEF StartupInv, FirstPops, Ahead, InOperation
    <3> QED
      BY <3>1, <3>3, <3>4, <3>6 DEF StartupInv
  <2> QED
    BY <2>1, <2>2
<1>3. Safe => StartupFindsContexts
  BY DEF StartupInv, PopsCounted, StartupFindsContexts
<1>4. StartupSpec => NetworkSpec /\ NetworkInit /\ [][StartupNext]_networkVars
  <2>1. [NetworkNext /\ at[Main] # "sendPop"]_networkVars
        => [NetworkNext]_networkVars /\ [StartupNext]_networkVars
    BY DEF StartupNext
  <2> QED
    BY <2>1, PTL DEF StartupSpec, NetworkSpec
<1> HIDE DEF Safe
<1> QED
  BY <1>1, <1>2, <1>3, <1>4, NetworkTypeCorrect, PhaseCorrect, PTL

=============================================================================
