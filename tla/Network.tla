------------------------------- MODULE Network -------------------------------
(***************************************************************************)
(* The client program: the main thread (Network::Start, Network::Process   *)
(* and the loop of main), the worker threads (Network::Work), the sockets  *)
(* (Client::ConnectEx, ReceiveReady, Send) and the operating system that   *)
(* carries their overlapped operations and queues their completions.       *)
(*                                                                         *)
(* at[t] is where a thread is outside the queue, or the call of the queue  *)
(* it is in.  A worker's loop:                                             *)
(*                                                                         *)
(*   wait --> giveBack --> wait                    (OP_ACCEPT, OP_SEND)    *)
(*     \----> giveBackRearm --> rearmPop --> rearm --> wait    (OP_RECV)   *)
(*                                                                         *)
(* and the main thread, for each client in turn:                           *)
(*                                                                         *)
(*   create --> startPop --> connect --> associate          Network::Start *)
(*   processPop --> arm                                   Network::Process *)
(*   sendPop --> send                                                 main *)
(***************************************************************************)
EXTENDS ContextPool

CONSTANTS
  Main, Workers,  (* the thread of main() and the threads of Process()     *)
  ClientCount,    (* the number of clients asked for                       *)
  Keys,           (* what is left of a Client's address in an int          *)
  Faults,         (* what may go wrong: failures that the operating system *)
                  (* reports, and responses that TCP cuts                  *)
  MaxOwed         (* bound: the answers a server may owe to a connection   *)

Clients == 1 .. ClientCount

ASSUME NetworkAssumption ==
  /\ Threads = Workers \cup {Main} /\ Main \notin Workers
  /\ IsFiniteSet(Workers) /\ Workers # {}
  /\ ClientCount \in Nat \ {0}
  /\ Cardinality(Contexts) = Cardinality(Workers) * ClientCount
  /\ Faults \subseteq {"startup", "socket", "connectEx", "connect", "close",
                 "refuse", "cut"}
  /\ MaxOwed \in Nat \ {0}

VARIABLES
  at,         (* where each thread is                                      *)
  i,          (* the loop index of the main thread                         *)
  mClientVector,  (* the clients made by Start                             *)
  key,            (* the key of each client in mClientMap                  *)
  toArm,      (* those of mClientMap that Process has not come to          *)
  client,     (* the client whose completion a worker handles, 0 if none   *)
  opType,     (* mOperationType of each context                            *)
  wsa,        (* WSAStartup done and no WSACleanup since                   *)
  conn,       (* the state of each client's socket                         *)
  owed,       (* requests the server has and has not answered              *)
  ops,        (* the overlapped operations in progress                     *)
  port,       (* the completions queued at mIocp                           *)
  crashed,    (* a null context was used, or an index out of range         *)
  armed,      (* history: clients for which a WSARecv has been accepted    *)
  troubled    (* history: clients that a call failed for or was refused    *)
              (* for, that connected too early, whose connection the peer  *)
              (* closed, or that got what is not a whole response          *)

mainVars   == << i, mClientVector, toArm, wsa >>
systemVars == << conn, owed, ops, port >>
networkVars == << poolVars, at, mainVars, key, client, opType, systemVars, crashed, armed, troubled >>

Registered == {mClientVector[k] : k \in DOMAIN mClientVector}

(* The clients that insert() keeps: the first one of each key. *)
MapOf(vector) ==
  {vector[n] : n \in {n \in DOMAIN vector :
     \A m \in 1 .. n - 1 : key[vector[m]] # key[vector[n]]}}

mClientMap == MapOf(mClientVector)

(* What find() returns for the completion key of client c. *)
Finds(c) == {d \in mClientMap : key[d] = key[c]}

MainLabels   == {"create", "startPop", "connect", "associate", "processPop", "arm",
                 "sendPop", "send", "ended"}
WorkerLabels == {"none", "wait", "giveBack", "giveBackRearm", "rearmPop", "rearm"}
PopLabels    == {"startPop", "processPop", "sendPop", "rearmPop"}
PushLabels   == {"giveBack", "giveBackRearm"}
SocketStates == {"none", "open", "up", "refused", "closed", "invalid", "reset"}
OpTypes      == {"OP_DEFAULT", "OP_ACCEPT", "OP_RECV", "OP_SEND"}

Operations  == [ctx : Contexts, client : Clients, op : {"connect", "recv", "send"}]
Completions == [ctx : Contexts, client : Clients, ok : BOOLEAN,
                msg : {"none", "response", "part", "unknown"}]

ControlTypeOK ==
  /\ at \in [Threads -> MainLabels \cup WorkerLabels]
  /\ at[Main] \in MainLabels /\ \A t \in Workers : at[t] \in WorkerLabels
  /\ i \in Clients
  /\ mClientVector \in Seq(Clients) /\ Len(mClientVector) <= ClientCount
  /\ key \in [Clients -> Keys]
  /\ toArm \subseteq Clients
  /\ client \in [Workers -> Clients \cup {0}]
  /\ wsa \in BOOLEAN /\ crashed \in BOOLEAN

SystemTypeOK ==
  /\ opType \in [Contexts -> OpTypes]
  /\ conn \in [Clients -> SocketStates]
  /\ owed \in [Clients -> 0 .. MaxOwed]
  /\ ops \subseteq Operations /\ port \subseteq Completions
  /\ armed \subseteq Clients /\ troubled \subseteq Clients

NetworkTypeOK == PoolTypeOK /\ ControlTypeOK /\ SystemTypeOK

(* Process has a client to arm, main finds mClientVector[i] unless it has   *)
(* just gone past the end, and a worker that posts a receive again knows   *)
(* its client.                                                             *)
IndicesInRange ==
  /\ at[Main] \in {"create", "startPop", "connect", "associate"} =>
       Len(mClientVector) < i
  /\ at[Main] \in {"processPop", "arm"} => toArm # {}
  /\ at[Main] \in {"processPop", "arm", "sendPop", "send"} /\ ~crashed =>
       i <= Len(mClientVector)
  /\ \A t \in Workers : at[t] \in {"giveBackRearm", "rearmPop", "rearm"} =>
       client[t] # 0

NetworkInit ==
  /\ PoolInit
  /\ at = [t \in Threads |-> IF t = Main THEN "create" ELSE "none"]
  /\ i = 1
  /\ mClientVector = << >>
  /\ key \in [Clients -> Keys]
  /\ toArm = {}
  /\ client = [t \in Workers |-> 0]
  /\ opType = [x \in Contexts |-> "OP_DEFAULT"]
  /\ wsa = TRUE
  /\ conn = [c \in Clients |-> "none"]
  /\ owed = [c \in Clients |-> 0]
  /\ ops = {} /\ port = {}
  /\ crashed = FALSE
  /\ armed = {} /\ troubled = {}

Goto(t, label) == at' = [at EXCEPT ![t] = label]

(* A null or missing object is used: the program ends. *)
Crash ==
  /\ crashed' = TRUE
  /\ UNCHANGED << poolVars, at, mainVars, client, opType, systemVars, armed, troubled >>
-----------------------------------------------------------------------------
(***************************************************************************)
(* Calls of mOverlappedQueue.push() and pop().                             *)
(***************************************************************************)

AfterCall ==
  [ startPop      |-> "connect",
    processPop    |-> "arm",
    sendPop       |-> "send",
    giveBack      |-> "wait",
    giveBackRearm |-> "rearmPop",
    rearmPop      |-> "rearm" ]

(* One access of the call t is in; with the last one t goes on. *)
CallQueue(t) ==
  /\ at[t] \in PopLabels \cup PushLabels
  /\ pc[t] = "idle" => (at[t] \in PopLabels <=> hand[t] = Null)
  /\ QueueStep(t)
  /\ IF pc'[t] = "idle" THEN Goto(t, AfterCall[at[t]]) ELSE UNCHANGED at
  /\ UNCHANGED << away, mainVars, client, opType, systemVars, crashed, armed, troubled >>

(* push() returned false, which no caller looks at: the context is dropped. *)
ForgetRefused(t) ==
  /\ at[t] \in {"wait", "rearmPop"}
  /\ HandOver(t)
  /\ UNCHANGED << at, mainVars, client, opType, systemVars, crashed, armed, troubled >>
-----------------------------------------------------------------------------
(***************************************************************************)
(* Client                                                                  *)
(***************************************************************************)

Refused(c) == conn[c] # "up" \/ "refuse" \in Faults

(* ReceiveReady of client c, called by t with the context in its hand.  A  *)
(* socket error leaves before the context is touched; a context whose      *)
(* WSARecv is refused is dropped.                                          *)
ReceiveReady(t, c) ==
  \/ /\ conn[c] \in {"refused", "closed", "invalid", "reset"} \/ "refuse" \in Faults
     /\ HandOver(t) \/ (hand[t] = Null /\ UNCHANGED poolVars)
     /\ troubled' = troubled \cup {c}
     /\ UNCHANGED << opType, ops, armed >>
  \/ /\ HandOver(t)
     /\ opType' = [opType EXCEPT ![hand[t]] = "OP_RECV"]
     /\ \/ /\ conn[c] \in {"up", "closed"}
           /\ ops' = ops \cup {[ctx |-> hand[t], client |-> c, op |-> "recv"]}
           /\ armed' = armed \cup {c}
           /\ UNCHANGED troubled
        \/ /\ Refused(c)
           /\ troubled' = troubled \cup {c}
           /\ UNCHANGED << ops, armed >>

(* Send of client c, by the main thread: a context that is not sent is     *)
(* dropped, before or after its operation type is set.                     *)
Send(c) ==
  /\ HandOver(Main)
  /\ opType' = IF conn[c] = "invalid"
               THEN opType ELSE [opType EXCEPT ![hand[Main]] = "OP_SEND"]
  /\ \/ /\ conn[c] \in {"up", "closed"}
        /\ ops' = ops \cup {[ctx |-> hand[Main], client |-> c, op |-> "send"]}
        /\ UNCHANGED troubled
     \/ /\ Refused(c)
        /\ troubled' = troubled \cup {c}
        /\ UNCHANGED ops

(* ConnectEx of client c.  When it fails at once its socket is closed, and *)
(* WSACleanup takes the sockets of the others with it.                     *)
ConnectEx(c) ==
  /\ HandOver(Main)
  /\ opType' = [opType EXCEPT ![hand[Main]] = "OP_ACCEPT"]
  /\ \/ /\ ops' = ops \cup {[ctx |-> hand[Main], client |-> c, op |-> "connect"]}
        /\ UNCHANGED << conn, wsa, troubled >>
     \/ /\ "connectEx" \in Faults
        /\ conn' = [d \in Clients |-> IF d = c THEN "invalid" ELSE
                                      IF conn[d] = "none" THEN "none" ELSE "reset"]
        /\ wsa' = FALSE
        /\ troubled' = troubled \cup {c}
        /\ UNCHANGED ops
-----------------------------------------------------------------------------
(***************************************************************************)
(* Network::Start                                                          *)
(***************************************************************************)

(* WSAStartup or WSAIoctl fails: mConnected stays false, Process returns   *)
(* at once and so does main.                                               *)
StartFails ==
  /\ at[Main] = "create" /\ i = 1
  /\ "startup" \in Faults
  /\ Goto(Main, "ended")
  /\ UNCHANGED << poolVars, mainVars, client, opType, systemVars, crashed, armed, troubled >>

CreateSocket ==
  /\ at[Main] = "create" /\ wsa
  /\ conn' = [conn EXCEPT ![i] = "open"]
  /\ Goto(Main, "startPop")
  /\ UNCHANGED << poolVars, mainVars, client, opType, owed, ops, port, crashed, armed, troubled >>

StartConnects ==
  /\ at[Main] = "connect" /\ hand[Main] # Null
  /\ ConnectEx(i)
  /\ Goto(Main, "associate")
  /\ UNCHANGED << i, mClientVector, toArm, client, owed, port, crashed, armed >>

(* The threads are started once every client has been tried. *)
NextSocket(vector) ==
  /\ mClientVector' = vector
  /\ IF i < ClientCount
     THEN /\ i' = i + 1
          /\ Goto(Main, "create")
          /\ UNCHANGED << toArm, crashed >>
     ELSE /\ i' = 1
          /\ toArm' = MapOf(vector)
          /\ at' = [t \in Threads |-> IF t # Main THEN "wait" ELSE
                                      IF vector = << >> THEN "sendPop" ELSE "processPop"]
          /\ crashed' = (vector = << >>)
  /\ UNCHANGED << poolVars, wsa, client, opType, systemVars, armed >>

(* WSASocket or bind fails: the client is left out. *)
SkipSocket ==
  /\ at[Main] = "create"
  /\ ~wsa \/ "socket" \in Faults
  /\ troubled' = troubled \cup {i}
  /\ NextSocket(mClientVector)

(* Into the map and the vector; its completions go to mIocp from now on. *)
Associate ==
  /\ at[Main] = "associate"
  /\ NextSocket(Append(mClientVector, i))
  /\ UNCHANGED troubled
-----------------------------------------------------------------------------
(***************************************************************************)
(* Network::Process, and the loop of main: a save request to each client,  *)
(* then a ranking request to each, again and again.                        *)
(***************************************************************************)

(* Slip: only the first client is armed. *)
ProcessArmsOne ==
  /\ at[Main] = "arm"
  /\ \E c \in toArm :
       /\ ReceiveReady(Main, c)
       /\ toArm' = {}
       /\ Goto(Main, "sendPop")
  /\ UNCHANGED << i, mClientVector, wsa, client, conn, owed, port, crashed >>

(* The loop over mClientMap, ordered by address: any order of the clients. *)
ProcessArms ==
  /\ at[Main] = "arm"
  /\ \E c \in toArm :
       /\ ReceiveReady(Main, c)
       /\ toArm' = toArm \ {c}
       /\ Goto(Main, IF toArm = {c} THEN "sendPop" ELSE "processPop")
  /\ UNCHANGED << i, mClientVector, wsa, client, conn, owed, port, crashed >>

(* Slip: the index does not start again. *)
NextRequestUnwrapped ==
  /\ i' = i + 1
  /\ Goto(Main, "sendPop")
  /\ crashed' = (i' \notin DOMAIN mClientVector)

(* mClientVector[i] is read before the pop, up to the number of clients    *)
(* that was asked for.                                                     *)
NextRequest ==
  /\ i' = (i % ClientCount) + 1
  /\ Goto(Main, "sendPop")
  /\ crashed' = (i' \notin DOMAIN mClientVector)

SendRequest ==
  /\ at[Main] = "send"
  /\ \/ Send(mClientVector[i])
     \/ hand[Main] = Null /\ UNCHANGED << poolVars, opType, ops, troubled >>
  /\ NextRequest
  /\ UNCHANGED << mClientVector, toArm, wsa, client, conn, owed, port, armed >>
-----------------------------------------------------------------------------
(***************************************************************************)
(* Network::Work                                                           *)
(***************************************************************************)

(* Slip: a finished send is ignored too. *)
IgnoredOrSent(r) == ~r.ok \/ opType[r.ctx] = "OP_SEND"

(* A failed completion is ignored, and so are one whose key is not in the  *)
(* map and a message of an unknown type; their contexts are dropped.  What *)
(* begins like a response is taken for one, whole or not.  A completion    *)
(* without a message is read as one only if a race gave its context to a   *)
(* receive as well; then anything may be in the buffers.                   *)
Ignored(r) ==
  \/ ~r.ok
  \/ Finds(r.client) = {}
  \/ opType[r.ctx] = "OP_RECV" /\ r.msg \in {"unknown", "none"}

Handled(r) ==
  /\ r.ok
  /\ Finds(r.client) # {}
  /\ opType[r.ctx] = "OP_RECV" => r.msg # "unknown"

(* player_id() of what has not arrived is null, or outside the buffers. *)
Misread(r) == Handled(r) /\ opType[r.ctx] = "OP_RECV" /\ r.msg # "response"

IgnoreCompletion(t, r) ==
  /\ at[t] = "wait" /\ hand[t] = Null
  /\ Ignored(r)
  /\ port' = port \ {r}
  /\ UNCHANGED << poolVars, at, mainVars, client, opType, conn, owed, ops, crashed, armed, troubled >>

(* Slip: a message is handled and its client's receive is not posted again. *)
HandleWithoutRearm(t, r) ==
  /\ at[t] = "wait"
  /\ Handled(r)
  /\ port' = port \ {r}
  /\ TakeOver(t, r.ctx)
  /\ opType' = [opType EXCEPT ![r.ctx] = "OP_DEFAULT"]
  /\ Goto(t, "giveBack")
  /\ UNCHANGED << mainVars, client, conn, owed, ops, crashed, armed, troubled >>

(* Slip: every operation that has succeeded is followed by a receive. *)
HandleAnyWithRearm(t, r) ==
  /\ at[t] = "wait"
  /\ Handled(r)
  /\ port' = port \ {r}
  /\ TakeOver(t, r.ctx)
  /\ opType' = [opType EXCEPT ![r.ctx] = "OP_DEFAULT"]
  /\ Goto(t, "giveBackRearm") /\ client' = [client EXCEPT ![t] = r.client]
  /\ UNCHANGED << mainVars, conn, owed, ops, crashed, armed, troubled >>

HandleCompletion(t, r) ==
  /\ at[t] = "wait"
  /\ Handled(r)
  /\ port' = port \ {r}
  /\ TakeOver(t, r.ctx)
  /\ opType' = [opType EXCEPT ![r.ctx] = "OP_DEFAULT"]
  /\ IF opType[r.ctx] = "OP_RECV"
     THEN /\ Goto(t, "giveBackRearm")
          /\ \E c \in Finds(r.client) : client' = [client EXCEPT ![t] = c]
     ELSE Goto(t, "giveBack")      /\ UNCHANGED client
  /\ UNCHANGED << mainVars, conn, owed, ops, crashed, armed, troubled >>

Rearm(t) ==
  /\ at[t] = "rearm"
  /\ ReceiveReady(t, client[t])
  /\ Goto(t, "wait")
  /\ client' = [client EXCEPT ![t] = 0]
  /\ UNCHANGED << mainVars, conn, owed, port, crashed >>

(* *context of a null context, in Start, Process or Work, or the player_id *)
(* of a message that is not a whole response.                              *)
UseNull(t) ==
  /\ hand[t] = Null
  /\ \/ at[t] \in {"connect", "arm", "rearm"}
     \/ at[t] = "wait" /\ \E r \in port : Misread(r)
  /\ Crash
-----------------------------------------------------------------------------
(***************************************************************************)
(* The operating system and the server.  A completion of a socket that is  *)
(* not yet associated with mIocp goes nowhere.                             *)
(***************************************************************************)

Complete(o, ok, msg) ==
  /\ ops' = ops \ {o}
  /\ port' = IF o.client \in Registered
             THEN port \cup {[ctx |-> o.ctx, client |-> o.client, ok |-> ok, msg |-> msg]}
             ELSE port
  /\ UNCHANGED << poolVars, at, mainVars, client, opType, crashed, armed >>

ConnectDone(o) ==
  /\ o.op = "connect" /\ conn[o.client] = "open"
  /\ \E ok \in BOOLEAN :
       /\ ok \/ "connect" \in Faults
       /\ Complete(o, ok, "none")
       /\ conn' = [conn EXCEPT ![o.client] = IF ok THEN "up" ELSE "refused"]
       /\ troubled' = IF ok /\ o.client \in Registered
                      THEN troubled ELSE troubled \cup {o.client}
  /\ UNCHANGED owed

SendDone(o) ==
  /\ o.op = "send"
  /\ conn[o.client] = "up" /\ owed[o.client] < MaxOwed
  /\ owed' = [owed EXCEPT ![o.client] = @ + 1]
  /\ Complete(o, TRUE, "none")
  /\ UNCHANGED << conn, troubled >>

(* The receive takes the ends of n answers, as TCP delivers them.  Whole   *)
(* is what begins where an answer does and has at least that answer in it. *)
ReceiveDone(o) ==
  /\ o.op = "recv"
  /\ owed[o.client] > 0
  /\ \E n \in 0 .. owed[o.client], msg \in {"response", "part", "unknown"} :
       /\ IF msg = "response" THEN n > 0 ELSE "cut" \in Faults
       /\ owed' = [owed EXCEPT ![o.client] = @ - n]
       /\ Complete(o, TRUE, msg)
       /\ troubled' = IF msg = "response" THEN troubled ELSE troubled \cup {o.client}
  /\ UNCHANGED conn

PeerCloses(c) ==
  /\ "close" \in Faults
  /\ conn[c] = "up"
  /\ conn' = [conn EXCEPT ![c] = "closed"]
  /\ troubled' = troubled \cup {c}
  /\ UNCHANGED << poolVars, at, mainVars, client, opType, owed, ops, port, crashed, armed >>

(* An operation is aborted, or a receive gets no bytes. *)
DoneByClose(o) ==
  /\ \/ conn[o.client] \in {"closed", "reset"} /\ Complete(o, FALSE, "none")
     \/ conn[o.client] = "closed" /\ o.op = "recv" /\ Complete(o, TRUE, "unknown")
  /\ UNCHANGED << conn, owed, troubled >>
-----------------------------------------------------------------------------
MainStep ==
  \/ StartFails \/ CreateSocket \/ SkipSocket \/ StartConnects \/ Associate
  \/ ProcessArms \/ SendRequest

WorkerStep(t) ==
  \/ \E r \in port : IgnoreCompletion(t, r) \/ HandleCompletion(t, r)
  \/ Rearm(t)
  \/ ForgetRefused(t)

SystemStep ==
  \/ \E o \in ops : ConnectDone(o) \/ SendDone(o) \/ ReceiveDone(o) \/ DoneByClose(o)
  \/ \E c \in Clients : PeerCloses(c)

NetworkNext ==
  /\ ~crashed
  /\ UNCHANGED key
  /\ \/ \E t \in Threads : CallQueue(t) \/ UseNull(t)
     \/ MainStep
     \/ \E t \in Workers : WorkerStep(t)
     \/ SystemStep

NetworkSpec == NetworkInit /\ [][NetworkNext]_networkVars

(* The callers keep their pushes apart and their pops apart. *)
NetworkSerialSpec == NetworkInit /\ [][NetworkNext /\ ~raced']_networkVars

(* What one race leads to: once two calls of a kind have overlapped, a     *)
(* thread enters the queue only when no other thread is in it.             *)
InCall == {t \in Threads : pc[t] # "idle"}
OneRaceSpec ==
  NetworkInit /\ [][ /\ NetworkNext
                     /\ raced => InCall' \subseteq InCall \/ Cardinality(InCall') = 1
                   ]_networkVars

(* Start and Process, up to the first request. *)
StartupSpec == NetworkInit /\ [][NetworkNext /\ at[Main] # "sendPop"]_networkVars
-----------------------------------------------------------------------------
(* A context that is neither in use by an operation, nor on its way to a   *)
(* worker, nor in the pool is lost for good.                               *)
InOperation == {o.ctx : o \in ops} \cup {r.ctx : r \in port}
Leaked == away \ InOperation

(* Until two calls of the queue of one kind overlap, every context outside *)
(* the pool that no thread holds is in one operation or one completion,    *)
(* and none is lost as long as no call of the system fails or is refused,  *)
(* no connection completes before line 89 of Network.cpp or is closed, and *)
(* every receive gets a whole response (lines 126, 131-136, 204-209).      *)
LeaksOnlyOnTrouble ==
  ~raced =>
    /\ InOperation \subseteq away
    /\ \A o1, o2 \in ops : o1.ctx = o2.ctx => o1 = o2
    /\ \A r1, r2 \in port : r1.ctx = r2.ctx => r1 = r2
    /\ {o.ctx : o \in ops} \cap {r.ctx : r \in port} = {}
    /\ troubled = {} => Leaked = {}

(* The receives of c: posted, completed, or about to be posted again. *)
Receives(c) ==
  Cardinality({o \in ops : o.op = "recv" /\ o.client = c})
  + Cardinality({r \in port : opType[r.ctx] = "OP_RECV" /\ r.client = c})
  + Cardinality({t \in Workers : client[t] = c})

(* Until two calls of the queue of one kind overlap, a client has one      *)
(* receive at most, as it has one pair of receive buffers, and once        *)
(* Process has armed it never stops receiving, as long as no call fails or *)
(* is refused for it, its connection lasts, and every receive gets a whole *)
(* response: one message of an unknown type, and it is deaf (Network.cpp   *)
(* 109, 178, 201, 204-209).                                                *)
OneReceiveForEver ==
  ~raced =>
    \A c \in Clients :
      /\ Receives(c) <= 1
      /\ c \in armed \ troubled => Receives(c) = 1

(* A client that Start has made is deaf from the beginning only if a call  *)
(* failed for it, if it was not connected yet when Process came to it, or  *)
(* if another one had its key in mClientMap, which is the client's address *)
(* cut to an int (Network.h 33, Network.cpp 87, 106-110).                  *)
DeafOnlyOnTrouble ==
  at[Main] = "sendPop" =>
    \A c \in Registered \ (armed \cup troubled) :
      \E d \in armed \cup troubled : d # c /\ key[d] = key[c]

(* Nothing arms a client that Process has missed: neither its connect when *)
(* it completes at last nor the sends that follow it (Network.cpp 106-110, *)
(* 141-146, 212-217).                                                      *)
DeafForGood ==
  [][at[Main] \in {"sendPop", "send"} /\ ~raced' => armed' = armed]_networkVars

(* With two workers or more, the pool outlasts Start and Process: the      *)
(* pointer they dereference is never null, whatever the workers interleave *)
(* (Network.cpp 20, 85-86, 108-109).                                       *)
StartupFindsContexts ==
  Cardinality(Workers) >= 2 =>
    (at[Main] \in {"connect", "arm"} => hand[Main] # Null)

(* A worker finds the pool empty only when more than (threads - 1)*clients *)
(* contexts are in sends or connects, held by other threads, or lost: the  *)
(* receives alone never drain it (Network.cpp 177, 200).                   *)
WorkerStarvesOnlyIfDrained ==
  [][\A t \in Workers :
       ~raced /\ pc[t] = "popLoaded" /\ pc'[t] = "idle" =>
         Cardinality(Contexts \ (Queued \cup {o.ctx : o \in {p \in ops : p.op = "recv"}}))
           > (Cardinality(Workers) - 1) * ClientCount]_networkVars

KeysApart == \A c, d \in Clients : key[c] = key[d] => c = d

(* With one worker, no failure and no two clients with one key the         *)
(* receives hold every context of the pool: no request is ever sent        *)
(* (Network.cpp 20, main.cpp 48-50, 70-72).                                *)
OneWorkerNeverSends ==
  Cardinality(Workers) = 1 /\ troubled = {} /\ KeysApart =>
    \A o \in ops : o.op # "send"

(* Client::ConnectEx closes and cleans up its own socket (the comment of   *)
(* line 53): main still finds each client in mClientVector (main.cpp 44,   *)
(* 67).                                                                    *)
MainFindsItsClients ==
  at[Main] \in {"sendPop", "send"} => i \in DOMAIN mClientVector

(* The contexts that nobody uses: in no slot of the queue, with no thread, *)
(* in no operation and in no completion.                                   *)
Unused == Contexts \ (Queued \cup Held \cup InOperation)


=============================================================================
