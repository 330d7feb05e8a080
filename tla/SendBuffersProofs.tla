-------------------------- MODULE SendBuffersProofs --------------------------
(***************************************************************************)
(* Proofs about SendBuffers: the counts of contexts, what a message may    *)
(* carry, what overruns a buffer, and what the server reads from the bytes *)
(* that FlatBufferBuilder writes, for any number of contexts, any length   *)
(* of the id and up to nine clients, whose numbers have one digit.         *)
(***************************************************************************)
EXTENDS SendBuffers, Lemmas

(* A part of a message that may be sent for request r: cleared, the        *)
(* request itself, or a later one to the same client.                      *)
NotOlder(part, r) == part = Zero \/ (part.client = r.client /\ part.n >= r.n)

(* How many sends are in progress for each client.                         *)
Lengths == [c \in Clients |-> Len(sending[c])]

(* Main has a context in its hands, from the pop to the send.              *)
InHand == at \in {"clearHeader", "clearBody", "fillHeader", "fillBody", "send"}

(* The types, the pool without its bound.                                  *)
BuffersTypeOK ==
  /\ idLength \in IdLengths
  /\ at \in {"pop", "clearHeader", "clearBody", "fillHeader", "fillBody", "send", "ended"}
  /\ request \in Requests
  /\ pool \in Nat
  /\ header \in [Clients -> Content] /\ body \in [Clients -> Content]
  /\ sending \in [Clients -> Seq(Sends)]
  /\ delivered \in [Clients -> Sent \cup {Nothing}]
  /\ overrun \in BOOLEAN

(* Every context is in the pool, in main's hands or in a send; the one of  *)
(* an overrun is lost.                                                     *)
ContextsCounted ==
  /\ IsFiniteSet(PairsOf(Clients, Lengths))
  /\ pool + Cardinality(PairsOf(Clients, Lengths)) + (IF InHand THEN 1 ELSE 0) <= Free

(* What a send in progress finds in the buffers of its client, or has read *)
(* from them, is not older than its request.                               *)
SendsFindNothingOld ==
  \A c \in Clients : \A k \in 1 .. Len(sending[c]) :
    /\ sending[c][k].req.client = c /\ sending[c][k].req.n <= request.n
    /\ NotOlder(header[c], sending[c][k].req) /\ NotOlder(body[c], sending[c][k].req)
    /\ sending[c][k].header # Unread => NotOlder(sending[c][k].header, sending[c][k].req)

(* When main sends, both buffers hold its request.                         *)
FilledBeforeSent ==
  /\ at \in {"fillBody", "send"} => header[request.client] = request
  /\ at = "send" => body[request.client] = request

BuffersInv ==
  BuffersTypeOK /\ ContextsCounted /\ SendsFindNothingOld /\ FilledBeforeSent /\ NothingOldIsSent

-----------------------------------------------------------------------------

(* Main goes from a request to a later one, to the same client or to       *)
(* another, or ends.                                                       *)
LEMMA NextRequestIsLater ==
  ASSUME request \in Requests, NextRequest
  PROVE  /\ at' \in {"pop", "ended"} /\ request' \in Requests
         /\ request'.n >= request.n
<1>1. /\ ClientCount \in Nat /\ ClientCount >= 1 /\ MaxRounds \in Nat
      /\ request.client \in 1 .. ClientCount /\ request.n \in 1 .. 2 * MaxRounds
  BY SendAssumption DEF Requests, Clients
<1> DEFINE n == IF request.client < ClientCount THEN request.n ELSE request.n + 1
<1>2. n \in Nat /\ n >= request.n /\ n >= 1
  BY <1>1
<1>3. CASE n > 2 * MaxRounds
  <2>1. at' = "ended" /\ request' = request
    BY <1>3 DEF NextRequest
  <2> QED
    BY <1>1, <2>1
<1>4. CASE ~(n > 2 * MaxRounds)
  <2>1. at' = "pop" /\ request' = [client |-> (request.client % ClientCount) + 1, n |-> n]
    BY <1>4 DEF NextRequest
  <2>2. (request.client % ClientCount) + 1 \in 1 .. ClientCount
    BY <1>1
  <2>3. n \in 1 .. 2 * MaxRounds
    BY <1>1, <1>2, <1>4
  <2> HIDE DEF n
  <2>4. request' \in Requests /\ request'.n = n
    BY <2>1, <2>2, <2>3 DEF Requests, Clients
  <2> QED
    BY <1>2, <2>1, <2>4
<1> QED
  BY <1>3, <1>4

(* A comparison is true or false.                                          *)
LEMMA GreaterIsBoolean ==
  ASSUME NEW a, NEW b
  PROVE  (a > b) \in BOOLEAN
OBVIOUS

(* A send that is started goes behind the others of its client, and has    *)
(* read nothing yet.                                                       *)
LEMMA SendStarts ==
  ASSUME BuffersTypeOK, StartSend
  PROVE  /\ sending' \in [Clients -> Seq(Sends)]
         /\ \A c \in Clients \ {request.client} : sending'[c] = sending[c]
         /\ \A c \in Clients : Len(sending[c]) \in Nat
         /\ Len(sending'[request.client]) = Len(sending[request.client]) + 1
         /\ \A k \in 1 .. Len(sending[request.client]) :
              sending'[request.client][k] = sending[request.client][k]
         /\ sending'[request.client][Len(sending[request.client]) + 1] =
              [req |-> request, header |-> Unread, reused |-> FALSE]
<1>1. request.client \in Clients /\ request \in Requests
  BY DEF BuffersTypeOK, Requests
<1>2. [req |-> request, header |-> Unread, reused |-> FALSE] \in Sends
  BY <1>1 DEF Sends
<1>3. sending \in [Clients -> Seq(Sends)]
  BY DEF BuffersTypeOK
<1> DEFINE old == sending[request.client]
           s   == [req |-> request, header |-> Unread, reused |-> FALSE]
           new == Append(old, s)
<1>4. sending' = [sending EXCEPT ![request.client] = new]
  BY DEF StartSend
<1>5. old \in Seq(Sends) /\ s \in Sends
  BY <1>1, <1>2, <1>3
<1> HIDE DEF old, s
<1>6. /\ new \in Seq(Sends) /\ Len(old) \in Nat /\ Len(new) = Len(old) + 1
      /\ \A k \in 1 .. Len(old) : new[k] = old[k]
      /\ new[Len(old) + 1] = s
  BY <1>5
<1> HIDE DEF new
<1>7. /\ sending' \in [Clients -> Seq(Sends)]
      /\ sending'[request.client] = new
      /\ \A c \in Clients \ {request.client} : sending'[c] = sending[c]
  BY <1>1, <1>3, <1>4, <1>6
<1>8. \A c \in Clients : Len(sending[c]) \in Nat
  BY <1>3
<1> QED
  BY <1>6, <1>7, <1>8 DEF old, s

(* Clearing a buffer only marks the sends of the client.                   *)
LEMMA SendsAreMarked ==
  ASSUME BuffersTypeOK, ClearHeader
  PROVE  /\ sending' \in [Clients -> Seq(Sends)]
         /\ \A c \in Clients : Len(sending'[c]) = Len(sending[c])
         /\ \A c \in Clients : \A k \in 1 .. Len(sending[c]) :
              /\ sending'[c][k].req = sending[c][k].req
              /\ sending'[c][k].header = sending[c][k].header
<1>1. request.client \in Clients /\ sending \in [Clients -> Seq(Sends)]
  BY DEF BuffersTypeOK, Requests
<1> DEFINE c0 == request.client
           old == sending[c0]
           new == [k \in DOMAIN old |-> [old[k] EXCEPT !.reused = TRUE]]
<1>2. sending' = [sending EXCEPT ![c0] = new]
  BY DEF ClearHeader
<1>3. old \in Seq(Sends) /\ DOMAIN old = 1 .. Len(old) /\ Len(old) \in Nat
  BY <1>1
<1>4. ASSUME NEW k \in 1 .. Len(old)
      PROVE  /\ [old[k] EXCEPT !.reused = TRUE] \in Sends
             /\ [old[k] EXCEPT !.reused = TRUE].req = old[k].req
             /\ [old[k] EXCEPT !.reused = TRUE].header = old[k].header
  <2>1. old[k] \in Sends
    BY <1>3, ElementOfSeq
  <2> QED
    BY <2>1 DEF Sends
<1>5. new \in [1 .. Len(old) -> Sends]
  BY <1>3, <1>4
<1>6. new \in Seq(Sends) /\ Len(new) = Len(old)
  BY <1>3, <1>5
<1>7. \A k \in 1 .. Len(old) : new[k].req = old[k].req /\ new[k].header = old[k].header
  BY <1>3, <1>4
<1> HIDE DEF new
<1>8. sending'[c0] = new /\ \A c \in Clients \ {c0} : sending'[c] = sending[c]
  BY <1>1, <1>2
<1>9. sending' \in [Clients -> Seq(Sends)]
  BY <1>1, <1>2, <1>6
<1> QED
  BY <1>6, <1>7, <1>8, <1>9

(* Reading the header gives the oldest send the contents of the buffer.    *)
LEMMA HeaderIsRead ==
  ASSUME BuffersTypeOK, NEW c \in Clients, ReadHeader(c)
  PROVE  /\ sending' \in [Clients -> Seq(Sends)]
         /\ \A d \in Clients : Len(sending'[d]) = Len(sending[d])
         /\ \A d \in Clients \ {c} : sending'[d] = sending[d]
         /\ \A k \in 1 .. Len(sending[c]) :
              /\ sending'[c][k].req = sending[c][k].req
              /\ sending'[c][k].reused = sending[c][k].reused
         /\ \A k \in 2 .. Len(sending[c]) : sending'[c][k] = sending[c][k]
         /\ sending'[c][1].header = header[c]
<1> DEFINE old == sending[c]
           new == [old EXCEPT ![1].header = header[c]]
<1>1. sending \in [Clients -> Seq(Sends)] /\ header[c] \in Content
  BY DEF BuffersTypeOK
<1>2. sending' = [sending EXCEPT ![c] = new] /\ old # << >>
  BY DEF ReadHeader
<1>3. old \in Seq(Sends) /\ Len(old) \in Nat /\ Len(old) >= 1 /\ DOMAIN old = 1 .. Len(old)
  BY <1>1, <1>2, EmptySeq
<1>4. old[1] \in Sends
  BY <1>3, ElementOfSeq
<1>5. /\ [old[1] EXCEPT !.header = header[c]] \in Sends
      /\ [old[1] EXCEPT !.header = header[c]].req = old[1].req
      /\ [old[1] EXCEPT !.header = header[c]].reused = old[1].reused
      /\ [old[1] EXCEPT !.header = header[c]].header = header[c]
  BY <1>1, <1>4 DEF Sends
<1>6. /\ new \in [1 .. Len(old) -> Sends] /\ new[1] = [old[1] EXCEPT !.header = header[c]]
      /\ \A k \in 2 .. Len(old) : new[k] = old[k]
  <2>1. new = [old EXCEPT ![1] = [old[1] EXCEPT !.header = header[c]]]
    BY <1>3
  <2>2. old \in [1 .. Len(old) -> Sends]
    BY <1>3
  <2> QED
    BY <1>3, <1>5, <2>1, <2>2
<1>7. new \in Seq(Sends) /\ Len(new) = Len(old)
  BY <1>3, <1>6
<1> HIDE DEF new
<1>8. sending'[c] = new /\ \A d \in Clients \ {c} : sending'[d] = sending[d]
  BY <1>1, <1>2
<1>9. sending' \in [Clients -> Seq(Sends)]
  BY <1>1, <1>2, <1>7
<1>10. ASSUME NEW k \in 1 .. Len(old)
       PROVE  new[k].req = old[k].req /\ new[k].reused = old[k].reused
  <2>1. CASE k = 1
    <3>1. new[1].req = old[1].req /\ new[1].reused = old[1].reused
      BY <1>5, <1>6
    <3> QED
      BY <2>1, <3>1
  <2>2. CASE k \in 2 .. Len(old)
    BY <1>6, <2>2
  <2> QED
    BY <1>3, <2>1, <2>2
<1> QED
  BY <1>5, <1>6, <1>7, <1>8, <1>9, <1>10

(* Reading the body ends the oldest send, and the others move up.          *)
LEMMA SendEnds ==
  ASSUME BuffersTypeOK, NEW c \in Clients, ReadBody(c)
  PROVE  /\ sending' \in [Clients -> Seq(Sends)]
         /\ \A d \in Clients \ {c} : sending'[d] = sending[d]
         /\ \A d \in Clients : Len(sending[d]) \in Nat
         /\ Len(sending[c]) = Len(sending'[c]) + 1
         /\ Head(sending[c]) = sending[c][1] /\ sending[c][1] \in Sends
         /\ sending[c][1].header # Unread
         /\ \A k \in 1 .. Len(sending'[c]) : sending'[c][k] = sending[c][k + 1]
<1>1. sending \in [Clients -> Seq(Sends)]
  BY DEF BuffersTypeOK
<1>2. /\ sending' = [sending EXCEPT ![c] = Tail(sending[c])] /\ sending[c] # << >>
      /\ Head(sending[c]).header # Unread
  BY DEF ReadBody
<1>3. sending[c] \in Seq(Sends) /\ Len(sending[c]) \in Nat /\ Len(sending[c]) >= 1
  BY <1>1, <1>2, EmptySeq
<1>4. /\ Tail(sending[c]) \in Seq(Sends) /\ Len(Tail(sending[c])) = Len(sending[c]) - 1
      /\ Head(sending[c]) = sending[c][1]
      /\ \A k \in 1 .. Len(Tail(sending[c])) : Tail(sending[c])[k] = sending[c][k + 1]
  BY <1>2, <1>3, HeadTailProperties
<1>5. sending[c][1] \in Sends
  BY <1>3, ElementOfSeq
<1>6. sending' \in [Clients -> Seq(Sends)]
  BY <1>1, <1>2, <1>4
<1>7. sending'[c] = Tail(sending[c]) /\ \A d \in Clients \ {c} : sending'[d] = sending[d]
  BY <1>1, <1>2
<1>8. \A d \in Clients : Len(sending[d]) \in Nat
  BY <1>1
<1> QED
  BY <1>2, <1>3, <1>4, <1>5, <1>6, <1>7, <1>8

(* The types, step by step.                                                *)
LEMMA BuffersTypeStep ==
  ASSUME BuffersTypeOK, Next
  PROVE  BuffersTypeOK'
<1>0. /\ request.client \in Clients /\ request \in Content /\ Zero \in Content
      /\ request \in Requests
  BY DEF BuffersTypeOK, Requests, Content
<1>1. CASE MainPop
  <2>1. at' \in {"pop", "ended", "clearHeader"} /\ request' \in Requests /\ pool' \in Nat
    <3>1. CASE pool = 0
      BY <1>0, <1>1, <3>1, NextRequestIsLater DEF MainPop, BuffersTypeOK
    <3>2. CASE pool # 0
      BY <1>0, <1>1, <3>2 DEF MainPop, BuffersTypeOK
    <3> QED
      BY <3>1, <3>2
  <2> QED
    BY <1>1, <2>1 DEF MainPop, BuffersTypeOK
<1>2. CASE ClearHeader
  <2>1. sending' \in [Clients -> Seq(Sends)]
    BY <1>2, SendsAreMarked
  <2> QED
    BY <1>0, <1>2, <2>1 DEF ClearHeader, BuffersTypeOK
<1>3. CASE ClearBody
  BY <1>0, <1>3 DEF ClearBody, BuffersTypeOK
<1>4. CASE FillHeader
  BY <1>0, <1>4 DEF FillHeader, BuffersTypeOK
<1>5. CASE FillBody
  <2>1. overrun' \in BOOLEAN
    BY <1>5, GreaterIsBoolean DEF FillBody
  <2>2. at' \in {"ended", "send"}
    BY <1>5 DEF FillBody
  <2> QED
    BY <1>0, <1>5, <2>1, <2>2 DEF FillBody, BuffersTypeOK
<1>6. CASE MainSend
  <2>1. sending' \in [Clients -> Seq(Sends)]
    BY <1>6, SendStarts DEF MainSend
  <2>2. at' \in {"pop", "ended"} /\ request' \in Requests
    BY <1>0, <1>6, NextRequestIsLater DEF MainSend
  <2> QED
    BY <1>6, <2>1, <2>2 DEF MainSend, BuffersTypeOK
<1>7. ASSUME NEW c \in Clients, ReadHeader(c)
      PROVE  BuffersTypeOK'
  <2>1. sending' \in [Clients -> Seq(Sends)]
    BY <1>7, HeaderIsRead
  <2> QED
    BY <1>7, <2>1 DEF ReadHeader, BuffersTypeOK
<1>8. ASSUME NEW c \in Clients, ReadBody(c)
      PROVE  BuffersTypeOK'
  <2> DEFINE s == sending[c][1]
             m == [req |-> s.req, header |-> s.header, body |-> body[c], reused |-> s.reused]
  <2>1. sending' \in [Clients -> Seq(Sends)] /\ Head(sending[c]) = s
        /\ s \in Sends /\ s.header # Unread
    BY <1>8, SendEnds
  <2>2. s.req \in Requests /\ s.header \in Content /\ body[c] \in Content /\ s.reused \in BOOLEAN
    BY <2>1 DEF Sends, BuffersTypeOK
  <2>3. m \in Sent
    BY <2>2 DEF Sent
  <2>4. delivered' = [delivered EXCEPT ![c] = m]
    BY <1>8, <2>1 DEF ReadBody
  <2> HIDE DEF m
  <2>5. delivered' \in [Clients -> Sent \cup {Nothing}]
    BY <2>3, <2>4 DEF BuffersTypeOK
  <2> QED
    BY <1>8, <2>1, <2>5 DEF ReadBody, BuffersTypeOK
<1> QED
  BY <1>1, <1>2, <1>3, <1>4, <1>5, <1>6, <1>7, <1>8 DEF Next, MainStep

(* The sends of every client stay as many as they were, or those of one    *)
(* grow or shrink by one.                                                  *)
LEMMA SendCount ==
  ASSUME BuffersTypeOK, BuffersTypeOK', IsFiniteSet(PairsOf(Clients, Lengths)), NEW c \in Clients,
         \A d \in Clients \ {c} : Len(sending'[d]) = Len(sending[d])
  PROVE  /\ Cardinality(PairsOf(Clients, Lengths)) \in Nat
         /\ Len(sending'[c]) = Len(sending[c]) =>
              PairsOf(Clients, Lengths') = PairsOf(Clients, Lengths)
         /\ Len(sending'[c]) = Len(sending[c]) + 1 =>
              /\ IsFiniteSet(PairsOf(Clients, Lengths'))
              /\ Cardinality(PairsOf(Clients, Lengths')) = Cardinality(PairsOf(Clients, Lengths)) + 1
         /\ Len(sending[c]) = Len(sending'[c]) + 1 =>
              /\ IsFiniteSet(PairsOf(Clients, Lengths'))
              /\ Cardinality(PairsOf(Clients, Lengths')) = Cardinality(PairsOf(Clients, Lengths)) - 1
<1>1. sending \in [Clients -> Seq(Sends)] /\ sending' \in [Clients -> Seq(Sends)]
  BY DEF BuffersTypeOK
<1>2. /\ Lengths \in [Clients -> Nat] /\ Lengths' \in [Clients -> Nat]
      /\ \A d \in Clients : Lengths[d] = Len(sending[d]) /\ Lengths'[d] = Len(sending'[d])
  BY <1>1 DEF Lengths
<1>3. \A d \in Clients \ {c} : Lengths'[d] = Lengths[d]
  BY <1>2
<1>4. ASSUME Len(sending'[c]) = Len(sending[c])
      PROVE  Lengths' = Lengths
  BY <1>2, <1>3, <1>4
<1>5. ASSUME Len(sending'[c]) = Len(sending[c]) + 1
      PROVE  /\ IsFiniteSet(PairsOf(Clients, Lengths'))
             /\ Cardinality(PairsOf(Clients, Lengths')) = Cardinality(PairsOf(Clients, Lengths)) + 1
  <2>1. Lengths'[c] = Lengths[c] + 1
    BY <1>2, <1>5
  <2> QED
    BY <1>2, <1>3, <2>1, PairsAdd
<1>6. ASSUME Len(sending[c]) = Len(sending'[c]) + 1
      PROVE  /\ IsFiniteSet(PairsOf(Clients, Lengths'))
             /\ Cardinality(PairsOf(Clients, Lengths')) = Cardinality(PairsOf(Clients, Lengths)) - 1
  <2>1. Lengths[c] = Lengths'[c] + 1
    BY <1>2, <1>6
  <2> QED
    BY <1>2, <1>3, <2>1, PairsTake
<1> QED
  BY <1>4, <1>5, <1>6, FS_CardinalityType

(* Main takes the contexts of its sends from the pool, and the workers     *)
(* give each back once.                                                    *)
LEMMA ContextsCountedStep ==
  ASSUME BuffersTypeOK, ContextsCounted, Next
  PROVE  ContextsCounted'
<1> DEFINE count == Cardinality(PairsOf(Clients, Lengths))
<1>0. /\ BuffersTypeOK' /\ request.client \in Clients /\ IsFiniteSet(PairsOf(Clients, Lengths))
      /\ PairsOf(Clients, Lengths)' = PairsOf(Clients, Lengths')
      /\ count \in Nat /\ pool \in Nat /\ pool' \in Nat /\ Free \in Nat
  BY BuffersTypeStep, FS_CardinalityType, SendAssumption DEF BuffersTypeOK, ContextsCounted, Requests, PairsOf
<1>1. ASSUME \A c \in Clients : Len(sending'[c]) = Len(sending[c])
      PROVE  PairsOf(Clients, Lengths)' = PairsOf(Clients, Lengths)
  BY <1>0, <1>1, SendCount
<1>2. CASE MainPop
  <2>1. PairsOf(Clients, Lengths)' = PairsOf(Clients, Lengths)
    BY <1>1, <1>2 DEF MainPop
  <2>2. CASE pool = 0
    <3>1. pool' = pool /\ ~InHand'
      BY <1>2, <2>2, NextRequestIsLater DEF MainPop, BuffersTypeOK, InHand
    <3> QED
      BY <1>0, <2>1, <3>1 DEF ContextsCounted
  <2>3. CASE pool # 0
    <3>1. pool' = pool - 1 /\ ~InHand
      BY <1>2, <2>3 DEF MainPop, InHand
    <3> QED
      BY <1>0, <2>1, <3>1 DEF ContextsCounted
  <2> QED
    BY <2>2, <2>3
<1>3. CASE ClearHeader
  <2>1. PairsOf(Clients, Lengths)' = PairsOf(Clients, Lengths)
    BY <1>1, <1>3, SendsAreMarked
  <2>2. pool' = pool /\ InHand
    BY <1>3 DEF ClearHeader, InHand
  <2> QED
    BY <1>0, <2>1, <2>2 DEF ContextsCounted
<1>4. CASE ClearBody \/ FillHeader \/ FillBody
  <2>1. PairsOf(Clients, Lengths)' = PairsOf(Clients, Lengths)
    BY <1>1, <1>4 DEF ClearBody, FillHeader, FillBody
  <2>2. pool' = pool /\ InHand
    BY <1>4 DEF ClearBody, FillHeader, FillBody, InHand
  <2> QED
    BY <1>0, <2>1, <2>2 DEF ContextsCounted
<1>5. CASE MainSend
  <2>1. /\ IsFiniteSet(PairsOf(Clients, Lengths'))
        /\ Cardinality(PairsOf(Clients, Lengths')) = count + 1
    BY <1>0, <1>5, SendStarts, SendCount DEF MainSend
  <2>2. pool' = pool /\ InHand /\ ~InHand'
    BY <1>5, NextRequestIsLater DEF MainSend, BuffersTypeOK, InHand
  <2> QED
    BY <1>0, <2>1, <2>2 DEF ContextsCounted
<1>6. ASSUME NEW c \in Clients, ReadHeader(c)
      PROVE  ContextsCounted'
  <2>1. PairsOf(Clients, Lengths)' = PairsOf(Clients, Lengths)
    BY <1>1, <1>6, HeaderIsRead
  <2>2. pool' = pool /\ InHand' = InHand
    BY <1>6 DEF ReadHeader, InHand
  <2> QED
    BY <1>0, <2>1, <2>2 DEF ContextsCounted
<1>7. ASSUME NEW c \in Clients, ReadBody(c)
      PROVE  ContextsCounted'
  <2>1. /\ IsFiniteSet(PairsOf(Clients, Lengths'))
        /\ Cardinality(PairsOf(Clients, Lengths')) = count - 1
    BY <1>0, <1>7, SendEnds, SendCount
  <2>2. pool' = pool + 1 /\ InHand' = InHand
    BY <1>7 DEF ReadBody, InHand
  <2> QED
    BY <1>0, <2>1, <2>2 DEF ContextsCounted
<1> QED
  BY <1>2, <1>3, <1>4, <1>5, <1>6, <1>7 DEF Next, MainStep

(* What is not older than a request is not older than an earlier one.      *)
LEMMA RequestIsNotOlder ==
  ASSUME NEW r \in Requests, NEW s \in Requests, s.client = r.client, s.n <= r.n
  PROVE  NotOlder(r, s) /\ NotOlder(Zero, s)
BY DEF NotOlder

(* The sends of a client find nothing old, step by step: main writes zeros *)
(* or the request it has come to, and never comes back to an earlier one.  *)
LEMMA SendsFindNothingOldStep ==
  ASSUME BuffersTypeOK, SendsFindNothingOld, FilledBeforeSent, Next
  PROVE  SendsFindNothingOld'
<1>0. /\ BuffersTypeOK' /\ request \in Requests /\ request.client \in Clients
      /\ request.n \in Int /\ request'.n \in Int
  BY BuffersTypeStep DEF BuffersTypeOK, Requests
<1>1. \A c \in Clients : \A k \in 1 .. Len(sending[c]) :
        /\ sending[c][k] \in Sends /\ sending[c][k].req \in Requests
        /\ sending[c][k].req.n \in Int
  <2>1. ASSUME NEW c \in Clients, NEW k \in 1 .. Len(sending[c])
        PROVE  sending[c][k] \in Sends
    <3>1. sending[c] \in Seq(Sends)
      BY DEF BuffersTypeOK
    <3> QED
      BY <3>1, ElementOfSeq
  <2>2. \A s \in Sends : s.req \in Requests /\ s.req.n \in Int
    BY DEF Sends, Requests
  <2> QED
    BY <2>1, <2>2
<1>2. CASE MainPop
  <2>1. UNCHANGED << header, body, sending >> /\ request'.n >= request.n
    BY <1>0, <1>2, NextRequestIsLater DEF MainPop
  <2> QED
    BY <1>0, <1>1, <2>1 DEF SendsFindNothingOld
<1>3. CASE ClearHeader
  <2>1. /\ UNCHANGED << body, request >> /\ header' = [header EXCEPT ![request.client] = Zero]
        /\ header \in [Clients -> Content]
    BY <1>3 DEF ClearHeader, BuffersTypeOK
  <2>2. \A c \in Clients : header'[c] \in {Zero, header[c]}
    BY <1>0, <2>1
  <2> QED
    BY <1>3, <2>1, <2>2, SendsAreMarked DEF SendsFindNothingOld, NotOlder
<1>4. CASE ClearBody
  <2>1. /\ UNCHANGED << header, request, sending >> /\ body' = [body EXCEPT ![request.client] = Zero]
        /\ body \in [Clients -> Content]
    BY <1>4 DEF ClearBody, BuffersTypeOK
  <2>2. \A c \in Clients : body'[c] \in {Zero, body[c]}
    BY <1>0, <2>1
  <2> QED
    BY <2>1, <2>2 DEF SendsFindNothingOld, NotOlder
<1>5. CASE FillHeader
  <2>1. /\ UNCHANGED << body, request, sending >>
        /\ header' = [header EXCEPT ![request.client] = request] /\ header \in [Clients -> Content]
    BY <1>5 DEF FillHeader, BuffersTypeOK
  <2>2. \A c \in Clients : header'[c] = header[c] \/ (c = request.client /\ header'[c] = request)
    BY <1>0, <2>1
  <2> QED
    BY <1>0, <1>1, <2>1, <2>2, RequestIsNotOlder DEF SendsFindNothingOld
<1>6. CASE FillBody
  <2>1. /\ UNCHANGED << header, request, sending >>
        /\ body' = [body EXCEPT ![request.client] = request] /\ body \in [Clients -> Content]
    BY <1>6 DEF FillBody, BuffersTypeOK
  <2>2. \A c \in Clients : body'[c] = body[c] \/ (c = request.client /\ body'[c] = request)
    BY <1>0, <2>1
  <2> QED
    BY <1>0, <1>1, <2>1, <2>2, RequestIsNotOlder DEF SendsFindNothingOld
<1>7. CASE MainSend
  <2>1. /\ UNCHANGED << header, body >> /\ request'.n >= request.n
        /\ header[request.client] = request /\ body[request.client] = request
    BY <1>0, <1>7, NextRequestIsLater DEF MainSend, FilledBeforeSent
  <2> SUFFICES ASSUME NEW c \in Clients, NEW k \in 1 .. Len(sending'[c])
               PROVE  /\ sending'[c][k].req.client = c /\ sending'[c][k].req.n <= request'.n
                      /\ NotOlder(header[c], sending'[c][k].req)
                      /\ NotOlder(body[c], sending'[c][k].req)
                      /\ sending'[c][k].header # Unread =>
                           NotOlder(sending'[c][k].header, sending'[c][k].req)
    BY <2>1 DEF SendsFindNothingOld, NotOlder
  <2>2. CASE k \in 1 .. Len(sending[c])
    <3>1. sending'[c][k] = sending[c][k]
      BY <1>7, <2>2, SendStarts DEF MainSend
    <3> QED
      BY <1>0, <1>1, <2>1, <2>2, <3>1 DEF SendsFindNothingOld
  <2>3. CASE k \notin 1 .. Len(sending[c])
    <3>1. c = request.client /\ k = Len(sending[c]) + 1
      BY <1>0, <1>7, <2>3, SendStarts DEF MainSend
    <3>2. sending'[c][k] = [req |-> request, header |-> Unread, reused |-> FALSE]
      BY <1>7, <3>1, SendStarts DEF MainSend
    <3>3. sending'[c][k].req = request /\ sending'[c][k].header = Unread
      BY <3>2
    <3> QED
      BY <1>0, <2>1, <3>1, <3>3, RequestIsNotOlder
  <2> QED
    BY <2>2, <2>3
<1>8. ASSUME NEW c \in Clients, ReadHeader(c)
      PROVE  SendsFindNothingOld'
  <2>1. UNCHANGED << header, body, request >>
    BY <1>8 DEF ReadHeader
  <2> SUFFICES ASSUME NEW d \in Clients, NEW k \in 1 .. Len(sending'[d])
               PROVE  /\ sending'[d][k].req.client = d /\ sending'[d][k].req.n <= request.n
                      /\ NotOlder(header[d], sending'[d][k].req)
                      /\ NotOlder(body[d], sending'[d][k].req)
                      /\ sending'[d][k].header # Unread =>
                           NotOlder(sending'[d][k].header, sending'[d][k].req)
    BY <2>1 DEF SendsFindNothingOld, NotOlder
  <2>2. /\ k \in 1 .. Len(sending[d]) /\ sending'[d][k].req = sending[d][k].req
        /\ sending'[d][k].header = sending[d][k].header \/ sending'[d][k].header = header[d]
    <3>1. k \in 1 .. Len(sending[d])
      BY <1>8, HeaderIsRead
    <3>2. CASE d # c
      BY <1>8, <3>1, <3>2, HeaderIsRead
    <3>3. CASE d = c /\ k = 1
      BY <1>8, <3>1, <3>3, HeaderIsRead
    <3>4. CASE d = c /\ k # 1
      <4>1. Len(sending[c]) \in Nat
        BY DEF BuffersTypeOK
      <4>2. k \in 2 .. Len(sending[c])
        BY <3>1, <3>4, <4>1
      <4> QED
        BY <1>8, <3>1, <3>4, <4>2, HeaderIsRead
    <3> QED
      BY <3>2, <3>3, <3>4
  <2> QED
    BY <2>2 DEF SendsFindNothingOld
<1>9. ASSUME NEW c \in Clients, ReadBody(c)
      PROVE  SendsFindNothingOld'
  <2>1. UNCHANGED << header, body, request >>
    BY <1>9 DEF ReadBody
  <2>2. ASSUME NEW d \in Clients, NEW k \in 1 .. Len(sending'[d])
        PROVE  \E l \in 1 .. Len(sending[d]) : sending'[d][k] = sending[d][l]
    <3>1. CASE d # c
      BY <1>9, <3>1, SendEnds
    <3>2. CASE d = c
      <4>1. k + 1 \in 1 .. Len(sending[d])
        BY <1>9, <2>2, <3>2, <1>0, SendEnds
      <4> QED
        BY <1>9, <3>2, <4>1, SendEnds
    <3> QED
      BY <3>1, <3>2
  <2> QED
    BY <2>1, <2>2 DEF SendsFindNothingOld, NotOlder
<1> QED
  BY <1>2, <1>3, <1>4, <1>5, <1>6, <1>7, <1>8, <1>9 DEF Next, MainStep

(* Main sends only what it has just filled both buffers with.              *)
LEMMA FilledBeforeSentStep ==
  ASSUME BuffersTypeOK, FilledBeforeSent, Next
  PROVE  FilledBeforeSent'
<1>0. /\ request \in Requests /\ request.client \in Clients
      /\ header \in [Clients -> Content] /\ body \in [Clients -> Content]
  BY DEF BuffersTypeOK, Requests
<1>1. CASE MainPop \/ MainSend
  <2>1. at' \in {"pop", "ended", "clearHeader"}
    BY <1>0, <1>1, NextRequestIsLater DEF MainPop, MainSend
  <2> QED
    BY <2>1 DEF FilledBeforeSent
<1>2. CASE ClearHeader \/ ClearBody
  BY <1>2 DEF ClearHeader, ClearBody, FilledBeforeSent
<1>3. CASE FillHeader
  BY <1>0, <1>3 DEF FillHeader, FilledBeforeSent
<1>4. CASE FillBody
  BY <1>0, <1>4 DEF FillBody, FilledBeforeSent
<1>5. ASSUME NEW c \in Clients, ReadHeader(c) \/ ReadBody(c)
      PROVE  FilledBeforeSent'
  BY <1>5 DEF ReadHeader, ReadBody, FilledBeforeSent
<1> QED
  BY <1>1, <1>2, <1>3, <1>4, <1>5 DEF Next, MainStep

(* A message that arrives was a send that found nothing old.               *)
LEMMA NothingOldIsSentStep ==
  ASSUME BuffersTypeOK, SendsFindNothingOld, NothingOldIsSent, Next
  PROVE  NothingOldIsSent'
<1>1. CASE MainStep
  BY <1>1 DEF MainStep, MainPop, ClearHeader, ClearBody, FillHeader, FillBody, MainSend,
              NothingOldIsSent
<1>2. ASSUME NEW c \in Clients, ReadHeader(c)
      PROVE  NothingOldIsSent'
  BY <1>2 DEF ReadHeader, NothingOldIsSent
<1>3. ASSUME NEW c \in Clients, ReadBody(c)
      PROVE  NothingOldIsSent'
  <2> DEFINE s == sending[c][1]
             m == [req |-> s.req, header |-> s.header, body |-> body[c], reused |-> s.reused]
  <2>1. /\ Head(sending[c]) = s /\ s.header # Unread /\ Len(sending[c]) \in Nat
        /\ 1 \in 1 .. Len(sending[c]) /\ delivered \in [Clients -> Sent \cup {Nothing}]
    <3>1. Len(sending'[c]) \in Nat
      BY <1>3, BuffersTypeStep DEF Next, BuffersTypeOK, ReadBody
    <3>2. Len(sending[c]) = Len(sending'[c]) + 1
      BY <1>3, SendEnds
    <3> QED
      BY <1>3, <3>1, <3>2, SendEnds DEF BuffersTypeOK
  <2>2. /\ s.req.client = c
        /\ NotOlder(s.header, s.req) /\ NotOlder(body[c], s.req)
    BY <2>1 DEF SendsFindNothingOld
  <2>3. delivered' = [delivered EXCEPT ![c] = m]
    BY <1>3, <2>1 DEF ReadBody
  <2>4. m.header = s.header /\ m.body = body[c] /\ m.req = s.req
    OBVIOUS
  <2> HIDE DEF m
  <2>5. \A part \in {m.header, m.body} : part = Zero \/ (part.client = c /\ part.n >= m.req.n)
    BY <2>2, <2>4 DEF NotOlder
  <2>6. delivered'[c] = m /\ \A d \in Clients \ {c} : delivered'[d] = delivered[d]
    BY <2>1, <2>3
  <2> QED
    BY <2>5, <2>6 DEF NothingOldIsSent
<1> QED
  BY <1>1, <1>2, <1>3 DEF Next

(* Main starts with the whole pool and with clear buffers.                 *)
LEMMA BuffersInit ==
  ASSUME Init
  PROVE  BuffersInv
<1>1. \A c \in Clients : Len(sending[c]) = 0
  BY DEF Init
<1>2. Lengths = [c \in Clients |-> 0]
  BY <1>1 DEF Lengths
<1>3. PairsOf(Clients, Lengths) = {}
  <2> SUFFICES ASSUME NEW x, x \in PairsOf(Clients, Lengths) PROVE FALSE
    OBVIOUS
  <2>1. PICK c \in Clients : \E k \in 1 .. Lengths[c] : x = << c, k >>
    BY PairsMember
  <2> QED
    BY <1>2, <2>1
<1>4. ContextsCounted
  <2>1. IsFiniteSet({}) /\ Cardinality({}) = 0
    BY FS_EmptySet
  <2>2. pool = Free /\ ~InHand /\ Free \in Nat
    BY SendAssumption DEF Init, InHand
  <2> QED
    BY <1>3, <2>1, <2>2 DEF ContextsCounted
<1>5. BuffersTypeOK
  <2>1. request \in Requests
    <3>1. 1 \in Clients /\ 1 \in 1 .. 2 * MaxRounds
      BY SendAssumption DEF Clients
    <3> QED
      BY <3>1 DEF Init, Requests
  <2>2. pool \in Nat /\ Zero \in Content
    BY SendAssumption DEF Init, Content
  <2>3. header \in [Clients -> Content] /\ body \in [Clients -> Content]
    BY <2>2 DEF Init
  <2>4. << >> \in Seq(Sends)
    BY EmptySeq
  <2>5. sending \in [Clients -> Seq(Sends)] /\ delivered \in [Clients -> Sent \cup {Nothing}]
    BY <2>4 DEF Init
  <2>6. idLength \in IdLengths /\ at = "pop" /\ overrun = FALSE
    BY DEF Init
  <2> QED
    BY <2>1, <2>2, <2>3, <2>5, <2>6 DEF BuffersTypeOK
<1>6. SendsFindNothingOld /\ FilledBeforeSent
  BY <1>1 DEF Init, SendsFindNothingOld, FilledBeforeSent
<1>7. NothingOldIsSent
  BY DEF Init, NothingOldIsSent
<1> QED
  BY <1>4, <1>5, <1>6, <1>7 DEF BuffersInv

(* What is counted is within the bounds of the types.                      *)
LEMMA CountedIsBounded ==
  ASSUME BuffersTypeOK, ContextsCounted
  PROVE  TypeOK
<1>1. Cardinality(PairsOf(Clients, Lengths)) \in Nat
  BY FS_CardinalityType DEF ContextsCounted
<1>2. pool \in 0 .. Free
  BY <1>1, SendAssumption DEF ContextsCounted, BuffersTypeOK
<1> QED
  BY <1>2 DEF BuffersTypeOK, TypeOK

(* The inductive invariant, step by step.                                  *)
LEMMA BuffersInvStep ==
  ASSUME BuffersInv, [Next]_vars
  PROVE  BuffersInv'
<1>1. CASE Next
  BY <1>1, BuffersTypeStep, ContextsCountedStep, SendsFindNothingOldStep, FilledBeforeSentStep,
     NothingOldIsSentStep DEF BuffersInv
<1>2. CASE UNCHANGED vars
  BY <1>2 DEF vars, BuffersInv, BuffersTypeOK, ContextsCounted, Lengths, InHand,
              SendsFindNothingOld, FilledBeforeSent, NothingOldIsSent
<1> QED
  BY <1>1, <1>2

(* With any number of rounds and contexts, and any lengths of the id: main *)
(* never has more sends in progress than the pool has contexts, and        *)
(* although it reuses the buffers of a client while they are being sent,   *)
(* no part of a message is older than the request the send was started for *)
(* (main.cpp 52-56, 74-78; Protocol.h 13-32, 37-58).                       *)
THEOREM BuffersCorrect == Spec => [](TypeOK /\ NothingOldIsSent)
<1>1. Init => BuffersInv
  BY BuffersInit
<1>2. BuffersInv /\ [Next]_vars => BuffersInv'
  BY BuffersInvStep
<1>3. BuffersInv => TypeOK /\ NothingOldIsSent
  BY CountedIsBounded DEF BuffersInv
<1> QED
  BY <1>1, <1>2, <1>3, PTL DEF Spec

-----------------------------------------------------------------------------
(***************************************************************************)
(* What is not touched                                                     *)
(***************************************************************************)

(* Until main clears the buffers of its client again, a send in progress   *)
(* finds its own request in both of them.                                  *)
UntouchedSends ==
  \A c \in Clients : \A k \in 1 .. Len(sending[c]) : ~sending[c][k].reused =>
    /\ header[c] = sending[c][k].req /\ body[c] = sending[c][k].req
    /\ sending[c][k].header \in {Unread, sending[c][k].req}
    /\ request.client = c => at \notin {"clearBody", "fillHeader", "fillBody", "send"}

(* A message whose buffers main did not touch is one request, header and   *)
(* body.                                                                   *)
UntouchedIsWhole ==
  \A c \in Clients : delivered[c] # Nothing /\ ~delivered[c].reused =>
    delivered[c].header = delivered[c].req /\ delivered[c].body = delivered[c].req

(* Clearing the header marks every send of the client.                     *)
LEMMA ClearMarks ==
  ASSUME BuffersTypeOK, ClearHeader
  PROVE  /\ \A k \in 1 .. Len(sending'[request.client]) : sending'[request.client][k].reused
         /\ \A c \in Clients \ {request.client} : sending'[c] = sending[c]
<1> DEFINE c0  == request.client
           old == sending[c0]
           new == [k \in DOMAIN old |-> [old[k] EXCEPT !.reused = TRUE]]
<1>1. c0 \in Clients /\ sending \in [Clients -> Seq(Sends)]
  BY DEF BuffersTypeOK, Requests
<1>2. sending' = [sending EXCEPT ![c0] = new]
  BY DEF ClearHeader
<1>3. old \in Seq(Sends) /\ DOMAIN old = 1 .. Len(old) /\ Len(old) \in Nat
  BY <1>1
<1>4. ASSUME NEW k \in 1 .. Len(old)
      PROVE  [old[k] EXCEPT !.reused = TRUE] \in Sends /\ [old[k] EXCEPT !.reused = TRUE].reused
  <2>1. old[k] \in Sends
    BY <1>3, ElementOfSeq
  <2> QED
    BY <2>1 DEF Sends
<1>5. new \in [1 .. Len(old) -> Sends]
  BY <1>3, <1>4
<1>6. Len(new) = Len(old)
  BY <1>3, <1>5
<1>7. \A k \in 1 .. Len(old) : new[k].reused
  BY <1>3, <1>4
<1> HIDE DEF new
<1>8. sending'[c0] = new /\ \A c \in Clients \ {c0} : sending'[c] = sending[c]
  BY <1>1, <1>2
<1> QED
  BY <1>6, <1>7, <1>8

(* Main writes into the buffers of a client only when it has marked its    *)
(* sends.                                                                  *)
LEMMA UntouchedSendsStep ==
  ASSUME BuffersTypeOK, FilledBeforeSent, UntouchedSends, Next
  PROVE  UntouchedSends'
<1>0. /\ BuffersTypeOK' /\ request \in Requests /\ request.client \in Clients
      /\ header \in [Clients -> Content] /\ body \in [Clients -> Content]
      /\ \A c \in Clients : Len(sending[c]) \in Nat
  BY BuffersTypeStep DEF BuffersTypeOK, Requests
<1>1. CASE MainPop
  <2>1. /\ UNCHANGED << header, body, sending >> /\ at' \in {"pop", "ended", "clearHeader"}
    BY <1>0, <1>1, NextRequestIsLater DEF MainPop
  <2> QED
    BY <2>1 DEF UntouchedSends
<1>2. CASE ClearHeader
  <2>1. /\ UNCHANGED << body, request >> /\ at' = "clearBody"
        /\ \A c \in Clients \ {request.client} : header'[c] = header[c]
    BY <1>0, <1>2 DEF ClearHeader
  <2> QED
    BY <1>2, <2>1, ClearMarks DEF UntouchedSends
<1>3. CASE ClearBody
  <2>1. /\ UNCHANGED << header, request, sending >> /\ at = "clearBody"
        /\ \A c \in Clients \ {request.client} : body'[c] = body[c]
    BY <1>0, <1>3 DEF ClearBody
  <2> QED
    BY <2>1 DEF UntouchedSends
<1>4. CASE FillHeader
  <2>1. /\ UNCHANGED << body, request, sending >> /\ at = "fillHeader"
        /\ \A c \in Clients \ {request.client} : header'[c] = header[c]
    BY <1>0, <1>4 DEF FillHeader
  <2> QED
    BY <2>1 DEF UntouchedSends
<1>5. CASE FillBody
  <2>1. /\ UNCHANGED << header, request, sending >> /\ at = "fillBody"
        /\ \A c \in Clients \ {request.client} : body'[c] = body[c]
    BY <1>0, <1>5 DEF FillBody
  <2> QED
    BY <2>1 DEF UntouchedSends
<1>6. CASE MainSend
  <2>1. /\ UNCHANGED << header, body >> /\ at = "send" /\ at' \in {"pop", "ended"}
        /\ header[request.client] = request /\ body[request.client] = request
    BY <1>0, <1>6, NextRequestIsLater DEF MainSend, FilledBeforeSent
  <2> SUFFICES ASSUME NEW c \in Clients, NEW k \in 1 .. Len(sending'[c]), ~sending'[c][k].reused
               PROVE  /\ header[c] = sending'[c][k].req /\ body[c] = sending'[c][k].req
                      /\ sending'[c][k].header \in {Unread, sending'[c][k].req}
    BY <2>1 DEF UntouchedSends
  <2>2. CASE k \in 1 .. Len(sending[c])
    <3>1. sending'[c][k] = sending[c][k]
      BY <1>6, <2>2, SendStarts DEF MainSend
    <3> QED
      BY <2>2, <3>1 DEF UntouchedSends
  <2>3. CASE k \notin 1 .. Len(sending[c])
    <3>1. c = request.client /\ k = Len(sending[c]) + 1
      BY <1>0, <1>6, <2>3, SendStarts DEF MainSend
    <3>2. sending'[c][k] = [req |-> request, header |-> Unread, reused |-> FALSE]
      BY <1>6, <3>1, SendStarts DEF MainSend
    <3>3. sending'[c][k].req = request /\ sending'[c][k].header = Unread
      BY <3>2
    <3> QED
      BY <2>1, <3>1, <3>3
  <2> QED
    BY <2>2, <2>3
<1>7. ASSUME NEW c \in Clients, ReadHeader(c)
      PROVE  UntouchedSends'
  <2>1. UNCHANGED << header, body, request, at >>
    BY <1>7 DEF ReadHeader
  <2>2. ASSUME NEW d \in Clients, NEW k \in 1 .. Len(sending'[d])
        PROVE  /\ k \in 1 .. Len(sending[d])
               /\ sending'[d][k].req = sending[d][k].req
               /\ sending'[d][k].reused = sending[d][k].reused
               /\ sending'[d][k].header = sending[d][k].header \/ sending'[d][k].header = header[d]
    <3>1. k \in 1 .. Len(sending[d])
      BY <1>7, HeaderIsRead
    <3>2. CASE d # c
      BY <1>7, <3>1, <3>2, HeaderIsRead
    <3>3. CASE d = c /\ k = 1
      BY <1>7, <3>1, <3>3, HeaderIsRead
    <3>4. CASE d = c /\ k # 1
      <4>1. k \in 2 .. Len(sending[c])
        BY <1>0, <3>1, <3>4
      <4> QED
        BY <1>7, <3>1, <3>4, <4>1, HeaderIsRead
    <3> QED
      BY <3>2, <3>3, <3>4
  <2> QED
    BY <2>1, <2>2 DEF UntouchedSends
<1>8. ASSUME NEW c \in Clients, ReadBody(c)
      PROVE  UntouchedSends'
  <2>1. UNCHANGED << header, body, request, at >>
    BY <1>8 DEF ReadBody
  <2>2. ASSUME NEW d \in Clients, NEW k \in 1 .. Len(sending'[d])
        PROVE  \E l \in 1 .. Len(sending[d]) : sending'[d][k] = sending[d][l]
    <3>1. CASE d # c
      BY <1>8, <3>1, SendEnds
    <3>2. CASE d = c
      <4>1. k + 1 \in 1 .. Len(sending[d])
        BY <1>8, <2>2, <3>2, <1>0, SendEnds
      <4> QED
        BY <1>8, <3>2, <4>1, SendEnds
    <3> QED
      BY <3>1, <3>2
  <2> QED
    BY <2>1, <2>2 DEF UntouchedSends
<1> QED
  BY <1>1, <1>2, <1>3, <1>4, <1>5, <1>6, <1>7, <1>8 DEF Next, MainStep

(* A message that arrives was a send that found its request.               *)
LEMMA UntouchedIsWholeStep ==
  ASSUME BuffersTypeOK, UntouchedSends, UntouchedIsWhole, Next
  PROVE  UntouchedIsWhole'
<1>1. CASE MainStep
  BY <1>1 DEF MainStep, MainPop, ClearHeader, ClearBody, FillHeader, FillBody, MainSend,
              UntouchedIsWhole
<1>2. ASSUME NEW c \in Clients, ReadHeader(c)
      PROVE  UntouchedIsWhole'
  BY <1>2 DEF ReadHeader, UntouchedIsWhole
<1>3. ASSUME NEW c \in Clients, ReadBody(c)
      PROVE  UntouchedIsWhole'
  <2> DEFINE s == sending[c][1]
             m == [req |-> s.req, header |-> s.header, body |-> body[c], reused |-> s.reused]
  <2>1. /\ Head(sending[c]) = s /\ s.header # Unread
        /\ 1 \in 1 .. Len(sending[c]) /\ delivered \in [Clients -> Sent \cup {Nothing}]
    <3>1. Len(sending'[c]) \in Nat
      BY <1>3, BuffersTypeStep DEF Next, BuffersTypeOK, ReadBody
    <3>2. Len(sending[c]) = Len(sending'[c]) + 1
      BY <1>3, SendEnds
    <3> QED
      BY <1>3, <3>1, <3>2, SendEnds DEF BuffersTypeOK
  <2>2. ~s.reused => s.header = s.req /\ body[c] = s.req
    BY <2>1 DEF UntouchedSends
  <2>3. delivered' = [delivered EXCEPT ![c] = m]
    BY <1>3, <2>1 DEF ReadBody
  <2>4. m.header = s.header /\ m.body = body[c] /\ m.req = s.req /\ m.reused = s.reused
    OBVIOUS
  <2> HIDE DEF m
  <2>5. delivered'[c] = m /\ \A d \in Clients \ {c} : delivered'[d] = delivered[d]
    BY <2>1, <2>3
  <2> QED
    BY <2>2, <2>4, <2>5 DEF UntouchedIsWhole
<1> QED
  BY <1>1, <1>2, <1>3 DEF Next

-----------------------------------------------------------------------------
(***************************************************************************)
(* The two requests, for an id of any length                               *)
(***************************************************************************)

(* Behind the string a table with a field of eight bytes begins.           *)
FieldsAt(S) == S + ((-S) % 8) + 8

(* A save request begins with the root offset and the vtable; the table    *)
(* has three fields, lastUpdate at A, score and player_id in front of it;  *)
(* the string is at the end.                                               *)
LEMMA SaveRequestBuilt ==
  ASSUME NEW id, NEW L, IsLong(id, L), NEW score, score # 0, NEW lastUpdate, lastUpdate # 0,
         NEW S, S = StringSize(L), NEW A, A = FieldsAt(S),
         NEW m, m = CreateREQUEST_SAVE_SCORE(id, score, lastUpdate)
  PROVE  /\ IsLong(m, A + 32) /\ TextAt(m, S, id, L)
         /\ Word(m, A, lastUpdate, 8) /\ Word(m, A + 4, score, 4) /\ Word(m, A + 8, A + 8 - S, 4)
         /\ Word(m, A + 12, 10, 4) /\ Word(m, A + 22, 10, 2) /\ Word(m, A + 32, 20, 4)
         /\ Word(m, A + 22 - 8, A + 12 - A, 2)
         /\ Word(m, A + 22 - 6, A + 12 - (A + 4), 2)
         /\ Word(m, A + 22 - 4, A + 12 - (A + 8), 2)
<1> DEFINE s == CreateString(NewBuilder, id)
           a == AddElement(s, 8, lastUpdate, 8)
           b == AddElement(a, 6, score, 4)
           c == AddOffset(b, PlayerId, s.last)
           t == EndTable(c, Len(s.data))
           w == Finish(t, t.last)
           f8 == [id |-> 8, off |-> A]
           f6 == [id |-> 6, off |-> A + 4]
           f4 == [id |-> 4, off |-> A + 8]
           F  == {} \cup {f8} \cup {f6} \cup {f4}
<1>0. L \in Nat /\ S \in Nat /\ A \in Nat /\ A % 8 = 0 /\ S + 8 <= A /\ L + 4 < S
  BY DEF IsLong, StringSize, FieldsAt
<1>1. Built(s, S, 4, {}, S) /\ TextAt(s.data, S, id, L) /\ Len(s.data) = S
  <2>1. S = L + 5 + ((-(L + 1)) % 4)
    BY DEF StringSize
  <2>2. /\ Built(s, S, 4, {}, S) /\ Word(s.data, S, L, 4)
        /\ \A k \in 1 .. L : FromEnd(s.data, S - 3 - k) = id[k]
    BY <2>1, CreateStringSize
  <2> QED
    BY <2>2, LongIsSeq DEF TextAt, Built
<1>2. s.last = S
  BY <1>1 DEF Built
<1> HIDE DEF s
<1>3. /\ Built(a, A, 8, {} \cup {f8}, A) /\ Keeps(a.data, s.data) /\ Word(a.data, A, lastUpdate, 8)
      /\ Len(a.data) = A
  <2>1. /\ Built(a, A, IF 4 >= 8 THEN 4 ELSE 8, {} \cup {f8}, A)
        /\ Keeps(a.data, s.data) /\ Word(a.data, A, lastUpdate, 8)
    BY <1>1, AddElementSize DEF FieldsAt
  <2>2. Built(a, A, 8, {} \cup {f8}, A)
    BY <2>1
  <2> QED
    BY <2>1, <2>2, LongIsSeq DEF Built
<1> HIDE DEF a
<1>4. /\ Built(b, A + 4, 8, {} \cup {f8} \cup {f6}, A + 4) /\ Keeps(b.data, a.data)
      /\ Word(b.data, A + 4, score, 4) /\ Len(b.data) = A + 4
  <2>1. A + 4 = A + ((-A) % 4) + 4
    BY <1>0
  <2>2. /\ Built(b, A + 4, IF 8 >= 4 THEN 8 ELSE 4, {} \cup {f8} \cup {f6}, A + 4)
        /\ Keeps(b.data, a.data) /\ Word(b.data, A + 4, score, 4)
    BY <1>3, <2>1, AddElementSize
  <2>3. Built(b, A + 4, 8, {} \cup {f8} \cup {f6}, A + 4)
    BY <2>2
  <2> QED
    BY <2>2, <2>3, LongIsSeq DEF Built
<1> HIDE DEF b
<1>5. /\ Built(c, A + 8, 8, F, A + 8) /\ Keeps(c.data, b.data)
      /\ Word(c.data, A + 8, A + 8 - S, 4) /\ Len(c.data) = A + 8
  <2>1. (A + 4) % 4 = 0 /\ S <= A + 4 /\ A + 8 = A + 4 + 4
    BY <1>0
  <2> DEFINE G == {} \cup {f8} \cup {f6}
  <2>2. Built(b, A + 4, 8, G, A + 4)
    BY <1>4
  <2> HIDE DEF G
  <2> DEFINE e == AddOffset(b, 4, S)
  <2>3. /\ Built(e, A + 8, 8, G \cup {[id |-> 4, off |-> A + 8]}, A + 8)
        /\ Keeps(e.data, b.data) /\ Word(e.data, A + 8, A + 8 - S, 4)
    BY <1>0, <2>1, <2>2, AddOffsetSize
  <2>4. c = e
    BY <1>2 DEF PlayerId
  <2> HIDE DEF c, e
  <2>5. Built(c, A + 8, 8, F, A + 8)
    BY <2>3, <2>4 DEF G
  <2>6. Keeps(c.data, b.data) /\ Word(c.data, A + 8, A + 8 - S, 4)
    BY <2>3, <2>4
  <2> QED
    BY <2>5, <2>6, LongIsSeq DEF Built
<1> HIDE DEF c
<1>6. f8.id = 8 /\ f6.id = 6 /\ f4.id = 4 /\ f8.off = A /\ f6.off = A + 4 /\ f4.off = A + 8
  OBVIOUS
<1>7. f8 \in F /\ f6 \in F /\ f4 \in F /\ \A g \in F : g = f8 \/ g = f6 \/ g = f4
  OBVIOUS
<1> HIDE DEF f8, f6, f4, F
<1>8. /\ Built(t, A + 22, 8, {}, A + 12) /\ Keeps(t.data, c.data) /\ Len(t.data) = A + 22
      /\ Word(t.data, A + 12, 10, 4) /\ Word(t.data, A + 22, 10, 2)
      /\ FieldsIn(t.data, F, A + 22, A + 12)
  <2>1. /\ A + 12 = (A + 8) + ((-(A + 8)) % 4) + 4 /\ A + 22 = A + 12 + 10
        /\ 8 \in Nat /\ 8 >= 4 /\ 10 \in Nat /\ 10 >= 4
    BY <1>0
  <2>2. Fit(F, 10, A + 8)
    BY <1>0, <1>6, <1>7 DEF Fit, FieldIds
  <2>3. Built(c, A + 8, 8, F, A + 8)
    BY <1>5
  <2> DEFINE start == Len(s.data)
  <2> HIDE DEF start
  <2>4. /\ Built(EndTable(c, start), A + 22, 8, {}, A + 12) /\ Keeps(EndTable(c, start).data, c.data)
        /\ Word(EndTable(c, start).data, A + 12, 10, 4) /\ Word(EndTable(c, start).data, A + 22, 10, 2)
        /\ FieldsIn(EndTable(c, start).data, F, A + 22, A + 12)
    BY ONLY <2>1, <2>2, <2>3, EndTableSize
  <2>6. t = EndTable(c, start)
    BY DEF start
  <2> HIDE DEF t
  <2>5. Len(t.data) = A + 22
    BY <2>4, <2>6, LongIsSeq DEF Built
  <2> QED
    BY <2>4, <2>5, <2>6
<1>80. /\ Word(t.data, A + 22 - 8, A + 12 - A, 2)
       /\ Word(t.data, A + 22 - 6, A + 12 - (A + 4), 2)
       /\ Word(t.data, A + 22 - 4, A + 12 - (A + 8), 2)
  <2> DEFINE V == A + 22
             T == A + 12
  <2>1. FieldsIn(t.data, F, V, T)
    BY <1>8
  <2> HIDE DEF t, V, T
  <2>2. /\ Word(t.data, V - f8.id, T - f8.off, 2)
        /\ Word(t.data, V - f6.id, T - f6.off, 2)
        /\ Word(t.data, V - f4.id, T - f4.off, 2)
    BY <1>7, <2>1, FieldAt
  <2>3. /\ Word(t.data, V - 8, T - A, 2)
        /\ Word(t.data, V - 6, T - (A + 4), 2)
        /\ Word(t.data, V - 4, T - (A + 8), 2)
    BY ONLY <1>6, <2>2, Zenon
  <2> QED
    BY <1>0, <2>3 DEF V, T
<1>9. t.last = A + 12
  <2> HIDE DEF t
  <2> QED
    BY <1>8 DEF Built
<1> HIDE DEF t
<1>10. IsLong(w, A + 32) /\ Keeps(w, t.data) /\ Word(w, A + 32, 20, 4)
  <2>1. Begins(A + 22, 8, A + 12, A + 32, 20)
    BY <1>0 DEF Begins
  <2>2. 8 \in {4, 8}
    OBVIOUS
  <2>3. Built(t, A + 22, 8, {}, A + 12)
    BY <1>8
  <2>4. /\ IsLong(Finish(t, A + 12), A + 32) /\ Keeps(Finish(t, A + 12), t.data)
        /\ Word(Finish(t, A + 12), A + 32, 20, 4)
    BY ONLY <2>1, <2>2, <2>3, FinishSize
  <2> QED
    BY <1>9, <2>4
<1>11. m = w
  BY DEF CreateREQUEST_SAVE_SCORE, s, a, b, c, t
<1> HIDE DEF w
<1>12. Keeps(w, c.data)
  BY <1>5, <1>8, <1>10, KeepsOn DEF Built
<1>13. Keeps(w, b.data)
  BY <1>4, <1>5, <1>10, <1>12, KeepsOn DEF Built
<1>14. Keeps(w, a.data)
  BY <1>3, <1>4, <1>10, <1>13, KeepsOn DEF Built
<1>15. Keeps(w, s.data)
  BY <1>1, <1>3, <1>10, <1>14, KeepsOn DEF Built
<1>16. TextAt(w, S, id, L)
  BY <1>0, <1>1, <1>15, TextStays
<1>17. Word(w, A, lastUpdate, 8)
  <2>1. 8 <= A /\ A <= A /\ 8 \in Nat
    BY <1>0
  <2> QED
    BY <1>0, <1>3, <1>14, <2>1, WordStays
<1>18. Word(w, A + 4, score, 4)
  <2>1. 4 <= A + 4 /\ A + 4 <= A + 4 /\ A + 4 \in Nat /\ 4 \in Nat
    BY <1>0
  <2> QED
    BY <1>4, <1>13, <2>1, WordStays
<1>19. Word(w, A + 8, A + 8 - S, 4)
  <2>1. 4 <= A + 8 /\ A + 8 <= A + 8 /\ A + 8 \in Nat /\ 4 \in Nat
    BY <1>0
  <2> QED
    BY <1>5, <1>12, <2>1, WordStays
<1>20. ASSUME NEW off \in Nat, off <= A + 22, NEW n \in Nat, n <= off, NEW x, Word(t.data, off, x, n)
       PROVE  Word(w, off, x, n)
  <2>1. A + 22 \in Nat
    BY <1>0
  <2> QED
    BY <1>8, <1>10, <1>20, <2>1, WordStays
<1>21. Word(w, A + 12, 10, 4)
  <2>1. A + 12 \in Nat /\ A + 12 <= A + 22 /\ 4 <= A + 12 /\ 4 \in Nat
    BY <1>0
  <2> QED
    BY <1>8, <1>20, <2>1
<1>22. /\ Word(w, A + 22, 10, 2) /\ Word(w, A + 22 - 8, A + 12 - A, 2)
       /\ Word(w, A + 22 - 6, A + 12 - (A + 4), 2) /\ Word(w, A + 22 - 4, A + 12 - (A + 8), 2)
  <2>1. ASSUME NEW n \in {0, 4, 6, 8} PROVE A + 22 - n \in Nat /\ A + 22 - n <= A + 22 /\ 2 <= A + 22 - n
    BY <1>0
  <2>2. A + 22 - 0 = A + 22
    BY <1>0
  <2>3. ASSUME NEW n \in {0, 4, 6, 8}, NEW x, Word(t.data, A + 22 - n, x, 2) PROVE Word(w, A + 22 - n, x, 2)
    <3>1. 2 \in Nat
      OBVIOUS
    <3> QED
      BY <1>20, <2>1, <2>3, <3>1
  <2> QED
    BY <1>8, <1>80, <2>2, <2>3
<1> QED
  BY <1>10, <1>11, <1>16, <1>17, <1>18, <1>19, <1>21, <1>22

(* A ranking request begins with the root offset and the vtable of a table *)
(* of one field, player_id; the string is at the end.                      *)
LEMMA RankingRequestBuilt ==
  ASSUME NEW id, NEW L, IsLong(id, L), NEW S, S = StringSize(L),
         NEW m, m = CreateREQUEST_PLAYER_RANKING(id)
  PROVE  /\ IsLong(m, S + 20) /\ TextAt(m, S, id, L)
         /\ Word(m, S + 4, 4, 4) /\ Word(m, S + 8, 6, 4) /\ Word(m, S + 14, 6, 2)
         /\ Word(m, S + 20, 12, 4) /\ Word(m, S + 14 - 4, S + 8 - (S + 4), 2)
<1> DEFINE s == CreateString(NewBuilder, id)
           c == AddOffset(s, PlayerId, s.last)
           t == EndTable(c, Len(s.data))
           w == Finish(t, t.last)
           f4 == [id |-> 4, off |-> S + 4]
           F  == {} \cup {f4}
<1>0. L \in Nat /\ S \in Nat /\ S % 4 = 0 /\ L + 4 < S
  BY DEF IsLong, StringSize
<1>1. Built(s, S, 4, {}, S) /\ TextAt(s.data, S, id, L) /\ Len(s.data) = S
  <2>1. S = L + 5 + ((-(L + 1)) % 4)
    BY DEF StringSize
  <2>2. /\ Built(s, S, 4, {}, S) /\ Word(s.data, S, L, 4)
        /\ \A k \in 1 .. L : FromEnd(s.data, S - 3 - k) = id[k]
    BY <2>1, CreateStringSize
  <2> QED
    BY <2>2, LongIsSeq DEF TextAt, Built
<1>2. s.last = S
  BY <1>1 DEF Built
<1> HIDE DEF s
<1>3. /\ Built(c, S + 4, 4, F, S + 4) /\ Keeps(c.data, s.data)
      /\ Word(c.data, S + 4, 4, 4) /\ Len(c.data) = S + 4
  <2>1. S % 4 = 0 /\ S \in Nat /\ S <= S /\ 4 = S + 4 - S /\ 4 \in Nat /\ 4 >= 4
    BY <1>0
  <2> DEFINE e == AddOffset(s, 4, S)
             B == S + 4
             G == {[id |-> 4, off |-> B]}
  <2>2. B = S + 4 /\ 4 = B - S
    BY <1>0
  <2> HIDE DEF B
  <2>3. /\ Built(e, B, 4, {} \cup G, B) /\ Keeps(e.data, s.data) /\ Word(e.data, B, 4, 4)
    BY <1>1, <2>1, <2>2, AddOffsetSize
  <2>4. c = e
    BY <1>2 DEF PlayerId
  <2> HIDE DEF c, e
  <2>5. /\ Built(c, S + 4, 4, F, S + 4) /\ Keeps(c.data, s.data) /\ Word(c.data, S + 4, 4, 4)
    BY <2>3, <2>4 DEF B
  <2> QED
    BY <2>5, LongIsSeq DEF Built
<1> HIDE DEF c
<1>4. f4.id = 4 /\ f4.off = S + 4
  OBVIOUS
<1>5. f4 \in F /\ \A g \in F : g = f4
  OBVIOUS
<1> HIDE DEF f4, F
<1>6. /\ Built(t, S + 14, 4, {}, S + 8) /\ Keeps(t.data, c.data) /\ Len(t.data) = S + 14
      /\ Word(t.data, S + 8, 6, 4) /\ Word(t.data, S + 14, 6, 2)
      /\ FieldsIn(t.data, F, S + 14, S + 8)
  <2>1. /\ S + 8 = (S + 4) + ((-(S + 4)) % 4) + 4 /\ S + 14 = S + 8 + 6
        /\ 4 \in Nat /\ 4 >= 4 /\ 6 \in Nat /\ 6 >= 4
    BY <1>0
  <2>2. Fit(F, 6, S + 4)
    BY <1>0, <1>4, <1>5 DEF Fit, FieldIds
  <2>3. Built(c, S + 4, 4, F, S + 4)
    BY <1>3
  <2> DEFINE start == Len(s.data)
  <2> HIDE DEF start
  <2>4. /\ Built(EndTable(c, start), S + 14, 4, {}, S + 8) /\ Keeps(EndTable(c, start).data, c.data)
        /\ Word(EndTable(c, start).data, S + 8, 6, 4) /\ Word(EndTable(c, start).data, S + 14, 6, 2)
        /\ FieldsIn(EndTable(c, start).data, F, S + 14, S + 8)
    BY ONLY <2>1, <2>2, <2>3, EndTableSize
  <2>5. t = EndTable(c, start)
    BY DEF start
  <2> HIDE DEF t
  <2>6. Len(t.data) = S + 14
    BY <2>4, <2>5, LongIsSeq DEF Built
  <2> QED
    BY <2>4, <2>5, <2>6
<1>7. Word(t.data, S + 14 - 4, S + 8 - (S + 4), 2)
  <2> DEFINE V == S + 14
             T == S + 8
  <2>1. FieldsIn(t.data, F, V, T)
    BY <1>6
  <2> HIDE DEF t, V, T
  <2>2. Word(t.data, V - f4.id, T - f4.off, 2)
    BY <1>5, <2>1, FieldAt
  <2>3. Word(t.data, V - 4, T - (S + 4), 2)
    BY ONLY <1>4, <2>2, Zenon
  <2> QED
    BY <1>0, <2>3 DEF V, T
<1>8. t.last = S + 8
  <2> HIDE DEF t
  <2> QED
    BY <1>6 DEF Built
<1> HIDE DEF t
<1>9. IsLong(w, S + 20) /\ Keeps(w, t.data) /\ Word(w, S + 20, 12, 4)
  <2>1. Begins(S + 14, 4, S + 8, S + 20, 12)
    BY <1>0 DEF Begins
  <2>2. 4 \in {4, 8}
    OBVIOUS
  <2>3. Built(t, S + 14, 4, {}, S + 8)
    BY <1>6
  <2>4. /\ IsLong(Finish(t, S + 8), S + 20) /\ Keeps(Finish(t, S + 8), t.data)
        /\ Word(Finish(t, S + 8), S + 20, 12, 4)
    BY ONLY <2>1, <2>2, <2>3, FinishSize
  <2> QED
    BY <1>8, <2>4
<1>10. m = w
  BY DEF CreateREQUEST_PLAYER_RANKING, s, c, t
<1> HIDE DEF w
<1>11. Keeps(w, c.data)
  BY <1>3, <1>6, <1>9, KeepsOn DEF Built
<1>12. Keeps(w, s.data)
  BY <1>1, <1>3, <1>9, <1>11, KeepsOn DEF Built
<1>13. TextAt(w, S, id, L)
  <2>1. S <= S
    BY <1>0
  <2> QED
    BY <1>0, <1>1, <1>12, <2>1, TextStays
<1>14. Word(w, S + 4, 4, 4)
  <2>1. 4 <= S + 4 /\ S + 4 <= S + 4 /\ S + 4 \in Nat /\ 4 \in Nat
    BY <1>0
  <2> QED
    BY <1>3, <1>11, <2>1, WordStays
<1>15. ASSUME NEW off \in Nat, off <= S + 14, NEW n \in Nat, n <= off, NEW x, Word(t.data, off, x, n)
       PROVE  Word(w, off, x, n)
  <2>1. S + 14 \in Nat
    BY <1>0
  <2> QED
    BY <1>6, <1>9, <1>15, <2>1, WordStays
<1>16. Word(w, S + 8, 6, 4)
  <2>1. S + 8 \in Nat /\ S + 8 <= S + 14 /\ 4 <= S + 8 /\ 4 \in Nat
    BY <1>0
  <2> QED
    BY <1>6, <1>15, <2>1
<1>17. Word(w, S + 14, 6, 2)
  <2>1. S + 14 \in Nat /\ S + 14 <= S + 14 /\ 2 <= S + 14 /\ 2 \in Nat
    BY <1>0
  <2> QED
    BY <1>6, <1>15, <2>1
<1>18. Word(w, S + 14 - 4, S + 8 - (S + 4), 2)
  <2>1. S + 14 - 4 \in Nat /\ S + 14 - 4 <= S + 14 /\ 2 <= S + 14 - 4 /\ 2 \in Nat
    BY <1>0
  <2> QED
    BY <1>7, <1>15, <2>1
<1> QED
  BY <1>9, <1>10, <1>13, <1>14, <1>16, <1>17, <1>18

(* A number in the order of the network.                                   *)
LEMMA NetworkOrder ==
  ASSUME NEW x \in Nat, x <= MaxInt
  PROVE  NetToHost(BigEndian(x)) = x
<1> DEFINE b == BigEndian(x)
<1>1. 4 - 1 = 3 /\ 4 - 2 = 2 /\ 4 - 3 = 1 /\ 4 - 4 = 0 /\ x \div 1 = x
  OBVIOUS
<1>2. b[1] = (x \div 256^(4 - 1)) % 256 /\ b[2] = (x \div 256^(4 - 2)) % 256
  BY DEF BigEndian
<1>3. b[3] = (x \div 256^(4 - 3)) % 256 /\ b[4] = (x \div 256^(4 - 4)) % 256
  BY DEF BigEndian
<1> HIDE DEF b
<1>4. b[1] = (x \div 256^3) % 256 /\ b[2] = (x \div 256^2) % 256
  BY <1>1, <1>2
<1>5. b[3] = (x \div 256) % 256
  BY <1>1, <1>3, Powers, SMT
<1>6. b[4] = x % 256
  BY <1>1, <1>3, Powers, SMT
<1>7. NetToHost(b) = (x % 256) + 256 * ((x \div 256) % 256) + 256^2 * ((x \div 256^2) % 256)
                     + 256^3 * ((x \div 256^3) % 256)
  BY <1>4, <1>5, <1>6 DEF NetToHost
<1>8. x \in Int32 /\ x >= 0
  BY NatIsInt32
<1> QED
  BY <1>7, <1>8, FourBytes DEF b

(* The size and the type are read from a header as they were written.      *)
LEMMA HeaderRead ==
  ASSUME NEW size \in Nat, size <= MaxInt, NEW type \in Nat, type <= MaxInt
  PROVE  /\ NetToHost(SubSeq(MessageHeader(size, type), 5, 8)) = size
         /\ NetToHost(SubSeq(MessageHeader(size, type), 9, 12)) = type
<1> DEFINE z == Zeros(4)
           s == BigEndian(size)
           t == BigEndian(type)
           h == z \o s \o t
<1>1. IsLong(z, 4) /\ IsLong(s, 4) /\ IsLong(t, 4)
  BY DEF IsLong, Zeros, BigEndian
<1>2. NetToHost(s) = size /\ NetToHost(t) = type
  BY NetworkOrder
<1> HIDE DEF z, s, t
<1>3. IsLong(h, 4 + 4 + 4) /\ Keeps(h, t) /\ Stands(s, h, 4 + 4, 4)
  BY <1>1, InFrontOf
<1> HIDE DEF h
<1>10. IsLong(h, 12)
  BY <1>3
<1> DEFINE S == {h[k] : k \in 1 .. 12}
<1>4. h \in Seq(S) /\ Len(h) = 12 /\ Len(t) = 4
  BY <1>1, <1>10, LongIsSeq
<1> HIDE DEF S
<1>8. ASSUME NEW k \in 1 .. 4 PROVE h[4 + k] = s[k] /\ h[8 + k] = t[k]
  <2>1. FromEnd(h, 8 + 1 - k) = s[k]
    BY <1>3 DEF Stands
  <2>2. 12 + 1 - (8 + 1 - k) = 4 + k /\ 12 + 1 - (5 - k) = 8 + k /\ 4 + 1 - (5 - k) = k /\ 5 - k \in 1 .. 4
    OBVIOUS
  <2>3. FromEnd(h, 5 - k) = FromEnd(t, 5 - k)
    BY <1>3, <1>4, <2>2 DEF Keeps
  <2> QED
    BY <1>4, <2>1, <2>2, <2>3 DEF FromEnd
<1>9. /\ h[5] = s[1] /\ h[6] = s[2] /\ h[7] = s[3] /\ h[8] = s[4]
      /\ h[9] = t[1] /\ h[10] = t[2] /\ h[11] = t[3] /\ h[12] = t[4]
  <2>1. h[4 + 1] = s[1] /\ h[4 + 2] = s[2] /\ h[4 + 3] = s[3] /\ h[4 + 4] = s[4]
    BY <1>8
  <2>2. h[8 + 1] = t[1] /\ h[8 + 2] = t[2] /\ h[8 + 3] = t[3] /\ h[8 + 4] = t[4]
    BY <1>8
  <2> QED
    BY <2>1, <2>2
<1>5. /\ SubSeq(h, 5, 8)[1] = h[5] /\ SubSeq(h, 5, 8)[2] = h[6]
      /\ SubSeq(h, 5, 8)[3] = h[7] /\ SubSeq(h, 5, 8)[4] = h[8]
  BY <1>4
<1>6. /\ SubSeq(h, 9, 12)[1] = h[9] /\ SubSeq(h, 9, 12)[2] = h[10]
      /\ SubSeq(h, 9, 12)[3] = h[11] /\ SubSeq(h, 9, 12)[4] = h[12]
  BY <1>4
<1>7. NetToHost(SubSeq(h, 5, 8)) = NetToHost(s) /\ NetToHost(SubSeq(h, 9, 12)) = NetToHost(t)
  BY <1>5, <1>6, <1>9 DEF NetToHost
<1> QED
  BY <1>2, <1>7 DEF MessageHeader, h, z, s, t

(* A save request is read as it was written, each field at a multiple of   *)
(* its width.                                                              *)
LEMMA SaveRequestRead ==
  ASSUME NEW id, NEW L, IsLong(id, L),
         NEW score \in Nat, score # 0, score <= MaxInt,
         NEW lastUpdate \in Nat, lastUpdate # 0, lastUpdate <= MaxInt,
         NEW m, m = CreateREQUEST_SAVE_SCORE(id, score, lastUpdate), Len(m) <= MaxInt
  PROVE  /\ Has(m, PlayerId) /\ StringAt(m, GetPointer(m, PlayerId)) = id
         /\ GetField(m, 6, 4) = score /\ Place(m, 6) % 4 = 0
         /\ GetField(m, 8, 8) = lastUpdate /\ Place(m, 8) % 8 = 0
<1>0. PICK S, A : S = StringSize(L) /\ A = FieldsAt(S)
  OBVIOUS
<1>1. /\ L \in Nat /\ S \in Nat /\ A \in Nat /\ A % 8 = 0 /\ S + 8 <= A /\ L + 4 < S
  BY <1>0 DEF IsLong, StringSize, FieldsAt
<1> DEFINE N == A + 32
           T == A + 12
           B == A + 4
           C == A + 8
<1>2. IsLong(m, A + 32) /\ TextAt(m, S, id, L)
  BY <1>0, SaveRequestBuilt
<1>3. Word(m, A, lastUpdate, 8) /\ Word(m, A + 4, score, 4)
  BY <1>0, SaveRequestBuilt
<1>4. Refers(m, C, S)
  <2>1. Word(m, A + 8, A + 8 - S, 4)
    BY <1>0, SaveRequestBuilt
  <2> QED
    BY <1>1, <2>1 DEF Refers
<1>5. TableAt(m, N, T, 10)
  <2>1. Word(m, A + 12, 10, 4) /\ Word(m, A + 22, 10, 2) /\ Word(m, A + 32, 20, 4)
    BY <1>0, SaveRequestBuilt
  <2>2. T + 10 = A + 22 /\ N - T = 20
    BY <1>1
  <2>0. Len(m) = A + 32
    BY <1>2, LongIsSeq
  <2>3. N \in Nat /\ N <= MaxInt /\ T \in Nat /\ 4 <= T /\ T + 10 <= N /\ 4 <= N
    BY <1>1, <2>0
  <2>4. Word(m, N, N - T, 4) /\ Word(m, T, 10, 4) /\ Word(m, T + 10, 10, 2)
    BY <2>1, <2>2
  <2> HIDE DEF N, T
  <2> QED
    BY <1>2, <2>3, <2>4 DEF TableAt, N
<1>6. FieldIn(m, T, 10, 8, A) /\ FieldIn(m, T, 10, 6, B) /\ FieldIn(m, T, 10, PlayerId, C)
  <2>1. Word(m, A + 22 - 8, A + 12 - A, 2)
    BY <1>0, SaveRequestBuilt
  <2>2. Word(m, A + 22 - 6, A + 12 - (A + 4), 2)
    BY <1>0, SaveRequestBuilt
  <2>3. Word(m, A + 22 - 4, A + 12 - (A + 8), 2)
    BY <1>0, SaveRequestBuilt
  <2>4. T + 10 - 8 = A + 22 - 8 /\ T + 10 - 6 = A + 22 - 6 /\ T + 10 - 4 = A + 22 - 4
    BY <1>1
  <2> QED
    BY <1>1, <2>1, <2>2, <2>3, <2>4 DEF FieldIn, PlayerId
<1>7. /\ N = A + 32 /\ T = A + 12 /\ B = A + 4 /\ C = A + 8
      /\ N \in Nat /\ T \in Nat /\ B \in Nat /\ C \in Nat
  BY <1>1
<1>8. Word(m, B, score, 4) /\ IsLong(m, N)
  BY <1>2, <1>3
<1> HIDE DEF N, T, B, C
<1>9. Has(m, PlayerId) /\ StringAt(m, GetPointer(m, PlayerId)) = id
  <2>1. C < T /\ T <= C + 100 /\ 4 <= C /\ S <= C
    BY <1>1, <1>7
  <2> QED
    BY <1>1, <1>2, <1>4, <1>5, <1>6, <1>7, <2>1, ReferredRead
<1>10. Has(m, 6) /\ Place(m, 6) = N - B /\ Has(m, 8) /\ Place(m, 8) = N - A
  <2>1. B \in Nat /\ B < T /\ T <= B + 100 /\ 6 \in FieldIds /\ 6 + 2 <= 10
    BY <1>1, <1>7 DEF FieldIds
  <2>2. A \in Nat /\ A < T /\ T <= A + 100 /\ 8 \in FieldIds /\ 8 + 2 <= 10
    BY <1>1, <1>7 DEF FieldIds
  <2>3. Has(m, 6) /\ Place(m, 6) = N - B
    BY ONLY <1>5, <1>6, <2>1, FieldRead
  <2>4. Has(m, 8) /\ Place(m, 8) = N - A
    BY ONLY <1>5, <1>6, <2>2, FieldRead
  <2> QED
    BY <2>3, <2>4
<1>11. ReadScalar(m, N - B, 4) = score /\ ReadScalar(m, N - A, 8) = lastUpdate
  <2>1. /\ 4 \in {4, 8} /\ 4 <= B /\ B <= N /\ 8 \in {4, 8} /\ 8 <= A /\ A <= N
        /\ N <= MaxInt /\ score \in Int32 /\ lastUpdate \in Int32
    BY <1>1, <1>5, <1>7, NatIsInt32 DEF TableAt
  <2> QED
    BY <1>1, <1>3, <1>7, <1>8, <2>1, ReadLong
<1>12. N - B = 28 /\ N - A = 32 /\ 28 % 4 = 0 /\ 32 % 8 = 0
  BY <1>1, <1>7
<1> QED
  BY <1>9, <1>10, <1>11, <1>12 DEF GetField, Has

(* So is a ranking request.                                                *)
LEMMA RankingRequestRead ==
  ASSUME NEW id, NEW L, IsLong(id, L),
         NEW m, m = CreateREQUEST_PLAYER_RANKING(id), Len(m) <= MaxInt
  PROVE  Has(m, PlayerId) /\ StringAt(m, GetPointer(m, PlayerId)) = id
<1>0. PICK S : S = StringSize(L)
  OBVIOUS
<1>1. L \in Nat /\ S \in Nat /\ L + 4 < S
  BY <1>0 DEF IsLong, StringSize
<1> DEFINE N == S + 20
           T == S + 8
           B == S + 4
<1>2. IsLong(m, S + 20) /\ TextAt(m, S, id, L)
  BY <1>0, RankingRequestBuilt
<1>3. Refers(m, B, S)
  <2>1. Word(m, S + 4, 4, 4)
    BY <1>0, RankingRequestBuilt
  <2>2. B - S = 4
    BY <1>1
  <2> QED
    BY <2>1, <2>2 DEF Refers
<1>4. TableAt(m, N, T, 6)
  <2>1. Word(m, S + 8, 6, 4) /\ Word(m, S + 14, 6, 2) /\ Word(m, S + 20, 12, 4)
    BY <1>0, RankingRequestBuilt
  <2>2. T + 6 = S + 14 /\ N - T = 12
    BY <1>1
  <2>0. Len(m) = S + 20
    BY <1>2, LongIsSeq
  <2>3. N \in Nat /\ N <= MaxInt /\ T \in Nat /\ 4 <= T /\ T + 6 <= N /\ 4 <= N
    BY <1>1, <2>0
  <2>4. Word(m, N, N - T, 4) /\ Word(m, T, 6, 4) /\ Word(m, T + 6, 6, 2)
    BY <2>1, <2>2
  <2> HIDE DEF N, T
  <2> QED
    BY <1>2, <2>3, <2>4 DEF TableAt, N
<1>5. FieldIn(m, T, 6, PlayerId, B)
  <2>1. Word(m, S + 14 - 4, S + 8 - (S + 4), 2)
    BY <1>0, RankingRequestBuilt
  <2>2. T + 6 - 4 = S + 14 - 4
    BY <1>1
  <2> QED
    BY <1>1, <2>1, <2>2 DEF FieldIn, PlayerId
<1>6. B \in Nat /\ B < T /\ T <= B + 100 /\ 4 <= B /\ S <= B
  BY <1>1
<1> HIDE DEF N, T, B
<1> QED
  BY <1>1, <1>2, <1>3, <1>4, <1>5, <1>6, ReferredRead

(* A save request has the id, padded to 8 bytes, and 40 bytes more, a      *)
(* ranking request the id and 20 bytes more.                               *)
LEMMA SaveRequestSize ==
  ASSUME NEW id, NEW L, IsLong(id, L), NEW score, score # 0, NEW lastUpdate, lastUpdate # 0,
         NEW m, m = CreateREQUEST_SAVE_SCORE(id, score, lastUpdate)
  PROVE  IsLong(m, Len(m)) /\ Len(m) = StringSize(L) + ((-StringSize(L)) % 8) + 40
<1>0. PICK S, A : S = StringSize(L) /\ A = FieldsAt(S)
  OBVIOUS
<1>1. IsLong(m, A + 32)
  BY <1>0, SaveRequestBuilt
<1>2. IsLong(m, Len(m)) /\ Len(m) = A + 32
  BY <1>1, LongIsSeq
<1>3. A + 32 = S + ((-S) % 8) + 40
  <2>1. S \in Nat
    BY <1>0 DEF StringSize, IsLong
  <2> QED
    BY <1>0, <2>1 DEF FieldsAt
<1> QED
  BY <1>0, <1>2, <1>3

LEMMA RankingRequestSize ==
  ASSUME NEW id, NEW L, IsLong(id, L), NEW m, m = CreateREQUEST_PLAYER_RANKING(id)
  PROVE  IsLong(m, Len(m)) /\ Len(m) = StringSize(L) + 20
<1>0. PICK S : S = StringSize(L)
  OBVIOUS
<1>1. IsLong(m, S + 20)
  BY <1>0, RankingRequestBuilt
<1> QED
  BY <1>0, <1>1, LongIsSeq

-----------------------------------------------------------------------------
(***************************************************************************)
(* What is too long, and what arrives                                      *)
(***************************************************************************)

TooLong == idLength + 1 > LongestId

(* With an id that is too long the first request overruns its buffer: main *)
(* has come to no other one, and nothing has been sent.                    *)
FirstOverruns ==
  /\ overrun => at = "ended" /\ TooLong
  /\ TooLong /\ ~overrun =>
       /\ request = [client |-> 1, n |-> 1] /\ at \notin {"send", "ended"}
       /\ at = "pop" => pool = Free
       /\ \A c \in Clients : sending[c] = << >>

(* The sizes of the requests and the size of the buffer, a multiple of 8.  *)
LEMMA SizesAndBuffer ==
  ASSUME NEW L \in Nat, NEW B \in Nat, B % 8 = 0
  PROVE  /\ StringSize(L) + ((-StringSize(L)) % 8) + 40 > B <=> L > B - 45
         /\ StringSize(L) + 20 > B => L > B - 45
BY DEF StringSize

(* What main puts into a request: an id of one character more than         *)
(* standardId, and a score that is not 0 and is an int.                    *)
LEMMA ArgumentsFit ==
  ASSUME BuffersTypeOK, NEW r \in Requests
  PROVE  /\ IsLong(IdOf(r, idLength), idLength + 1) /\ idLength + 1 \in Nat
         /\ ScoreOf(r) \in Nat /\ ScoreOf(r) # 0 /\ ScoreOf(r) <= MaxInt
<1>1. idLength \in Nat
  BY SendAssumption DEF BuffersTypeOK
<1>2. IsLong(IdOf(r, idLength), idLength + 1)
  <2>1. IsLong([k \in 1 .. idLength |-> 97], idLength)
    BY <1>1 DEF IsLong
  <2>2. IsLong(<< 48 + r.client >>, 1)
    BY DEF IsLong
  <2> QED
    BY <2>1, <2>2, ConcatIsLong DEF IdOf
<1>3. ScoreOf(r) \in Nat /\ ScoreOf(r) # 0 /\ ScoreOf(r) <= MaxInt
  <2>1. /\ r.client \in Nat /\ r.client >= 1 /\ r.client <= 9
        /\ r.n \in Nat /\ r.n >= 1 /\ r.n <= 2 * MaxRounds
        /\ MaxRounds \in Nat /\ 1000 + 100 * MaxRounds <= MaxInt
    BY SendAssumption DEF Requests, Clients
  <2>2. (r.n - 1) \div 2 \in Nat /\ (r.n - 1) \div 2 <= MaxRounds - 1
    BY <2>1
  <2>3. MaxInt \in Nat
    BY SMT DEF MaxInt
  <2> QED
    BY <2>1, <2>2, <2>3 DEF ScoreOf
<1> QED
  BY <1>1, <1>2, <1>3

(* A request larger than the buffer has an id that is too long, and a save *)
(* request with such an id is larger.                                      *)
LEMMA LargeIsTooLong ==
  ASSUME BuffersTypeOK, NEW r \in Requests
  PROVE  /\ IsLong(Message(r, idLength), Size(r)) /\ Size(r) = Len(Message(r, idLength))
         /\ Size(r) \in Nat
         /\ Size(r) > BufferSize => TooLong
         /\ IsSave(r) /\ TooLong => Size(r) > BufferSize
<1> DEFINE L == idLength + 1
           S == StringSize(L)
<1>0. /\ idLength \in IdLengths /\ L \in Nat /\ BufferSize \in Nat /\ BufferSize % 8 = 0
      /\ LastUpdate # 0
  BY SendAssumption DEF BuffersTypeOK
<1>1. IsLong(IdOf(r, idLength), L) /\ ScoreOf(r) # 0
  BY ArgumentsFit
<1>2. Size(r) = Len(Message(r, idLength))
  BY <1>0 DEF Size, BodyBytes
<1>3. ASSUME IsLong(Message(r, idLength), Size(r))
      PROVE  Size(r) \in Nat
  BY <1>3 DEF IsLong
<1>4. CASE IsSave(r)
  <2>1. /\ IsLong(Message(r, idLength), Size(r))
        /\ Size(r) = S + ((-S) % 8) + 40
    BY <1>0, <1>1, <1>2, <1>4, SaveRequestSize DEF Message
  <2> QED
    BY <1>0, <1>2, <1>3, <2>1, SizesAndBuffer DEF TooLong, LongestId
<1>5. CASE ~IsSave(r)
  <2>1. IsLong(Message(r, idLength), Size(r)) /\ Size(r) = S + 20
    BY <1>1, <1>2, <1>5, RankingRequestSize DEF Message
  <2> QED
    BY <1>0, <1>2, <1>3, <1>5, <2>1, SizesAndBuffer DEF TooLong, LongestId
<1> QED
  BY <1>4, <1>5

(* Main's first request overruns its buffer, or none does.                 *)
LEMMA FirstOverrunsStep ==
  ASSUME BuffersTypeOK, FirstOverruns, Next
  PROVE  FirstOverruns'
<1>0. /\ ~overrun /\ request \in Requests /\ pool \in Nat /\ Free \in Nat \ {0}
      /\ TooLong' = TooLong
  BY SendAssumption DEF Next, MainStep, MainPop, ClearHeader, ClearBody, FillHeader, FillBody, MainSend,
     ReadHeader, ReadBody, BuffersTypeOK, TooLong
<1>1. CASE MainPop
  <2>1. ~overrun' /\ UNCHANGED sending
    BY <1>0, <1>1 DEF MainPop
  <2>2. TooLong => at' = "clearHeader" /\ request' = request
    BY <1>0, <1>1 DEF MainPop, FirstOverruns
  <2> QED
    BY <1>0, <2>1, <2>2 DEF FirstOverruns
<1>2. CASE ClearHeader
  <2>1. ~overrun' /\ at' = "clearBody" /\ UNCHANGED request /\ sending \in [Clients -> Seq(Sends)]
    BY <1>0, <1>2 DEF ClearHeader, BuffersTypeOK
  <2>2. \A c \in Clients : Len(sending[c]) = 0 => sending'[c] = << >>
    <3>1. ASSUME NEW c \in Clients, Len(sending[c]) = 0
          PROVE  sending'[c] = << >>
      <4>1. sending'[c] \in Seq(Sends) /\ Len(sending'[c]) = 0
        BY <1>2, <3>1, SendsAreMarked
      <4> QED
        BY <4>1, EmptySeq
    <3> QED
      BY <3>1
  <2> QED
    BY <1>0, <2>1, <2>2 DEF FirstOverruns
<1>3. CASE ClearBody \/ FillHeader
  <2>1. ~overrun' /\ at' \in {"fillHeader", "fillBody"} /\ UNCHANGED << request, sending >>
    BY <1>0, <1>3 DEF ClearBody, FillHeader
  <2> QED
    BY <1>0, <2>1 DEF FirstOverruns
<1>4. CASE FillBody
  <2>1. /\ overrun' = (Size(request) > BufferSize) /\ UNCHANGED << request, sending >>
        /\ at' = IF overrun' THEN "ended" ELSE "send"
    BY <1>4 DEF FillBody
  <2>2. CASE TooLong
    <3>1. IsSave(request)
      BY <1>0, <2>2 DEF FirstOverruns, IsSave
    <3>2. overrun' /\ at' = "ended"
      BY <1>0, <2>1, <2>2, <3>1, LargeIsTooLong
    <3> QED
      BY <1>0, <2>2, <3>2 DEF FirstOverruns
  <2>3. CASE ~TooLong
    <3>1. ~overrun'
      BY <1>0, <2>1, <2>3, LargeIsTooLong
    <3> QED
      BY <1>0, <2>3, <3>1 DEF FirstOverruns
  <2> QED
    BY <2>2, <2>3
<1>5. CASE MainSend
  <2>1. ~overrun' /\ ~TooLong
    BY <1>0, <1>5 DEF MainSend, FirstOverruns
  <2> QED
    BY <1>0, <2>1 DEF FirstOverruns
<1>6. ASSUME NEW c \in Clients, ReadHeader(c) \/ ReadBody(c)
      PROVE  FirstOverruns'
  <2>1. ~overrun' /\ ~TooLong
    BY <1>0, <1>6 DEF ReadHeader, ReadBody, FirstOverruns
  <2> QED
    BY <1>0, <2>1 DEF FirstOverruns
<1> QED
  BY <1>1, <1>2, <1>3, <1>4, <1>5, <1>6 DEF Next, MainStep

(* Main has ended before the first request is too long for its buffer only *)
(* in an overrun; and in no other state is there one.                      *)
LEMMA OverrunsAreOfLongIds ==
  ASSUME BuffersTypeOK, FirstOverruns
  PROVE  OverrunsOnlyOnLongIds
BY DEF FirstOverruns, OverrunsOnlyOnLongIds, BuffersTypeOK, TooLong

(* For any length of the id and any size of the buffer that is a multiple  *)
(* of 8, as BUFFER_SIZE is: main writes past the end of a body buffer      *)
(* exactly if the id, with the number of the client, has more than         *)
(* BUFFER_SIZE - 45 characters, and then with its very first request       *)
(* (Protocol.h 31, 57).                                                    *)
THEOREM OverrunsCorrect == Spec => []OverrunsOnlyOnLongIds
<1> DEFINE Inv == BuffersInv /\ FirstOverruns
<1>1. Init => Inv
  <2> SUFFICES ASSUME Init PROVE FirstOverruns
    BY BuffersInit
  <2> QED
    BY DEF Init, FirstOverruns
<1>2. Inv /\ [Next]_vars => Inv'
  <2> SUFFICES ASSUME BuffersInv, FirstOverruns, [Next]_vars PROVE BuffersInv' /\ FirstOverruns'
    OBVIOUS
  <2>1. BuffersInv'
    BY BuffersInvStep
  <2>2. CASE Next
    BY <2>1, <2>2, FirstOverrunsStep DEF BuffersInv
  <2>3. CASE UNCHANGED vars
    BY <2>1, <2>3 DEF vars, FirstOverruns, TooLong
  <2> QED
    BY <2>1, <2>2, <2>3
<1>3. Inv => OverrunsOnlyOnLongIds
  BY OverrunsAreOfLongIds DEF BuffersInv
<1> HIDE DEF Inv
<1> QED
  BY <1>1, <1>2, <1>3, PTL DEF Spec

(* For any number of rounds and contexts: a message whose buffers main did *)
(* not touch between the WSASend and the end of the send carries the       *)
(* header and the body of the one request it was started for (main.cpp     *)
(* 52-56, 74-78; Client.cpp 119).                                          *)
THEOREM UntouchedCorrect == Spec => []UntouchedIsWhole
<1> DEFINE Inv == BuffersInv /\ UntouchedSends /\ UntouchedIsWhole
<1>1. Init => Inv
  <2> SUFFICES ASSUME Init PROVE UntouchedSends /\ UntouchedIsWhole
    BY BuffersInit
  <2>1. \A c \in Clients : Len(sending[c]) = 0 /\ delivered[c] = Nothing
    BY DEF Init
  <2> QED
    BY <2>1 DEF UntouchedSends, UntouchedIsWhole
<1>2. Inv /\ [Next]_vars => Inv'
  <2> SUFFICES ASSUME BuffersInv, UntouchedSends, UntouchedIsWhole, [Next]_vars
               PROVE  BuffersInv' /\ UntouchedSends' /\ UntouchedIsWhole'
    OBVIOUS
  <2>1. BuffersInv'
    BY BuffersInvStep
  <2>2. CASE Next
    BY <2>1, <2>2, UntouchedSendsStep, UntouchedIsWholeStep DEF BuffersInv
  <2>3. CASE UNCHANGED vars
    BY <2>1, <2>3 DEF vars, UntouchedSends, UntouchedIsWhole
  <2> QED
    BY <2>1, <2>2, <2>3
<1>3. Inv => UntouchedIsWhole
  OBVIOUS
<1> HIDE DEF Inv
<1> QED
  BY <1>1, <1>2, <1>3, PTL DEF Spec

(* With an id that is too long nothing arrives.                            *)
TooLongNeverArrives == TooLong => \A c \in Clients : delivered[c] = Nothing

LEMMA TooLongNeverArrivesStep ==
  ASSUME BuffersTypeOK, FirstOverruns, TooLongNeverArrives, Next
  PROVE  TooLongNeverArrives'
<1>0. ~overrun
  BY DEF Next
<1>1. CASE MainStep
  BY <1>1 DEF MainStep, MainPop, ClearHeader, ClearBody, FillHeader, FillBody, MainSend,
              TooLongNeverArrives, TooLong
<1>2. ASSUME NEW c \in Clients, ReadHeader(c) \/ ReadBody(c)
      PROVE  TooLongNeverArrives'
  <2>1. ~TooLong /\ UNCHANGED idLength
    BY <1>0, <1>2 DEF ReadHeader, ReadBody, FirstOverruns
  <2> QED
    BY <2>1 DEF TooLongNeverArrives, TooLong
<1> QED
  BY <1>1, <1>2 DEF Next

(* The bytes of one request, header and body, read as that request.        *)
LEMMA RequestReads ==
  ASSUME BuffersTypeOK, ~TooLong, NEW m, NEW r \in Requests,
         m.header = r, m.body = r, m.req = r
  PROVE  ReadsAs(m, r)
<1> DEFINE id == IdOf(r, idLength)
           b  == Message(r, idLength)
<1>1. /\ IsLong(id, idLength + 1) /\ ScoreOf(r) \in Nat /\ ScoreOf(r) # 0 /\ ScoreOf(r) <= MaxInt
  BY ArgumentsFit
<1>2. IsLong(b, Size(r)) /\ Size(r) = Len(b) /\ Size(r) \in Nat /\ Size(r) <= BufferSize
  <2>1. /\ IsLong(b, Size(r)) /\ Size(r) = Len(b) /\ Size(r) \in Nat
        /\ ~(Size(r) > BufferSize)
    BY LargeIsTooLong
  <2> QED
    BY <2>1, SendAssumption
<1>3. Size(r) <= MaxInt /\ LastUpdate \in Nat /\ LastUpdate # 0 /\ LastUpdate <= MaxInt
  <2>1. BufferSize \in Nat /\ BufferSize <= MaxInt /\ MaxInt \in Nat
    BY SendAssumption, SMT DEF MaxInt
  <2> QED
    BY <1>2, <2>1, SendAssumption
<1>4. r # Zero
  <2>1. r.client >= 1
    BY SendAssumption DEF Requests, Clients
  <2> QED
    BY <2>1 DEF Zero
<1>5. HeaderBytes(m.header) = MessageHeader(Size(r), ContentsType(r))
  BY <1>4 DEF HeaderBytes
<1>6. /\ NetToHost(SubSeq(HeaderBytes(m.header), 5, 8)) = Size(r)
      /\ NetToHost(SubSeq(HeaderBytes(m.header), 9, 12)) = ContentsType(r)
  <2>1. ContentsType(r) \in Nat /\ ContentsType(r) <= MaxInt
    BY SMT DEF ContentsType, REQUEST_SAVE_SCORE, REQUEST_PLAYER_RANKING, MaxInt
  <2> QED
    BY <1>2, <1>3, <1>5, <2>1, HeaderRead
<1>7. (IF m.body = Zero THEN << >> ELSE SubSeq(BodyBytes[idLength][m.body], 1, Size(m.req))) = b
  <2>1. BodyBytes[idLength][r] = b
    BY DEF BodyBytes, BuffersTypeOK
  <2> HIDE DEF b
  <2>2. SubSeq(b, 1, Size(r)) = b
    BY <1>2, WholeOfLong
  <2> QED
    BY <1>4, <2>1, <2>2
<1>8. Has(b, PlayerId) /\ StringAt(b, GetPointer(b, PlayerId)) = id
  <2>1. CASE IsSave(r)
    <3>1. b = CreateREQUEST_SAVE_SCORE(id, ScoreOf(r), LastUpdate)
      BY <2>1 DEF Message
    <3> HIDE DEF b, id
    <3> QED
      BY <1>1, <1>2, <1>3, <3>1, SaveRequestRead
  <2>2. CASE ~IsSave(r)
    <3>1. b = CreateREQUEST_PLAYER_RANKING(id)
      BY <2>2 DEF Message
    <3> HIDE DEF b, id
    <3> QED
      BY <1>1, <1>2, <1>3, <3>1, RankingRequestRead
  <2> QED
    BY <2>1, <2>2
<1>9. ASSUME IsSave(r)
      PROVE  /\ GetField(b, 6, 4) = ScoreOf(r) /\ Place(b, 6) % 4 = 0
             /\ GetField(b, 8, 8) = LastUpdate /\ Place(b, 8) % 8 = 0
  <2>1. b = CreateREQUEST_SAVE_SCORE(id, ScoreOf(r), LastUpdate)
    BY <1>9 DEF Message
  <2> HIDE DEF b, id
  <2> QED
    BY <1>1, <1>2, <1>3, <2>1, SaveRequestRead
<1> HIDE DEF b
<1> QED
  BY <1>6, <1>7, <1>8, <1>9 DEF ReadsAs

LEMMA WireFollows ==
  ASSUME BuffersTypeOK, UntouchedIsWhole, TooLongNeverArrives
  PROVE  WireCarriesWhatMainBuilt
<1> SUFFICES ASSUME NEW c \in Clients, delivered[c] # Nothing, ~delivered[c].reused
             PROVE  ReadsAs(delivered[c], delivered[c].req)
  BY DEF WireCarriesWhatMainBuilt
<1> DEFINE m == delivered[c]
<1>1. m \in Sent /\ ~TooLong
  BY DEF BuffersTypeOK, TooLongNeverArrives
<1>2. m.req \in Requests
  BY <1>1 DEF Sent
<1>3. m.header = m.req /\ m.body = m.req
  BY DEF UntouchedIsWhole
<1> HIDE DEF m
<1>4. ReadsAs(m, m.req)
  BY <1>1, <1>2, <1>3, RequestReads
<1> QED
  BY <1>4 DEF m

(* For any length of the id, any size of the buffer, any time and any      *)
(* number of rounds that the scores, which are ints, allow: a request      *)
(* whose buffers main did not touch again before they were read arrives as *)
(* main built it.  The header gives its size and its type, the table its   *)
(* id, score and time, each at a multiple of its width, although the bytes *)
(* depend on the padding that the id's length calls for (Protocol.h 13-32, *)
(* 37-58; Client.cpp 119; flatbuffer_builder.h 308-484, 1258-1283).        *)
THEOREM WireCorrect == Spec => []WireCarriesWhatMainBuilt
<1> DEFINE Inv == /\ BuffersInv /\ UntouchedSends /\ UntouchedIsWhole
                  /\ FirstOverruns /\ TooLongNeverArrives
<1>1. Init => Inv
  <2> SUFFICES ASSUME Init
               PROVE  UntouchedSends /\ UntouchedIsWhole /\ FirstOverruns /\ TooLongNeverArrives
    BY BuffersInit
  <2>1. \A c \in Clients : Len(sending[c]) = 0 /\ delivered[c] = Nothing
    BY DEF Init
  <2>2. FirstOverruns
    BY DEF Init, FirstOverruns
  <2> QED
    BY <2>1, <2>2 DEF UntouchedSends, UntouchedIsWhole, TooLongNeverArrives
<1>2. Inv /\ [Next]_vars => Inv'
  <2> SUFFICES ASSUME BuffersInv, UntouchedSends, UntouchedIsWhole, FirstOverruns,
                      TooLongNeverArrives, [Next]_vars
               PROVE  /\ BuffersInv' /\ UntouchedSends' /\ UntouchedIsWhole'
                      /\ FirstOverruns' /\ TooLongNeverArrives'
    OBVIOUS
  <2>1. BuffersInv'
    BY BuffersInvStep
  <2>2. CASE Next
    BY <2>1, <2>2, UntouchedSendsStep, UntouchedIsWholeStep, FirstOverrunsStep,
       TooLongNeverArrivesStep DEF BuffersInv
  <2>3. CASE UNCHANGED vars
    <3>1. UntouchedSends' /\ UntouchedIsWhole'
      BY <2>3 DEF vars, UntouchedSends, UntouchedIsWhole
    <3>2. FirstOverruns' /\ TooLongNeverArrives'
      BY <2>3 DEF vars, FirstOverruns, TooLongNeverArrives, TooLong
    <3> QED
      BY <2>1, <3>1, <3>2
  <2> QED
    BY <2>1, <2>2, <2>3
<1>3. Inv => WireCarriesWhatMainBuilt
  BY WireFollows DEF BuffersInv
<1> HIDE DEF Inv
<1> QED
  BY <1>1, <1>2, <1>3, PTL DEF Spec

=============================================================================
