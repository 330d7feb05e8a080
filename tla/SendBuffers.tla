----------------------------- MODULE SendBuffers -----------------------------
(***************************************************************************)
(* The send buffers of the clients: main fills the one pair a client has   *)
(* for each request (Create_Request_Save_Score, then                       *)
(* Create_Request_Player_Ranking of include/Protocol.h) and starts an      *)
(* overlapped WSASend of it; the system reads the buffers at any time      *)
(* until the send completes, while main may have come to the same client   *)
(* again.                                                                  *)
(*                                                                         *)
(*   main:  pop -> clearHeader -> clearBody -> fillHeader -> fillBody      *)
(*           ^                                                   |         *)
(*           \--------------------- send <-----------------------/         *)
(*                                                                         *)
(* A buffer holds the whole of one request, or zeros: which request is     *)
(* kept in the state, and its bytes are those of module FlatBuffer.        *)
(***************************************************************************)
EXTENDS FlatBuffer

CONSTANTS
  ClientCount,   (* the number of clients                                  *)
  Free,          (* the contexts of the pool that no receive holds         *)
  BufferSize,    (* BUFFER_SIZE                                            *)
  IdLengths,     (* the lengths of the id the user may type                *)
  LastUpdate,    (* the time of the requests                               *)
  MaxRounds      (* bound: the rounds of main's loop                       *)

ASSUME SendAssumption ==
  /\ ClientCount \in 1 .. 9 /\ Free \in Nat \ {0}
  /\ MaxRounds \in Nat \ {0} /\ 1000 + 100 * MaxRounds <= MaxInt    \* scores are ints
  /\ BufferSize \in Nat /\ BufferSize % 8 = 0 /\ BufferSize <= MaxInt
  /\ IdLengths \subseteq Nat \ {0}
  /\ LastUpdate \in Nat \ {0} /\ LastUpdate <= MaxInt

Clients == 1 .. ClientCount

(* The n-th request to a client: main saves, then asks for the ranking.    *)
Requests == [client : Clients, n : 1 .. 2 * MaxRounds]
IsSave(r) == r.n % 2 = 1
Zero     == [client |-> 0, n |-> 0]

VARIABLES
  idLength,   (* the length of standardId                                  *)
  at,         (* where main is                                             *)
  request,    (* the request main has come to                              *)
  pool,       (* the contexts in the pool                                  *)
  header, body,   (* what is in the two send buffers of each client        *)
  sending,    (* the sends in progress of each client, the oldest first    *)
  delivered,  (* the last message the server got on each connection        *)
  overrun     (* a body was copied past the end of its buffer              *)

vars == << idLength, at, request, pool, header, body, sending, delivered,
           overrun >>

(* standardId + std::to_string(i + 1) and standardScore + i * 10 *)
IdOf(r, length) == [k \in 1 .. length |-> 97] \o << 48 + r.client >>
ScoreOf(r) == 1000 + 100 * ((r.n - 1) \div 2) + 10 * (r.client - 1)

Message(r, length) ==
  IF IsSave(r)
  THEN CreateREQUEST_SAVE_SCORE(IdOf(r, length), ScoreOf(r), LastUpdate)
  ELSE CreateREQUEST_PLAYER_RANKING(IdOf(r, length))

(* The body of every request, for every length of the id. *)
BodyBytes == [length \in IdLengths |-> [r \in Requests |-> Message(r, length)]]
Size(r)   == Len(BodyBytes[idLength][r])

ContentsType(r) == IF IsSave(r) THEN REQUEST_SAVE_SCORE ELSE REQUEST_PLAYER_RANKING

HeaderBytes(h) == IF h = Zero THEN Zeros(HeaderSize) ELSE MessageHeader(Size(h), ContentsType(h))

Unread  == [client |-> 0, n |-> -1]
Content == Requests \cup {Zero}
Sends   == [req : Requests, header : Content \cup {Unread}, reused : BOOLEAN]
Nothing == [req |-> Zero, header |-> Zero, body |-> Zero, reused |-> FALSE]
Sent    == [req : Requests, header : Content, body : Content, reused : BOOLEAN]

TypeOK ==
  /\ idLength \in IdLengths
  /\ at \in {"pop", "clearHeader", "clearBody", "fillHeader", "fillBody", "send", "ended"}
  /\ request \in Requests
  /\ pool \in 0 .. Free
  /\ header \in [Clients -> Content] /\ body \in [Clients -> Content]
  /\ \A c \in Clients : sending[c] \in Seq(Sends) /\ delivered[c] \in Sent \cup {Nothing}
  /\ overrun \in BOOLEAN

Init ==
  /\ idLength \in IdLengths
  /\ at = "pop" /\ request = [client |-> 1, n |-> 1]
  /\ pool = Free
  /\ header = [c \in Clients |-> Zero] /\ body = [c \in Clients |-> Zero]
  /\ sending = [c \in Clients |-> << >>] /\ delivered = [c \in Clients |-> Nothing]
  /\ overrun = FALSE
-----------------------------------------------------------------------------
(* The next client, or the other kind of request, or the next round. *)
NextRequest ==
  LET n == IF request.client < ClientCount THEN request.n ELSE request.n + 1
  IN  IF n > 2 * MaxRounds
      THEN at' = "ended" /\ UNCHANGED request
      ELSE at' = "pop" /\ request' = [client |-> (request.client % ClientCount) + 1, n |-> n]

(* Slip: the pool is not checked to hold a context. *)
MainPopUnchecked ==
  /\ at = "pop"
  /\ pool' = pool - 1 /\ at' = "clearHeader"
  /\ UNCHANGED << idLength, request, header, body, sending, delivered, overrun >>

(* Without a context the client is passed over. *)
MainPop ==
  /\ at = "pop"
  /\ IF pool = 0
     THEN NextRequest /\ UNCHANGED pool
     ELSE pool' = pool - 1 /\ at' = "clearHeader" /\ UNCHANGED request
  /\ UNCHANGED << idLength, header, body, sending, delivered, overrun >>

StartSend ==
  sending' = [sending EXCEPT ![request.client] =
                Append(@, [req |-> request, header |-> Unread, reused |-> FALSE])]

(* Slip: the send is started before the buffers are filled. *)
SendFirst ==
  /\ at = "clearHeader"
  /\ StartSend
  /\ at' = "clearBody"
  /\ UNCHANGED << idLength, request, pool, header, body, delivered, overrun >>

(* The sends of the client that have not been read lose their contents.    *)
ClearHeader ==
  /\ at = "clearHeader"
  /\ header' = [header EXCEPT ![request.client] = Zero]
  /\ sending' = [sending EXCEPT ![request.client] =
                   [k \in DOMAIN @ |-> [@[k] EXCEPT !.reused = TRUE]]]
  /\ at' = "clearBody"
  /\ UNCHANGED << idLength, request, pool, body, delivered, overrun >>

ClearBody ==
  /\ at = "clearBody"
  /\ body' = [body EXCEPT ![request.client] = Zero]
  /\ at' = "fillHeader"
  /\ UNCHANGED << idLength, request, pool, header, sending, delivered, overrun >>

FillHeader ==
  /\ at = "fillHeader"
  /\ header' = [header EXCEPT ![request.client] = request]
  /\ at' = "fillBody"
  /\ UNCHANGED << idLength, request, pool, body, sending, delivered, overrun >>

(* memcpy of size bytes, whatever the size of the buffer; what follows an  *)
(* overrun is not defined.                                                 *)
FillBody ==
  /\ at = "fillBody"
  /\ body' = [body EXCEPT ![request.client] = request]
  /\ overrun' = (Size(request) > BufferSize)
  /\ at' = IF overrun' THEN "ended" ELSE "send"
  /\ UNCHANGED << idLength, request, pool, header, sending, delivered >>

MainSend ==
  /\ at = "send"
  /\ StartSend
  /\ NextRequest
  /\ UNCHANGED << idLength, pool, header, body, delivered, overrun >>

(* The system reads the buffers of the oldest send, in order.              *)
ReadHeader(c) ==
  /\ sending[c] # << >> /\ Head(sending[c]).header = Unread
  /\ sending' = [sending EXCEPT ![c][1].header = header[c]]
  /\ UNCHANGED << idLength, at, request, pool, header, body, delivered, overrun >>

(* The send completes, and a worker gives its context back. *)
ReadBody(c) ==
  /\ sending[c] # << >> /\ Head(sending[c]).header # Unread
  /\ LET s == Head(sending[c]) IN
       delivered' = [delivered EXCEPT ![c] =
         [req |-> s.req, header |-> s.header, body |-> body[c], reused |-> s.reused]]
  /\ sending' = [sending EXCEPT ![c] = Tail(@)]
  /\ pool' = pool + 1
  /\ UNCHANGED << idLength, at, request, header, body, overrun >>

MainStep ==
  MainPop \/ ClearHeader \/ ClearBody \/ FillHeader \/ FillBody \/ MainSend

Next ==
  /\ ~overrun
  /\ MainStep \/ \E c \in Clients : ReadHeader(c) \/ ReadBody(c)

Spec == Init /\ [][Next]_vars
-----------------------------------------------------------------------------
(* What the server makes of a message: the size and the type of the header *)
(* and the fields of the table, each aligned as it is wide.                *)
NetToHost(bytes) == bytes[4] + 256 * bytes[3] + 256^2 * bytes[2] + 256^3 * bytes[1]

ReadsAs(m, r) ==
  LET h == HeaderBytes(m.header)
      b == IF m.body = Zero THEN << >> ELSE SubSeq(BodyBytes[idLength][m.body], 1, Size(m.req))
  IN  /\ NetToHost(SubSeq(h, 5, 8)) = Size(r)
      /\ NetToHost(SubSeq(h, 9, 12)) = ContentsType(r)
      /\ Has(b, PlayerId) /\ StringAt(b, GetPointer(b, PlayerId)) = IdOf(r, idLength)
      /\ IsSave(r) =>
           /\ GetField(b, 6, 4) = ScoreOf(r)   /\ Place(b, 6) % 4 = 0
           /\ GetField(b, 8, 8) = LastUpdate   /\ Place(b, 8) % 8 = 0

(* A request whose buffers main did not touch again before they were read  *)
(* reaches the server as main built it, header, size, type and every field *)
(* (Protocol.h 13-32 and 37-58, Client.cpp 119).                           *)
WireCarriesWhatMainBuilt ==
  \A c \in Clients : LET m == delivered[c] IN
    m # Nothing /\ ~m.reused => ReadsAs(m, m.req)

(* Even if main did, nothing older than the request is sent in its place:  *)
(* each part is zeros, the request itself or a later one of the client     *)
(* (main.cpp 52-56, 74-78).                                                *)
NothingOldIsSent ==
  \A c \in Clients : LET m == delivered[c] IN
    m # Nothing =>
      \A part \in {m.header, m.body} :
        part = Zero \/ (part.client = c /\ part.n >= m.req.n)

(* The longest id that leaves room for the rest of a save request. *)
LongestId == BufferSize - 45

(* A request is larger than the body buffer only if the id, with the       *)
(* number of the client, has more than LongestId characters (Protocol.h    *)
(* 31, 57).                                                                *)
OverrunsOnlyOnLongIds ==
  overrun <=> (at = "ended" /\ idLength + 1 > LongestId)

=============================================================================
