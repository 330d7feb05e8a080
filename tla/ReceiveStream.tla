---------------------------- MODULE ReceiveStream ----------------------------
(***************************************************************************)
(* The receiving side of one connection.  A server answers with a header   *)
(* and a body per response, TCP carries their bytes as one stream, and     *)
(* each WSARecv of Client::ReceiveReady takes what has arrived: at least   *)
(* one byte, at most what the header buffer and the body buffer hold, the  *)
(* header buffer first.  Network::Work takes what it finds there for one   *)
(* response, whatever the number of bytes, and posts the next receive.     *)
(*                                                                         *)
(*   posted --> completed --> rearm --> posted                             *)
(*                    \--> deaf        (an unknown type: no next receive)  *)
(***************************************************************************)
EXTENDS FlatBuffer, Functions, FiniteSets

CONSTANTS
  BufferSize,    (* BUFFER_SIZE                                            *)
  Responses      (* what the server sends in turn, its answers to the      *)
                 (* requests for saves and rankings                        *)

Ids == Seq(0 .. 255)

SaveResponses ==
  [type : {RESPONSE_SAVE_SCORE}, id : Ids, feedback : {0, 1}]
RankingResponses ==
  [type : {RESPONSE_PLAYER_RANKING}, id : Ids, score : Int32, ranking : Int32, inRanking : {0, 1}]

ASSUME ReceiveAssumption ==
  BufferSize \in 0 .. MaxInt /\ Responses \in Seq(SaveResponses \cup RankingResponses)

BodyOf(r) ==
  IF r.type = RESPONSE_SAVE_SCORE
  THEN CreateRESPONSE_SAVE_SCORE(r.id, r.feedback)
  ELSE CreateRESPONSE_PLAYER_RANKING(r.id, r.score, r.ranking, r.inRanking, 1)

BytesOf(r) == MessageHeader(Len(BodyOf(r)), r.type) \o BodyOf(r)

Room == HeaderSize + BufferSize

VARIABLES
  sent,      (* how many of the responses the server has sent              *)
  stream,    (* the bytes of them                                          *)
  ends,      (* where each of them ends in the stream                      *)
  taken,     (* the bytes of the stream that receives have taken           *)
  memory,    (* the header buffer and, behind it, the body buffer          *)
  at,        (* where the receive is                                       *)
  handled,   (* the responses Work has read                                *)
  crashed,   (* Work has used a null pointer, or read outside the buffers  *)
  aligned,   (* history: every receive has ended with a response           *)
  whole      (* history: every receive has taken exactly one response      *)

vars == << sent, stream, ends, taken, memory, at, handled, crashed, aligned, whole >>
server == << sent, stream, ends >>

(* What Work reads outside of the buffers. *)
Garbage == [type |-> 0]

TypeOK ==
  /\ sent \in 0 .. Len(Responses)
  /\ stream \in Seq(0 .. 255) /\ ends \in [0 .. sent -> Nat]
  /\ taken \in 0 .. Len(stream)
  /\ memory \in Seq(0 .. 255) /\ Len(memory) = Room
  /\ at \in {"posted", "completed", "rearm", "deaf"}
  /\ Len(handled) <= taken
  /\ crashed \in BOOLEAN /\ aligned \in BOOLEAN /\ whole \in BOOLEAN

Init ==
  /\ sent = 0 /\ stream = << >> /\ ends = [k \in {0} |-> 0] /\ taken = 0
  /\ memory = Zeros(Room) /\ at = "posted"
  /\ handled = << >> /\ crashed = FALSE
  /\ aligned = TRUE /\ whole = TRUE

ServerSends ==
  /\ sent < Len(Responses)
  /\ sent' = sent + 1
  /\ stream' = stream \o BytesOf(Responses[sent'])
  /\ ends' = [k \in 0 .. sent' |-> IF k = sent' THEN Len(stream') ELSE ends[k]]
  /\ UNCHANGED << taken, memory, at, handled, crashed, aligned, whole >>

(* Slip: the body buffer is posted as longer than it is.                   *)
ReceiveBeyond(n) ==
  /\ at = "posted"
  /\ memory' = SubSeq(stream, taken + 1, taken + n) \o SubSeq(memory, n + 1, Room)
  /\ taken' = taken + n
  /\ at' = "completed"
  /\ UNCHANGED << server, handled, crashed, aligned, whole >>

(* The receive completes with the next n bytes. *)
Receive(n) ==
  /\ at = "posted"
  /\ n <= Room
  /\ memory' = SubSeq(stream, taken + 1, taken + n) \o SubSeq(memory, n + 1, Room)
  /\ taken' = taken + n
  /\ at' = "completed"
  /\ aligned' = (aligned /\ taken' \in Range(ends))
  /\ whole' = (whole /\ taken' = Min({e \in Range(ends) : e > taken}))
  /\ UNCHANGED << server, handled, crashed >>
-----------------------------------------------------------------------------
(***************************************************************************)
(* Network::Work, case OP_RECV                                             *)
(***************************************************************************)
Header == SubSeq(memory, 1, HeaderSize)
Body   == SubSeq(memory, HeaderSize + 1, Room)

(* Slip: contents_type is not turned into the order of the host.           *)
MessageTypeRaw == Header[9]

(* ntohl() of contents_type, cast to an enum of one byte. *)
MessageType == Header[12]

Known == MessageType \in {RESPONSE_SAVE_SCORE, RESPONSE_PLAYER_RANKING}

(* The fields Work reads of a message of a type, with their widths. *)
Fields == IF MessageType = RESPONSE_SAVE_SCORE
          THEN {<< PlayerId, 4 >>, << 6, 1 >>}
          ELSE {<< PlayerId, 4 >>, << 6, 4 >>, << 8, 4 >>, << 10, 1 >>}

ReadsInside ==
  /\ TableInside(Body, BufferSize)
  /\ \A f \in Fields : FieldInside(Body, f[1], f[2], BufferSize)
  /\ Has(Body, PlayerId) => StringInside(Body, GetPointer(Body, PlayerId), BufferSize)

(* A flag is a byte that is not 0. *)
Truth(byte) == IF byte = 0 THEN 0 ELSE 1

Read ==
  LET id == StringAt(Body, GetPointer(Body, PlayerId))
  IN  IF MessageType = RESPONSE_SAVE_SCORE
      THEN [type |-> MessageType, id |-> id, feedback |-> Truth(GetField(Body, 6, 1))]
      ELSE [type |-> MessageType, id |-> id, score |-> GetField(Body, 6, 4),
            ranking |-> GetField(Body, 8, 4), inRanking |-> Truth(GetField(Body, 10, 1))]

(* The message is read if it stays inside the buffers and has a player_id; *)
(* outside of them, what is read there is not known.                       *)
Handle ==
  /\ at = "completed" /\ Known
  /\ \/ /\ ReadsInside /\ Has(Body, PlayerId)
        /\ handled' = Append(handled, Read)
        /\ at' = "rearm" /\ UNCHANGED crashed
     \/ /\ ~ReadsInside
        /\ handled' = Append(handled, Garbage)
        /\ at' = "rearm" /\ UNCHANGED crashed
     \/ /\ ~ReadsInside \/ ~Has(Body, PlayerId)
        /\ crashed' = TRUE
        /\ UNCHANGED << handled, at >>
  /\ UNCHANGED << server, taken, memory, aligned, whole >>

(* The context is dropped, and nothing posts a receive for the client. *)
IgnoreUnknown ==
  /\ at = "completed" /\ ~Known
  /\ at' = "deaf"
  /\ UNCHANGED << server, taken, memory, handled, crashed, aligned, whole >>

(* Slip: the buffers are posted as they are. *)
ReceiveReadyDirty ==
  /\ at = "rearm"
  /\ at' = "posted"
  /\ UNCHANGED << server, taken, memory, handled, crashed, aligned, whole >>

(* The buffers are cleared and posted again. *)
ReceiveReady ==
  /\ at = "rearm"
  /\ memory' = Zeros(Room)
  /\ at' = "posted"
  /\ UNCHANGED << server, taken, handled, crashed, aligned, whole >>

Worker == Handle \/ IgnoreUnknown \/ ReceiveReady

Next ==
  /\ ~crashed
  /\ \/ ServerSends
     \/ \E n \in 1 .. Len(stream) - taken : Receive(n)
     \/ Worker

Spec == Init /\ [][Next]_vars
-----------------------------------------------------------------------------
(* As long as every receive takes exactly one response, the responses are  *)
(* handled as the server sent them, in order, field by field, and none is  *)
(* left out (Network.cpp 147-209, Client.cpp 79-89).                       *)
HandledAsSent ==
  whole =>
    /\ ~crashed /\ \A k \in DOMAIN handled : handled[k] = Responses[k]
    /\ taken = ends[Len(handled) + IF at = "completed" THEN 1 ELSE 0]

(* If TCP delivers several responses at once, those behind the first are   *)
(* lost, but what is handled has been sent, in that order, and the client  *)
(* neither crashes nor goes deaf, as long as receives end with a response  *)
(* (bytesTransferred is never looked at, Network.cpp 149-161).             *)
LostButNotMistaken ==
  aligned =>
    /\ ~crashed /\ at # "deaf"
    /\ \A k \in DOMAIN handled : \E n \in 1 .. sent : handled[k] = Responses[n]
    /\ \A k, l \in DOMAIN handled : k < l =>
         \E m, n \in 1 .. sent : m < n /\ handled[k] = Responses[m] /\ handled[l] = Responses[n]

(* However the stream is cut, no response is handled more often than it    *)
(* was sent, out of what an earlier receive left in the buffers (the       *)
(* memset of Client.cpp 79-80).  It takes ids that do not themselves       *)
(* contain the bytes of a response.                                        *)
NothingHandledTwice ==
  \A r \in Range(Responses) :
    Cardinality({k \in DOMAIN handled : handled[k] = r})
      <= Cardinality({n \in 1 .. sent : Responses[n] = r})

=============================================================================
