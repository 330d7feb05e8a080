----------------------------- MODULE FlatBuffer -----------------------------
(***************************************************************************)
(* The bytes of a message body: what FlatBufferBuilder writes for a table  *)
(* (library/flatbuffers/flatbuffer_builder.h), what the accessors of a     *)
(* table read back (table.h), and the four tables of the protocol          *)
(* (RANKING_PROTOCOL_generated.h).                                         *)
(*                                                                         *)
(* The builder fills its memory downwards: data is what has been written,  *)
(* the lowest address first, and an offset counts from the far end of it.  *)
(* A body is read as memory of a given size: positions count from 0, and   *)
(* what was not written is 0.                                              *)
(***************************************************************************)
EXTENDS Integers, Sequences, FiniteSetsExt

(* What an int of 32 bits holds, and so at most the size of a buffer.      *)
MaxInt == 2147483647
Int32  == -MaxInt - 1 .. MaxInt

Zeros(n) == [k \in 1 .. n |-> 0]

(* An integer as n bytes, the lowest first; an int of the model has four,  *)
(* and the further ones are its sign.                                      *)
LittleEndian(x, n) ==
  [k \in 1 .. n |-> IF k <= 4 THEN (x \div 256^(k - 1)) % 256 ELSE IF x < 0 THEN 255 ELSE 0]

(* htonl() of a value copied to memory. *)
BigEndian(x) == [k \in 1 .. 4 |-> (x \div 256^(4 - k)) % 256]
-----------------------------------------------------------------------------
(***************************************************************************)
(* FlatBufferBuilder                                                       *)
(***************************************************************************)

(* last is the offset that the last call returned. *)
NewBuilder == [data |-> << >>, minalign |-> 1, fields |-> {}, last |-> 0]

(* Slip: a size that is aligned already is padded by a whole unit. *)
PaddingBytesWhole(size, n) == n - (size % n)

(* PaddingBytes(size, alignment) *)
PaddingBytes(size, n) == (-size) % n

(* Slip: the bytes that follow are not counted in. *)
FillAligned(b, len, n) ==
  [b EXCEPT !.data = Zeros(PaddingBytes(Len(@), n)) \o @, !.minalign = Max({@, n})]

(* Padding such that, len bytes on, the size is a multiple of n. *)
PreAlign(b, len, n) ==
  [b EXCEPT !.data = Zeros(PaddingBytes(Len(@) + len, n)) \o @, !.minalign = Max({@, n})]

Align(b, n) == PreAlign(b, 0, n)

PushElement(b, x, n) ==
  LET a == Align(b, n)
  IN  [a EXCEPT !.data = LittleEndian(x, n) \o @, !.last = Len(a.data) + n]

(* Slip: the length counts the 0 behind the characters.                    *)
CreateStringWith0(b, chars) ==
  LET a == PreAlign(b, Len(chars) + 1, 4)
  IN  PushElement([a EXCEPT !.data = chars \o << 0 >> \o @], Len(chars) + 1, 4)

(* The characters, the 0 behind them, and the length in front.             *)
CreateString(b, chars) ==
  LET a == PreAlign(b, Len(chars) + 1, 4)
  IN  PushElement([a EXCEPT !.data = chars \o << 0 >> \o @], Len(chars), 4)

(* A value equal to the default is not written. *)
AddElement(b, field, x, n) ==
  IF x = 0 THEN b
  ELSE LET a == PushElement(b, x, n)
       IN  [a EXCEPT !.fields = @ \cup {[id |-> field, off |-> a.last]}]

(* The distance from the place of the offset, once written, to off. *)
ReferTo(b, off) == Len(Align(b, 4).data) - off + 4

AddOffset(b, field, off) == AddElement(Align(b, 4), field, ReferTo(b, off), 4)

(* The place of the offset to the vtable, then the vtable in front of it:  *)
(* its size, the size of the table, and where each field is, 0 for none.   *)
EndTable(b, start) ==
  LET a      == PushElement(b, 0, 4)
      vtsize == Max({4} \cup {f.id + 2 : f \in a.fields})
      Entry(id) ==
        IF id = 0 THEN vtsize ELSE
        IF id = 2 THEN a.last - start ELSE
        Max({0} \cup {a.last - f.off : f \in {g \in a.fields : g.id = id}})
      vtable == [k \in 1 .. vtsize |->
                   LittleEndian(Entry(2 * ((k - 1) \div 2)), 2)[((k - 1) % 2) + 1]]
  IN  [a EXCEPT !.data   = vtable \o LittleEndian(vtsize, 4) \o SubSeq(@, 5, Len(@)),
                !.fields = {}]

(* The root offset, in front of everything and aligned as the widest field *)
(* is.                                                                     *)
Finish(b, root) ==
  LET a == PreAlign(b, 4, b.minalign)
  IN  PushElement(Align(a, 4), ReferTo(a, root), 4).data
-----------------------------------------------------------------------------
(***************************************************************************)
(* The tables                                                              *)
(***************************************************************************)
PlayerId == 4       (* VT_PLAYER_ID, the first field of each table         *)

CreateREQUEST_SAVE_SCORE(id, score, lastUpdate) ==
  LET s == CreateString(NewBuilder, id)
      a == AddElement(s, 8, lastUpdate, 8)
      b == AddElement(a, 6, score, 4)
      t == EndTable(AddOffset(b, PlayerId, s.last), Len(s.data))
  IN  Finish(t, t.last)

CreateREQUEST_PLAYER_RANKING(id) ==
  LET s == CreateString(NewBuilder, id)
      t == EndTable(AddOffset(s, PlayerId, s.last), Len(s.data))
  IN  Finish(t, t.last)

CreateRESPONSE_SAVE_SCORE(id, feedback) ==
  LET s == CreateString(NewBuilder, id)
      a == AddOffset(s, PlayerId, s.last)
      t == EndTable(AddElement(a, 6, feedback, 1), Len(s.data))
  IN  Finish(t, t.last)

CreateRESPONSE_PLAYER_RANKING(id, score, ranking, inRanking, feedback) ==
  LET s == CreateString(NewBuilder, id)
      a == AddElement(s, 8, ranking, 4)
      b == AddElement(a, 6, score, 4)
      c == AddOffset(b, PlayerId, s.last)
      d == AddElement(c, 12, feedback, 1)
      t == EndTable(AddElement(d, 10, inRanking, 1), Len(s.data))
  IN  Finish(t, t.last)

(* MessageContent *)
REQUEST_SAVE_SCORE      == 1
RESPONSE_SAVE_SCORE     == 2
REQUEST_PLAYER_RANKING  == 3
RESPONSE_PLAYER_RANKING == 4

(* MessageHeader(0, htonl(size), htonl(type)), as it is copied to memory. *)
HeaderSize == 12
MessageHeader(size, type) == Zeros(4) \o BigEndian(size) \o BigEndian(type)
-----------------------------------------------------------------------------
(***************************************************************************)
(* Reading a table                                                         *)
(***************************************************************************)
ByteAt(m, p) == IF p < Len(m) THEN m[p + 1] ELSE 0

Signed(byte) == IF byte < 128 THEN byte ELSE byte - 256

(* ReadScalar of 1, 2 or 4 bytes, or of the lower four of 8.               *)
ReadScalar(m, p, n) ==
  CASE n = 1 -> ByteAt(m, p)
    [] n = 2 -> ByteAt(m, p) + 256 * ByteAt(m, p + 1)
    [] n > 2 -> ByteAt(m, p) + 256 * ByteAt(m, p + 1) + 256^2 * ByteAt(m, p + 2)
                + 256^3 * Signed(ByteAt(m, p + 3))

GetRoot(m) == ReadScalar(m, 0, 4)

GetVTable(m) == GetRoot(m) - ReadScalar(m, GetRoot(m), 4)

(* 0 for a field that the table does not have. *)
GetOptionalFieldOffset(m, field) ==
  IF field < ReadScalar(m, GetVTable(m), 2) THEN ReadScalar(m, GetVTable(m) + field, 2) ELSE 0

Place(m, field) == GetRoot(m) + GetOptionalFieldOffset(m, field)

GetField(m, field, n) ==
  IF GetOptionalFieldOffset(m, field) = 0 THEN 0 ELSE ReadScalar(m, Place(m, field), n)

Has(m, field) == GetOptionalFieldOffset(m, field) # 0

GetPointer(m, field) == Place(m, field) + ReadScalar(m, Place(m, field), 4)

(* player_id()->str() of a table that has one. *)
StringAt(m, p) == [k \in 1 .. ReadScalar(m, p, 4) |-> ByteAt(m, p + 3 + k)]

(* The reads of a field stay inside the memory, of the given size. *)
Inside(p, n, size) == 0 <= p /\ p <= size - n

TableInside(m, size) ==
  Inside(GetRoot(m), 4, size) /\ Inside(GetVTable(m), 2, size)

FieldInside(m, field, n, size) ==
  /\ field < ReadScalar(m, GetVTable(m), 2) => Inside(GetVTable(m) + field, 2, size)
  /\ Has(m, field) => Inside(Place(m, field), n, size)

StringInside(m, p, size) ==
  Inside(p, 4, size) /\ ReadScalar(m, p, 4) >= 0 /\ Inside(p + 4, ReadScalar(m, p, 4), size)

=============================================================================
