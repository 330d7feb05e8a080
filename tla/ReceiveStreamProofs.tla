------------------------- MODULE ReceiveStreamProofs -------------------------
(***************************************************************************)
(* Proofs about ReceiveStream, for any responses: how a builder comes to   *)
(* their bytes and what Work reads of them, whatever stands behind them in *)
(* the buffers, and what becomes of the stream however it is cut.          *)
(***************************************************************************)
EXTENDS ReceiveStream, Lemmas

(***************************************************************************)
(* The tables of the responses                                             *)
(***************************************************************************)

(* A builder that writes the fields of a table behind a string of S bytes: *)
(* it has written at most c bytes of them.                                 *)
Writing(b, S, c) ==
  /\ Built(b, Len(b.data), 4, b.fields, b.last) /\ b.data \in Bytes
  /\ S \in Nat /\ c \in Nat /\ S <= Len(b.data) /\ Len(b.data) <= S + c
  /\ \A f \in b.fields : f.id \in FieldIds /\ f.off \in S + 1 .. Len(b.data)
  /\ \A f, g \in b.fields : f.id = g.id => f = g

(* The value of a field of n bytes: it is written unless it is 0.          *)
Written(b, id, x, n) == \E f \in b.fields : f.id = id /\ f.off >= n /\ Word(b.data, f.off, x, n)
Absent(b, id)        == \A f \in b.fields : f.id # id
Value(b, id, x, n)   == IF x = 0 THEN Absent(b, id) ELSE Written(b, id, x, n)

(* A field that refers to the string.                                      *)
Reference(b, S) == \E f \in b.fields : f.id = PlayerId /\ f.off >= S + 4 /\ Refers(b.data, f.off, S)

(* The builder goes on from b to d: it keeps the bytes and the fields, and *)
(* adds at most one field of an id.                                        *)
Continues(d, b, field) ==
  /\ Keeps(d.data, b.data)
  /\ b.fields \subseteq d.fields
  /\ \A f \in d.fields : f \in b.fields \/ f.id = field

(* What was there before stays.                                            *)
LEMMA ValueStays ==
  ASSUME NEW b, NEW d, NEW S, NEW c, Writing(b, S, c), NEW field, Continues(d, b, field),
         NEW id, id # field, NEW x, NEW n \in {1, 4}, Value(b, id, x, n)
  PROVE  Value(d, id, x, n)
<1>1. CASE x = 0
  BY <1>1 DEF Value, Absent, Continues
<1>2. CASE x # 0
  <2>1. PICK f \in b.fields : f.id = id /\ f.off >= n /\ Word(b.data, f.off, x, n)
    BY <1>2 DEF Value, Written
  <2>2. Len(b.data) \in Nat /\ f.off \in Nat /\ f.off <= Len(b.data)
    BY LongIsSeq DEF Writing, Built, IsLong
  <2>3. Word(d.data, f.off, x, n)
    <3>1. n \in Nat /\ n <= f.off /\ Keeps(d.data, b.data)
      BY <2>1, <2>2 DEF Continues
    <3> QED
      BY <2>1, <2>2, <3>1, WordStays
  <2> QED
    BY <1>2, <2>1, <2>3 DEF Value, Written, Continues
<1> QED
  BY <1>1, <1>2

LEMMA ReferenceStays ==
  ASSUME NEW b, NEW d, NEW S, NEW c, Writing(b, S, c), NEW field, Continues(d, b, field),
         Reference(b, S)
  PROVE  Reference(d, S)
<1>1. PICK f \in b.fields : f.id = PlayerId /\ f.off >= S + 4 /\ Refers(b.data, f.off, S)
  BY DEF Reference
<1>2. Len(b.data) \in Nat /\ f.off \in Nat /\ f.off <= Len(b.data) /\ S \in Nat
  BY LongIsSeq DEF Writing, Built, IsLong
<1>3. Refers(d.data, f.off, S)
  <2>1. 4 \in Nat /\ 4 <= f.off /\ Keeps(d.data, b.data)
    BY <1>1, <1>2 DEF Continues
  <2> QED
    BY <1>1, <1>2, <2>1, WordStays DEF Refers
<1> QED
  BY <1>1, <1>3 DEF Reference, Continues

(* Going on from b to d and from d to e.                                   *)
LEMMA KeepsThrough ==
  ASSUME NEW b, NEW d, NEW e, NEW S, NEW c, NEW p, NEW q,
         Writing(b, S, c), Writing(d, S, p), Writing(e, S, q), Keeps(d.data, b.data), Keeps(e.data, d.data)
  PROVE  Keeps(e.data, b.data)
BY KeepsOn DEF Writing, Built

(* Alignment leaves the fields alone.                                      *)
LEMMA AlignWrites ==
  ASSUME NEW b, NEW S, NEW c, Writing(b, S, c)
  PROVE  /\ Writing(Align(b, 4), S, c + 3) /\ Len(Align(b, 4).data) % 4 = 0
         /\ Keeps(Align(b, 4).data, b.data) /\ Align(b, 4).fields = b.fields
<1> DEFINE a == Align(b, 4)
           size == Len(b.data)
           sum == size + ((-(size + 0)) % 4)
<1>0. size \in Nat /\ sum \in Nat /\ sum % 4 = 0 /\ size <= sum /\ sum <= size + 3
  BY LongIsSeq DEF Writing, Built, IsLong
<1>1. Built(a, sum, 4, b.fields, b.last) /\ Keeps(a.data, b.data)
  <2>1. /\ Built(PreAlign(b, 0, 4), sum, IF 4 >= 4 THEN 4 ELSE 4, b.fields, b.last)
        /\ Keeps(PreAlign(b, 0, 4).data, b.data)
    <3>1. Built(b, size, 4, b.fields, b.last) /\ 4 \in Nat /\ 0 \in Nat /\ 4 \in {1, 4, 8}
      BY DEF Writing
    <3> HIDE DEF size
    <3> QED
      BY ONLY <3>1, PreAlignSize DEF sum
  <2> QED
    BY <2>1 DEF Align
<1> HIDE DEF a, sum
<1>2. Len(a.data) = sum /\ a.fields = b.fields /\ a.last = b.last
  BY <1>1, LongIsSeq DEF Built
<1>3. Writing(a, S, c + 3)
  <2>1. S + 1 .. size \subseteq S + 1 .. sum /\ S \in Nat /\ c \in Nat
    BY <1>0 DEF Writing
  <2>2. S <= sum /\ sum <= S + (c + 3) /\ c + 3 \in Nat
    BY <1>0, <2>1 DEF Writing
  <2>3. \A f \in a.fields : f.id \in FieldIds /\ f.off \in S + 1 .. sum
    BY <1>2, <2>1 DEF Writing
  <2>4. \A f, g \in a.fields : f.id = g.id => f = g
    BY <1>2 DEF Writing
  <2>5. a.data \in Bytes
    <3>1. 0 \in Nat /\ 4 \in {1, 4, 8}
      OBVIOUS
    <3> QED
      BY <3>1, PreAlignBytes DEF Writing, Align, a
  <2> HIDE DEF size
  <2> QED
    BY <1>1, <1>2, <2>1, <2>2, <2>3, <2>4, <2>5 DEF Writing
<1> QED
  BY <1>0, <1>1, <1>2, <1>3 DEF a

(* Where an element of n bytes ends.                                       *)
LEMMA ElementEnd ==
  ASSUME NEW size \in Nat, NEW n \in {1, 4}, NEW sum, sum = size + ((-size) % n) + n
  PROVE  /\ sum \in Nat /\ size + n <= sum /\ sum <= size + 7
         /\ n = 4 /\ size % 4 = 0 => sum = size + 4
<1>1. CASE n = 1
  BY <1>1
<1>2. CASE n = 4
  BY <1>2
<1> QED
  BY <1>1, <1>2

(* A field is added.                                                       *)
LEMMA AddElementWrites ==
  ASSUME NEW b, NEW S, NEW c, Writing(b, S, c), NEW field \in FieldIds, Absent(b, field),
         NEW x \in Int, NEW n \in {1, 4}
  PROVE  /\ Writing(AddElement(b, field, x, n), S, c + 7)
         /\ Continues(AddElement(b, field, x, n), b, field)
         /\ Value(AddElement(b, field, x, n), field, x, n)
<1> DEFINE a == AddElement(b, field, x, n)
           size == Len(b.data)
<1>0. size \in Nat /\ n \in Nat /\ n >= 1 /\ n <= 4 /\ c \in Nat /\ S \in Nat
  BY LongIsSeq DEF Writing, Built, IsLong
<1>1. CASE x = 0
  <2>1. a = b
    BY <1>1 DEF AddElement
  <2>2. Writing(b, S, c + 7)
    BY <1>0 DEF Writing
  <2>3. Keeps(b.data, b.data)
    BY <1>0 DEF Keeps
  <2> QED
    BY <1>1, <2>1, <2>2, <2>3 DEF Continues, Value
<1>2. CASE x # 0
  <2> DEFINE new == [id |-> field, off |-> size + ((-size) % n) + n]
             F   == b.fields \cup {new}
  <2>0. PICK sum : sum = size + ((-size) % n) + n
    OBVIOUS
  <2>1. sum \in Nat /\ size + n <= sum /\ sum <= size + 7
    BY ONLY <1>0, <2>0, ElementEnd
  <2>2. Built(a, sum, 4, F, sum) /\ Keeps(a.data, b.data) /\ Word(a.data, sum, x, n)
    <3>1. Built(b, size, 4, b.fields, b.last) /\ 4 \in Nat /\ n \in {1, 4, 8}
      BY DEF Writing
    <3>2. new = [id |-> field, off |-> sum]
      BY <2>0
    <3> HIDE DEF size, new
    <3>3. CASE n = 1
      <4>1. sum = size + ((-size) % 1) + 1 /\ 1 \in {1, 4, 8}
        BY <2>0, <3>3
      <4>2. /\ Built(AddElement(b, field, x, 1), sum, IF 4 >= 1 THEN 4 ELSE 1,
                     b.fields \cup {[id |-> field, off |-> sum]}, sum)
            /\ Keeps(AddElement(b, field, x, 1).data, b.data)
            /\ Word(AddElement(b, field, x, 1).data, sum, x, 1)
        BY ONLY <1>2, <3>1, <4>1, AddElementSize
      <4> QED
        BY <3>2, <3>3, <4>2
    <3>4. CASE n = 4
      <4>1. sum = size + ((-size) % 4) + 4 /\ 4 \in {1, 4, 8}
        BY <2>0, <3>4
      <4>2. Built(AddElement(b, field, x, 4), sum, 4, b.fields \cup {[id |-> field, off |-> sum]}, sum)
        <5>1. Built(AddElement(b, field, x, 4), sum, IF 4 >= 4 THEN 4 ELSE 4,
                    b.fields \cup {[id |-> field, off |-> sum]}, sum)
          BY ONLY <1>2, <3>1, <4>1, AddElementSize
        <5> HIDE DEF a
        <5> QED
          BY ONLY <5>1
      <4>3. /\ Keeps(AddElement(b, field, x, 4).data, b.data)
            /\ Word(AddElement(b, field, x, 4).data, sum, x, 4)
        BY ONLY <1>2, <3>1, <4>1, AddElementSize
      <4> QED
        BY <3>2, <3>4, <4>2, <4>3
    <3> QED
      BY <3>3, <3>4
  <2>3. new.id = field /\ new.off = sum
    BY <2>0
  <2> HIDE DEF a, new
  <2>4. Len(a.data) = sum /\ a.fields = F /\ a.last = sum
    BY <2>2, LongIsSeq DEF Built
  <2>5. Writing(a, S, c + 7)
    <3>1. S + 1 .. size \subseteq S + 1 .. sum /\ S <= size /\ size <= S + c
      BY <1>0, <2>1 DEF Writing
    <3>2. S <= sum /\ sum <= S + (c + 7) /\ c + 7 \in Nat /\ sum \in S + 1 .. sum
      BY <1>0, <2>1, <3>1
    <3>3. \A f \in F : f.id \in FieldIds /\ f.off \in S + 1 .. sum
      BY <2>3, <3>1, <3>2 DEF Writing
    <3>4. \A f, g \in F : f.id = g.id => f = g
      BY <2>3 DEF Writing, Absent
    <3>5. a.data \in Bytes
      <4>1. 4 \in Nat
        OBVIOUS
      <4> QED
        BY <4>1, AddElementBytes DEF Writing, a
    <3> HIDE DEF size, F
    <3> QED
      BY <1>0, <2>2, <2>4, <3>2, <3>3, <3>4, <3>5 DEF Writing
  <2>6. Continues(a, b, field)
    BY <2>2, <2>3, <2>4 DEF Continues
  <2>7. Value(a, field, x, n)
    <3>1. sum >= n
      BY <1>0, <2>1
    <3> QED
      BY <1>2, <2>2, <2>3, <2>4, <3>1 DEF Value, Written
  <2> QED
    BY <2>5, <2>6, <2>7 DEF a
<1> QED
  BY <1>1, <1>2

(* So is the reference to the string.                                      *)
LEMMA AddOffsetWrites ==
  ASSUME NEW b, NEW S, NEW c, Writing(b, S, c), Absent(b, PlayerId)
  PROVE  /\ Writing(AddOffset(b, PlayerId, S), S, c + 10)
         /\ Continues(AddOffset(b, PlayerId, S), b, PlayerId)
         /\ Reference(AddOffset(b, PlayerId, S), S)
<1> DEFINE a == Align(b, 4)
           x == ReferTo(b, S)
           d == AddElement(a, PlayerId, x, 4)
           size == Len(a.data)
<1>1. Writing(a, S, c + 3) /\ size % 4 = 0 /\ Keeps(a.data, b.data) /\ a.fields = b.fields
  BY AlignWrites
<1>2. size \in Nat /\ S \in Nat /\ S <= size /\ c \in Nat /\ x = size - S + 4
  <2>1. size \in Nat
    BY <1>1, LongIsSeq DEF Writing, Built, IsLong
  <2> HIDE DEF a
  <2> QED
    BY <1>1, <2>1 DEF Writing, ReferTo, a
<1>3. Absent(a, PlayerId) /\ PlayerId \in FieldIds
  BY <1>1 DEF Absent, PlayerId, FieldIds
<1> HIDE DEF a, x
<1>4. Writing(d, S, c + 3 + 7) /\ Continues(d, a, PlayerId)
  <2>1. x \in Int
    BY <1>2
  <2> QED
    BY <1>1, <1>3, <2>1, AddElementWrites
<1>5. Writing(d, S, c + 10)
  <2>1. c + 3 + 7 = c + 10
    BY <1>2
  <2> HIDE DEF d
  <2> QED
    BY <1>4, <2>1
<1>6. Continues(d, b, PlayerId)
  <2> HIDE DEF d
  <2>1. Keeps(d.data, b.data)
    BY <1>1, <1>4, KeepsThrough DEF Continues
  <2> QED
    BY <1>1, <1>4, <2>1 DEF Continues
<1>7. Reference(d, S)
  <2> DEFINE new == [id |-> PlayerId, off |-> size + ((-size) % 4) + 4]
  <2>0. PICK sum : sum = size + ((-size) % 4) + 4
    OBVIOUS
  <2>1. sum \in Nat /\ sum = size + 4 /\ sum >= S + 4 /\ x = sum - S /\ x # 0
    <3> HIDE DEF size
    <3> QED
      BY ONLY <1>1, <1>2, <2>0
  <2>2. new.id = PlayerId /\ new.off = sum
    BY <2>0
  <2>3. Built(d, sum, 4, a.fields \cup {new}, sum) /\ Word(d.data, sum, x, 4)
    <3>1. Built(a, size, 4, a.fields, a.last) /\ 4 \in Nat /\ 4 \in {1, 4, 8}
      BY <1>1 DEF Writing
    <3>2. new = [id |-> PlayerId, off |-> sum]
      BY <2>0
    <3> HIDE DEF size, new
    <3>3. /\ Built(d, sum, IF 4 >= 4 THEN 4 ELSE 4, a.fields \cup {[id |-> PlayerId, off |-> sum]}, sum)
          /\ Word(d.data, sum, x, 4)
      BY ONLY <2>0, <2>1, <3>1, AddElementSize
    <3> QED
      BY <3>2, <3>3
  <2> HIDE DEF d, new, size
  <2>4. new \in d.fields
    BY <2>3 DEF Built
  <2> QED
    BY <2>1, <2>2, <2>3, <2>4 DEF Reference, Refers
<1> QED
  BY <1>5, <1>6, <1>7 DEF AddOffset, a, x

(* The message of a builder with its fields: the root offset, the vtable   *)
(* and the table, T bytes from the end, with what the builder wrote.       *)
Finished(m, b, T, vtsize) ==
  /\ IsLong(m, Len(m)) /\ m \in Bytes
  /\ T \in Nat /\ vtsize \in {6, 8, 10, 12, 14} /\ T + vtsize + 4 <= Len(m)
  /\ Len(b.data) + 4 <= T /\ T <= Len(b.data) + 7
  /\ Word(m, Len(m), Len(m) - T, 4) /\ Word(m, T, vtsize, 4) /\ Word(m, T + vtsize, vtsize, 2)
  /\ Keeps(m, b.data) /\ FieldsIn(m, b.fields, T + vtsize, T)
  /\ \A f \in b.fields : f.id + 2 <= vtsize
  /\ OthersEmpty(m, b.fields, T + vtsize, vtsize)

(* The vtable of a table is as long as its last field needs.               *)
LEMMA LastField ==
  ASSUME NEW b, NEW S, NEW c, Writing(b, S, c), b.fields # {}
  PROVE  \E vtsize \in {6, 8, 10, 12, 14} : Fit(b.fields, vtsize, Len(b.data))
<1>0. Len(b.data) \in Nat /\ S \in Nat
  BY LongIsSeq DEF Writing, Built, IsLong
<1>1. \A f \in b.fields : f.id \in FieldIds /\ f.off \in 1 .. Len(b.data)
  BY <1>0 DEF Writing
<1>2. PICK last \in b.fields : \A f \in b.fields : f.id <= last.id
  <2> DEFINE Top(k) == \E f \in b.fields : f.id = k
  <2>1. \A f \in b.fields : f.id = 4 \/ f.id = 6 \/ f.id = 8 \/ f.id = 10 \/ f.id = 12
    BY <1>1 DEF FieldIds
  <2>2. CASE Top(12)
    BY <2>1, <2>2
  <2>3. CASE ~Top(12) /\ Top(10)
    BY <2>1, <2>3
  <2>4. CASE ~Top(12) /\ ~Top(10) /\ Top(8)
    BY <2>1, <2>4
  <2>5. CASE ~Top(12) /\ ~Top(10) /\ ~Top(8) /\ Top(6)
    BY <2>1, <2>5
  <2>6. CASE ~Top(12) /\ ~Top(10) /\ ~Top(8) /\ ~Top(6)
    BY <2>1, <2>6
  <2> QED
    BY <2>2, <2>3, <2>4, <2>5, <2>6
<1>3. last.id + 2 \in {6, 8, 10, 12, 14}
  BY <1>1 DEF FieldIds
<1>4. \A f \in b.fields : f.id + 2 <= last.id + 2
  BY <1>1, <1>2 DEF FieldIds
<1>5. Fit(b.fields, last.id + 2, Len(b.data))
  BY <1>1, <1>4 DEF Fit, Writing
<1> QED
  BY <1>3, <1>5

(* A table and its message come of a builder with fields.                  *)
LEMMA TableWritten ==
  ASSUME NEW b, NEW S, NEW c, Writing(b, S, c), b.fields # {}, NEW start \in Int,
         NEW t, t = EndTable(b, start), NEW m, m = Finish(t, t.last)
  PROVE  \E T, vtsize : Finished(m, b, T, vtsize)
<1>0. PICK size : size = Len(b.data)
  OBVIOUS
<1>1. PICK vtsize \in {6, 8, 10, 12, 14} : Fit(b.fields, vtsize, size)
  BY <1>0, LastField
<1>2. PICK T, sum : T = size + ((-size) % 4) + 4 /\ sum = T + vtsize
  OBVIOUS
<1>3. /\ size \in Nat /\ T \in Nat /\ size + 4 <= T /\ T <= size + 7 /\ sum \in Nat /\ vtsize \in Nat
      /\ vtsize >= 4
  <2>1. size \in Nat
    BY <1>0, LongIsSeq DEF Writing, Built, IsLong
  <2> QED
    BY <1>2, <2>1
<1>4. /\ Built(t, sum, 4, {}, T) /\ Keeps(t.data, b.data)
      /\ Word(t.data, T, vtsize, 4) /\ Word(t.data, sum, vtsize, 2)
      /\ FieldsIn(t.data, b.fields, sum, T)
      /\ OthersEmpty(t.data, b.fields, sum, vtsize)
  <2>1. Built(b, size, 4, b.fields, b.last) /\ 4 \in Nat /\ 4 >= 4
    BY <1>0 DEF Writing
  <2>2. PICK e : e = EndTable(b, start)
    OBVIOUS
  <2>3. Built(e, sum, 4, {}, T) /\ Keeps(e.data, b.data) /\ Word(e.data, T, vtsize, 4)
    BY ONLY <1>1, <1>2, <1>3, <2>1, <2>2, EndTableSize
  <2>4. Word(e.data, sum, vtsize, 2) /\ FieldsIn(e.data, b.fields, sum, T)
    BY ONLY <1>1, <1>2, <1>3, <2>1, <2>2, EndTableSize
  <2>5. OthersEmpty(e.data, b.fields, sum, vtsize)
    BY ONLY <1>1, <1>2, <1>3, <2>1, <2>2, EndTableSize
  <2> QED
    BY <2>2, <2>3, <2>4, <2>5
<1>5. t.last = T /\ Len(t.data) = sum
  BY <1>4, LongIsSeq DEF Built
<1>6. PICK N, first : Begins(sum, 4, T, N, first)
  BY <1>2, <1>3 DEF Begins
<1>7. N \in Nat /\ sum + 4 <= N /\ first = N - T
  BY <1>2, <1>3, <1>6 DEF Begins
<1>8. IsLong(m, N) /\ Keeps(m, t.data) /\ Word(m, N, first, 4)
  <2>1. 4 \in {4, 8}
    OBVIOUS
  <2>2. m = Finish(t, T)
    BY <1>5
  <2> QED
    BY ONLY <1>4, <1>6, <2>1, <2>2, FinishSize
<1>9. Len(m) = N
  BY <1>8, LongIsSeq
<1>10. ASSUME NEW off \in Nat, off <= sum, NEW n \in Nat, n <= off, NEW x, Word(t.data, off, x, n)
       PROVE  Word(m, off, x, n)
  BY <1>3, <1>5, <1>8, <1>10, WordStays
<1>11. Keeps(m, b.data)
  BY <1>4, <1>8, KeepsOn DEF Writing, Built
<1>12. Word(m, T, vtsize, 4) /\ Word(m, sum, vtsize, 2)
  <2>1. T <= sum /\ 4 <= T /\ 2 <= sum /\ sum <= sum /\ 4 \in Nat /\ 2 \in Nat
    BY <1>2, <1>3
  <2> QED
    BY <1>3, <1>4, <1>10, <2>1
<1>13. \A f \in b.fields : f.id + 2 <= vtsize /\ f.id \in FieldIds
  BY <1>1 DEF Fit
<1>14. ASSUME NEW id \in FieldIds, id + 2 <= vtsize, NEW x, Word(t.data, sum - id, x, 2)
       PROVE  Word(m, sum - id, x, 2)
  <2>1. sum - id \in Nat /\ sum - id <= sum /\ 2 <= sum - id /\ 2 \in Nat
    BY <1>2, <1>3, <1>14 DEF FieldIds
  <2> QED
    BY <1>10, <1>14, <2>1
<1>15. FieldsIn(m, b.fields, sum, T)
  BY <1>4, <1>13, <1>14 DEF FieldsIn
<1>16. OthersEmpty(m, b.fields, sum, vtsize)
  BY <1>4, <1>14 DEF OthersEmpty
<1>17. m \in Bytes
  <2>1. t.data \in Bytes
    BY <1>0, <1>1, <1>3, EndTableBytes DEF Writing
  <2>2. m = Finish(t, T) /\ 4 \in Nat
    BY <1>5
  <2> QED
    BY <1>3, <1>4, <2>1, <2>2, FinishBytes
<1>18. Finished(m, b, T, vtsize)
  <2>1. /\ IsLong(m, Len(m)) /\ T \in Nat /\ vtsize \in {6, 8, 10, 12, 14} /\ T + vtsize + 4 <= Len(m)
        /\ Len(b.data) + 4 <= T /\ T <= Len(b.data) + 7
    BY <1>0, <1>1, <1>2, <1>3, <1>7, <1>8, <1>9
  <2>2. Word(m, Len(m), Len(m) - T, 4) /\ Word(m, T, vtsize, 4) /\ Word(m, T + vtsize, vtsize, 2)
    BY <1>2, <1>7, <1>8, <1>9, <1>12
  <2>3. FieldsIn(m, b.fields, T + vtsize, T) /\ OthersEmpty(m, b.fields, T + vtsize, vtsize)
    BY <1>2, <1>15, <1>16
  <2> QED
    BY <1>11, <1>13, <1>17, <2>1, <2>2, <2>3 DEF Finished
<1> QED
  BY <1>18

(* A byte is read as it was written.                                       *)
LEMMA ReadByte ==
  ASSUME NEW m, NEW N, IsLong(m, N), NEW off \in Nat, 1 <= off, off <= N,
         NEW x \in 0 .. 255, Word(m, off, x, 1)
  PROVE  ReadScalar(m, N - off, 1) = x
<1>1. N \in Nat
  BY DEF IsLong
<1>2. ByteAt(m, N - off) = LittleEndian(x, 1)[1]
  <2>1. 1 \in Nat /\ 1 \in 1 .. 1 /\ N - off = N - off + (1 - 1)
    BY <1>1
  <2> QED
    BY <2>1, WordByte
<1>3. LittleEndian(x, 1)[1] = x
  <2>1. 1 - 1 = 0 /\ x \div 1 = x /\ x % 256 = x
    BY SMT
  <2>2. LittleEndian(x, 1)[1] = (x \div 256^(1 - 1)) % 256
    BY DEF LittleEndian
  <2> QED
    BY <2>1, <2>2, Powers
<1>4. ReadScalar(m, N - off, 1) = ByteAt(m, N - off)
  BY DEF ReadScalar
<1> QED
  BY <1>2, <1>3, <1>4

(* A field is read as x, inside of the message.                            *)
Yields(m, id, x, n) == GetField(m, id, n) = x /\ FieldInside(m, id, n, Len(m))

(* The message of a builder has its table where it is read.                *)
LEMMA FinishedTable ==
  ASSUME NEW m, NEW b, NEW T, NEW vtsize, Finished(m, b, T, vtsize), Len(m) <= MaxInt
  PROVE  TableAt(m, Len(m), T, vtsize) /\ TableInside(m, Len(m))
<1>1. /\ IsLong(m, Len(m)) /\ Len(m) \in Nat /\ T \in Nat /\ vtsize \in {6, 8, 10, 12, 14}
      /\ T + vtsize + 4 <= Len(m) /\ Len(b.data) + 4 <= T
  BY DEF Finished, IsLong
<1>2. 4 <= T
  <2>1. Len(b.data) \in Nat
    BY DEF Finished
  <2> QED
    BY <1>1, <2>1
<1>3. vtsize \in 4 .. 14 /\ T + vtsize <= Len(m) /\ 4 <= Len(m)
  BY <1>1, <1>2
<1>4. TableAt(m, Len(m), T, vtsize)
  BY <1>1, <1>2, <1>3 DEF TableAt, Finished
<1>5. GetRoot(m) = Len(m) - T /\ GetVTable(m) = Len(m) - (T + vtsize)
  BY <1>4, TableRead
<1>6. Inside(GetRoot(m), 4, Len(m)) /\ Inside(GetVTable(m), 2, Len(m))
  BY <1>1, <1>2, <1>5 DEF Inside
<1> QED
  BY <1>4, <1>6 DEF TableInside

(* A field that the builder has written is read.                           *)
LEMMA WrittenRead ==
  ASSUME NEW b, NEW S, NEW c, Writing(b, S, c), c <= 80,
         NEW m, NEW T, NEW vtsize, Finished(m, b, T, vtsize), Len(m) <= MaxInt,
         NEW id \in FieldIds, NEW x \in Int32, NEW n \in {1, 4}, n = 1 => x \in 0 .. 255,
         Written(b, id, x, n)
  PROVE  Yields(m, id, x, n)
<1>0. /\ IsLong(m, Len(m)) /\ Len(m) \in Nat /\ T \in Nat /\ vtsize \in {6, 8, 10, 12, 14}
      /\ T + vtsize + 4 <= Len(m) /\ Len(b.data) + 4 <= T /\ T <= Len(b.data) + 7
      /\ Keeps(m, b.data) /\ FieldsIn(m, b.fields, T + vtsize, T)
  BY DEF Finished, IsLong
<1>1. Len(b.data) \in Nat /\ S \in Nat /\ c \in Nat /\ Len(b.data) <= S + c
  BY LongIsSeq DEF Writing, Built, IsLong
<1>2. TableAt(m, Len(m), T, vtsize)
  BY FinishedTable
<1>3. PICK f \in b.fields : f.id = id /\ f.off >= n /\ Word(b.data, f.off, x, n)
  BY DEF Written
<1>4. PICK off : off = f.off
  OBVIOUS
<1>5. off \in S + 1 .. Len(b.data)
  BY <1>4 DEF Writing
<1>6. /\ off \in Nat /\ off < T /\ T <= off + 100 /\ off <= Len(m) /\ off <= Len(b.data)
      /\ n <= off /\ n \in Nat /\ 1 <= off
  <2>1. PICK size, N : size = Len(b.data) /\ N = Len(m)
    OBVIOUS
  <2>2. off \in S + 1 .. size /\ size \in Nat /\ S \in Nat /\ size <= S + 80 /\ off >= n
    BY <1>1, <1>3, <1>4, <1>5, <2>1
  <2>3. T \in Nat /\ size + 4 <= T /\ T <= size + 7 /\ N \in Nat /\ T <= N
    BY <1>0, <2>1
  <2>4. /\ off \in Nat /\ off < T /\ T <= off + 100 /\ off <= N /\ off <= size
        /\ n <= off /\ n \in Nat /\ 1 <= off
    BY ONLY n \in {1, 4}, <2>2, <2>3
  <2> QED
    BY <2>1, <2>4
<1>7. id + 2 <= vtsize
  BY <1>3 DEF Finished
<1>8. FieldIn(m, T, vtsize, id, off)
  <2>1. Word(m, T + vtsize - f.id, T - f.off, 2)
    <3>1. PICK v : v = T + vtsize
      OBVIOUS
    <3>2. FieldsIn(m, b.fields, v, T)
      BY <1>0, <3>1
    <3>3. Word(m, v - f.id, T - f.off, 2)
      BY ONLY <3>2, f \in b.fields, FieldAt
    <3>4. PICK e, g : e = v - f.id /\ g = T - f.off
      OBVIOUS
    <3>5. Word(m, e, g, 2)
      BY <3>3, <3>4, Zenon
    <3>6. f.id \in Nat /\ T \in Nat /\ vtsize \in Nat
      BY <1>0, <1>3 DEF FieldIds
    <3>7. e = T + vtsize - f.id
      BY <3>1, <3>4, <3>6
    <3> QED
      BY <3>4, <3>5, <3>7, Zenon
  <2>2. f.id = id /\ f.off = off
    BY <1>3, <1>4
  <2> QED
    BY <2>1, <2>2, Zenon DEF FieldIn
<1>9. Has(m, id) /\ Place(m, id) = Len(m) - off /\ Inside(GetVTable(m) + id, 2, Len(m))
  BY <1>2, <1>6, <1>7, <1>8, FieldRead
<1>10. Word(m, off, x, n)
  BY <1>0, <1>1, <1>3, <1>4, <1>6, WordStays
<1>11. ReadScalar(m, Len(m) - off, n) = x
  <2>1. CASE n = 1
    BY <1>0, <1>6, <1>10, <2>1, ReadByte
  <2>2. CASE n = 4
    BY <1>0, <1>6, <1>10, <2>2, ReadLong
  <2> QED
    BY <2>1, <2>2
<1>12. GetField(m, id, n) = x
  BY <1>9, <1>11 DEF GetField, Has
<1>13. Inside(Place(m, id), n, Len(m))
  BY <1>0, <1>6, <1>9 DEF Inside
<1> QED
  BY <1>9, <1>12, <1>13 DEF Yields, FieldInside

(* A field that it has not written is read as 0.                           *)
LEMMA AbsentRead ==
  ASSUME NEW b, NEW m, NEW T, NEW vtsize, Finished(m, b, T, vtsize), Len(m) <= MaxInt,
         NEW id \in FieldIds, NEW n \in {1, 4}, Absent(b, id)
  PROVE  Yields(m, id, 0, n) /\ ~Has(m, id)
<1>1. TableAt(m, Len(m), T, vtsize)
  BY FinishedTable
<1>2. ReadScalar(m, GetVTable(m), 2) = vtsize /\ vtsize \in {6, 8, 10, 12, 14}
  BY <1>1, TableRead DEF Finished
<1>3. CASE id + 2 <= vtsize
  <2>1. Word(m, T + vtsize - id, 0, 2)
    <3>1. PICK v : v = T + vtsize
      OBVIOUS
    <3>2. OthersEmpty(m, b.fields, v, vtsize) /\ \A f \in b.fields : f.id # id
      BY <3>1 DEF Finished, Absent
    <3>3. Word(m, v - id, 0, 2)
      BY <1>3, <3>2, EmptyAt
    <3>4. PICK e : e = v - id
      OBVIOUS
    <3>5. Word(m, e, 0, 2)
      BY <3>3, <3>4, Zenon
    <3>6. id \in Nat /\ T \in Nat /\ vtsize \in Nat
      BY DEF Finished, FieldIds
    <3>7. e = T + vtsize - id
      BY <3>1, <3>4, <3>6
    <3> QED
      BY <3>5, <3>7, Zenon
  <2>2. 0 \in Nat /\ 0 <= 65535
    OBVIOUS
  <2>3. GetOptionalFieldOffset(m, id) = 0 /\ Inside(GetVTable(m) + id, 2, Len(m))
    BY <1>1, <1>3, <2>1, <2>2, EntryRead
  <2> QED
    BY <2>3 DEF Yields, GetField, FieldInside, Has
<1>4. CASE ~(id + 2 <= vtsize)
  <2>1. ~(id < vtsize)
    BY <1>2, <1>4 DEF FieldIds
  <2>2. GetOptionalFieldOffset(m, id) = 0
    BY <1>2, <2>1 DEF GetOptionalFieldOffset
  <2> QED
    BY <1>2, <2>1, <2>2 DEF Yields, GetField, FieldInside, Has
<1> QED
  BY <1>3, <1>4

(* The string is read through its reference.                               *)
LEMMA ReferenceRead ==
  ASSUME NEW b, NEW S, NEW c, Writing(b, S, c), c <= 80,
         NEW m, NEW T, NEW vtsize, Finished(m, b, T, vtsize), Len(m) <= MaxInt,
         Reference(b, S), NEW chars, NEW L, IsLong(chars, L), L + 4 < S, TextAt(b.data, S, chars, L)
  PROVE  /\ Has(m, PlayerId) /\ StringAt(m, GetPointer(m, PlayerId)) = chars
         /\ FieldInside(m, PlayerId, 4, Len(m)) /\ StringInside(m, GetPointer(m, PlayerId), Len(m))
<1>0. /\ IsLong(m, Len(m)) /\ Len(m) \in Nat /\ T \in Nat /\ vtsize \in {6, 8, 10, 12, 14}
      /\ T + vtsize + 4 <= Len(m) /\ Len(b.data) + 4 <= T /\ T <= Len(b.data) + 7
      /\ Keeps(m, b.data) /\ FieldsIn(m, b.fields, T + vtsize, T)
  BY DEF Finished, IsLong
<1>1. /\ Len(b.data) \in Nat /\ S \in Nat /\ c \in Nat /\ Len(b.data) <= S + c /\ S <= Len(b.data)
      /\ L \in Nat
  BY LongIsSeq DEF Writing, Built, IsLong
<1>2. TableAt(m, Len(m), T, vtsize)
  BY FinishedTable
<1>3. PICK f \in b.fields : f.id = PlayerId /\ f.off >= S + 4 /\ Refers(b.data, f.off, S)
  BY DEF Reference
<1>4. PICK off : off = f.off
  OBVIOUS
<1>5. off \in S + 1 .. Len(b.data)
  BY <1>4 DEF Writing
<1>6. /\ off \in Nat /\ off < T /\ T <= off + 100 /\ off <= Len(m) /\ off <= Len(b.data)
      /\ 4 <= off /\ S <= off /\ S <= Len(m) /\ 4 \in Nat
  <2>1. PICK size, N : size = Len(b.data) /\ N = Len(m)
    OBVIOUS
  <2>2. off \in S + 1 .. size /\ size \in Nat /\ S \in Nat /\ size <= S + 80 /\ off >= S + 4
    BY <1>1, <1>3, <1>4, <1>5, <2>1
  <2>3. T \in Nat /\ size + 4 <= T /\ T <= size + 7 /\ N \in Nat /\ T <= N
    BY <1>0, <2>1
  <2>4. /\ off \in Nat /\ off < T /\ T <= off + 100 /\ off <= N /\ off <= size
        /\ 4 <= off /\ S <= off /\ S <= N /\ 4 \in Nat
    BY ONLY <2>2, <2>3
  <2> QED
    BY <2>1, <2>4
<1>7. FieldIn(m, T, vtsize, PlayerId, off)
  <2>1. PICK v : v = T + vtsize
    OBVIOUS
  <2>2. FieldsIn(m, b.fields, v, T)
    BY <1>0, <2>1
  <2>3. Word(m, v - f.id, T - f.off, 2)
    BY ONLY <2>2, f \in b.fields, FieldAt
  <2>4. PICK e, g : e = v - f.id /\ g = T - f.off
    OBVIOUS
  <2>5. Word(m, e, g, 2)
    BY <2>3, <2>4, Zenon
  <2>6. PlayerId \in Nat /\ T \in Nat /\ vtsize \in Nat
    BY <1>0 DEF PlayerId
  <2>7. e = T + vtsize - PlayerId /\ g = T - off
    BY <1>3, <1>4, <2>1, <2>4, <2>6
  <2> QED
    BY <2>5, <2>7, Zenon DEF FieldIn
<1>8. Refers(m, off, S)
  <2>1. Word(b.data, off, off - S, 4)
    BY <1>3, <1>4 DEF Refers
  <2>2. Word(m, off, off - S, 4)
    BY <1>0, <1>1, <1>6, <2>1, WordStays
  <2> QED
    BY <2>2 DEF Refers
<1>9. TextAt(m, S, chars, L)
  BY <1>0, <1>1, TextStays
<1>10. /\ Has(m, PlayerId) /\ StringAt(m, GetPointer(m, PlayerId)) = chars
       /\ GetPointer(m, PlayerId) = Len(m) - S /\ ReadScalar(m, Len(m) - S, 4) = L
  <2>1. 6 <= vtsize
    BY <1>0
  <2> QED
    BY <1>1, <1>2, <1>6, <1>7, <1>8, <1>9, <2>1, ReferredRead
<1>11. FieldInside(m, PlayerId, 4, Len(m))
  <2>1. PlayerId \in FieldIds /\ PlayerId + 2 <= vtsize
    BY <1>0 DEF PlayerId, FieldIds
  <2>2. Place(m, PlayerId) = Len(m) - off /\ Inside(GetVTable(m) + PlayerId, 2, Len(m))
    BY <1>2, <1>6, <1>7, <2>1, FieldRead
  <2>3. Inside(Place(m, PlayerId), 4, Len(m))
    BY <1>0, <1>6, <2>2 DEF Inside
  <2> QED
    BY <2>2, <2>3 DEF FieldInside
<1>12. StringInside(m, GetPointer(m, PlayerId), Len(m))
  <2>1. PICK N : N = Len(m)
    OBVIOUS
  <2>2. Inside(N - S, 4, N) /\ Inside(N - S + 4, L, N) /\ L >= 0
    BY <1>0, <1>1, <1>6, <2>1 DEF Inside
  <2> QED
    BY <1>10, <2>1, <2>2 DEF StringInside
<1> QED
  BY <1>10, <1>11, <1>12

(* A field with a value is read.                                           *)
LEMMA ValueRead ==
  ASSUME NEW b, NEW S, NEW c, Writing(b, S, c), c <= 80,
         NEW m, NEW T, NEW vtsize, Finished(m, b, T, vtsize), Len(m) <= MaxInt,
         NEW id \in FieldIds, NEW x \in Int32, NEW n \in {1, 4}, n = 1 => x \in 0 .. 255,
         Value(b, id, x, n)
  PROVE  Yields(m, id, x, n)
<1>1. CASE x = 0
  BY <1>1, AbsentRead DEF Value
<1>2. CASE x # 0
  BY <1>2, WrittenRead DEF Value
<1> QED
  BY <1>1, <1>2

(* A string begins a message.                                              *)
LEMMA StringWrites ==
  ASSUME NEW id \in Bytes, NEW L, IsLong(id, L), NEW S, S = StringSize(L),
         NEW s, s = CreateString(NewBuilder, id)
  PROVE  /\ Writing(s, S, 0) /\ s.fields = {} /\ s.last = S /\ Len(s.data) = S
         /\ L \in Nat /\ S \in Nat /\ L + 4 < S /\ TextAt(s.data, S, id, L)
<1>1. L \in Nat /\ S \in Nat /\ L + 4 < S /\ S = L + 5 + ((-(L + 1)) % 4)
  BY DEF IsLong, StringSize
<1>2. /\ Built(s, S, 4, {}, S) /\ Word(s.data, S, L, 4)
      /\ \A k \in 1 .. L : FromEnd(s.data, S - 3 - k) = id[k]
  BY <1>1, CreateStringSize
<1>3. s.fields = {} /\ s.last = S /\ Len(s.data) = S
  BY <1>2, LongIsSeq DEF Built
<1>4. Writing(s, S, 0)
  BY <1>1, <1>2, <1>3, CreateStringBytes DEF Writing
<1> QED
  BY <1>1, <1>2, <1>3, <1>4 DEF TextAt

(* The fields of a response, with their widths, and what is read of it:    *)
(* the reads stay within N bytes and give what the server has written.     *)
FieldsOf(type) ==
  IF type = RESPONSE_SAVE_SCORE
  THEN {<< PlayerId, 4 >>, << 6, 1 >>}
  ELSE {<< PlayerId, 4 >>, << 6, 4 >>, << 8, 4 >>, << 10, 1 >>}

Tells(m, r, N) ==
  /\ TableInside(m, N) /\ \A f \in FieldsOf(r.type) : FieldInside(m, f[1], f[2], N)
  /\ Has(m, PlayerId) /\ StringInside(m, GetPointer(m, PlayerId), N)
  /\ StringAt(m, GetPointer(m, PlayerId)) = r.id
  /\ r.type = RESPONSE_SAVE_SCORE => GetField(m, 6, 1) = r.feedback
  /\ r.type # RESPONSE_SAVE_SCORE =>
       /\ GetField(m, 6, 4) = r.score /\ GetField(m, 8, 4) = r.ranking
       /\ GetField(m, 10, 1) = r.inRanking

(* A flag is a byte and an int.                                            *)
LEMMA FlagIs == \A x \in {0, 1} : x \in Int32 /\ x \in 0 .. 255
BY MaxIntIs, NatIsInt32

(* The builder of a response, with all of its fields.                      *)
SaveResponseFields(b, S, c, r) ==
  /\ Writing(b, S, c) /\ c <= 80 /\ Reference(b, S) /\ Value(b, 6, r.feedback, 1)

RankingResponseFields(b, S, c, r) ==
  /\ Writing(b, S, c) /\ c <= 80 /\ Reference(b, S)
  /\ Value(b, 6, r.score, 4) /\ Value(b, 8, r.ranking, 4) /\ Value(b, 10, r.inRanking, 1)

LEMMA SaveResponseWritten ==
  ASSUME NEW r \in SaveResponses, NEW L, L = Len(r.id), NEW S, S = StringSize(L)
  PROVE  \E b, c : \E start \in Int : \E t :
           /\ SaveResponseFields(b, S, c, r) /\ TextAt(b.data, S, r.id, L)
           /\ t = EndTable(b, start) /\ BodyOf(r) = Finish(t, t.last)
<1> DEFINE s == CreateString(NewBuilder, r.id)
           a == AddOffset(s, PlayerId, s.last)
           b == AddElement(a, 6, r.feedback, 1)
           t == EndTable(b, Len(s.data))
<1>1. r.id \in Bytes /\ r.type = RESPONSE_SAVE_SCORE /\ r.feedback \in Int
  BY DEF SaveResponses, Ids, Bytes
<1>2. IsLong(r.id, L)
  BY <1>1, SeqIsLong DEF Bytes
<1>3. BodyOf(r) = Finish(t, t.last)
  BY <1>1 DEF BodyOf, CreateRESPONSE_SAVE_SCORE
<1>4. /\ Writing(s, S, 0) /\ s.fields = {} /\ s.last = S /\ Len(s.data) = S
      /\ L \in Nat /\ S \in Nat /\ L + 4 < S /\ TextAt(s.data, S, r.id, L)
  BY <1>1, <1>2, StringWrites
<1> HIDE DEF s
<1>5. Absent(s, PlayerId)
  BY <1>4 DEF Absent
<1>6. Writing(a, S, 10) /\ Continues(a, s, PlayerId) /\ Reference(a, S)
  <2>1. Writing(a, S, 0 + 10) /\ Continues(a, s, PlayerId) /\ Reference(a, S)
    BY <1>4, <1>5, AddOffsetWrites
  <2> HIDE DEF a
  <2> QED
    BY <2>1
<1> HIDE DEF a
<1>7. Absent(a, 6) /\ 6 \in FieldIds
  BY <1>4, <1>6 DEF Absent, Continues, PlayerId, FieldIds
<1>8. Writing(b, S, 17) /\ Continues(b, a, 6) /\ Value(b, 6, r.feedback, 1)
  <2>1. Writing(b, S, 10 + 7) /\ Continues(b, a, 6) /\ Value(b, 6, r.feedback, 1)
    BY <1>1, <1>6, <1>7, AddElementWrites
  <2> HIDE DEF b
  <2> QED
    BY <2>1
<1> HIDE DEF b
<1>9. Reference(b, S)
  BY <1>6, <1>8, ReferenceStays
<1>10. Keeps(b.data, s.data)
  BY <1>4, <1>6, <1>8, KeepsThrough DEF Continues
<1>11. TextAt(b.data, S, r.id, L)
  BY <1>4, <1>10, TextStays
<1>12. SaveResponseFields(b, S, 17, r)
  BY <1>8, <1>9 DEF SaveResponseFields
<1> HIDE DEF t
<1> QED
  BY <1>3, <1>11, <1>12 DEF t

LEMMA RankingResponseWritten ==
  ASSUME NEW r \in RankingResponses, NEW L, L = Len(r.id), NEW S, S = StringSize(L)
  PROVE  \E b, c : \E start \in Int : \E t :
           /\ RankingResponseFields(b, S, c, r) /\ TextAt(b.data, S, r.id, L)
           /\ t = EndTable(b, start) /\ BodyOf(r) = Finish(t, t.last)
<1> DEFINE s == CreateString(NewBuilder, r.id)
           a == AddElement(s, 8, r.ranking, 4)
           d == AddElement(a, 6, r.score, 4)
           e == AddOffset(d, PlayerId, s.last)
           g == AddElement(e, 12, 1, 1)
           b == AddElement(g, 10, r.inRanking, 1)
           t == EndTable(b, Len(s.data))
<1>1. r.id \in Bytes /\ r.type # RESPONSE_SAVE_SCORE
  BY DEF RankingResponses, Ids, Bytes, RESPONSE_SAVE_SCORE, RESPONSE_PLAYER_RANKING
<1>15. r.score \in Int /\ r.ranking \in Int /\ r.inRanking \in Int
  BY MaxIntIs DEF RankingResponses, Int32
<1>2. IsLong(r.id, L)
  BY <1>1, SeqIsLong DEF Bytes
<1>3. BodyOf(r) = Finish(t, t.last)
  BY <1>1 DEF BodyOf, CreateRESPONSE_PLAYER_RANKING
<1>4. /\ Writing(s, S, 0) /\ s.fields = {} /\ s.last = S /\ Len(s.data) = S
      /\ L \in Nat /\ S \in Nat /\ L + 4 < S /\ TextAt(s.data, S, r.id, L)
  BY <1>1, <1>2, StringWrites
<1> HIDE DEF s
<1>0. 8 \in FieldIds /\ 6 \in FieldIds /\ 12 \in FieldIds /\ 10 \in FieldIds /\ PlayerId = 4
  BY DEF FieldIds, PlayerId
<1>5. Writing(a, S, 7) /\ Continues(a, s, 8) /\ Value(a, 8, r.ranking, 4)
  <2>1. Absent(s, 8)
    BY <1>4 DEF Absent
  <2>2. Writing(a, S, 0 + 7) /\ Continues(a, s, 8) /\ Value(a, 8, r.ranking, 4)
    BY <1>0, <1>4, <1>15, <2>1, AddElementWrites
  <2> HIDE DEF a
  <2> QED
    BY <2>2
<1> HIDE DEF a
<1>6. Writing(d, S, 14) /\ Continues(d, a, 6) /\ Value(d, 6, r.score, 4)
  <2>1. Absent(a, 6)
    BY <1>4, <1>5 DEF Absent, Continues
  <2>2. Writing(d, S, 7 + 7) /\ Continues(d, a, 6) /\ Value(d, 6, r.score, 4)
    BY <1>0, <1>5, <1>15, <2>1, AddElementWrites
  <2> HIDE DEF d
  <2> QED
    BY <2>2
<1> HIDE DEF d
<1>7. Writing(e, S, 24) /\ Continues(e, d, PlayerId) /\ Reference(e, S)
  <2>1. Absent(d, PlayerId)
    BY <1>0, <1>4, <1>5, <1>6 DEF Absent, Continues
  <2>2. Writing(e, S, 14 + 10) /\ Continues(e, d, PlayerId) /\ Reference(e, S)
    BY <1>4, <1>6, <2>1, AddOffsetWrites
  <2> HIDE DEF e
  <2> QED
    BY <2>2
<1> HIDE DEF e
<1>8. Writing(g, S, 31) /\ Continues(g, e, 12)
  <2>1. Absent(e, 12)
    BY <1>0, <1>4, <1>5, <1>6, <1>7 DEF Absent, Continues
  <2>2. Writing(g, S, 24 + 7) /\ Continues(g, e, 12)
    BY <1>0, <1>7, <2>1, AddElementWrites
  <2> HIDE DEF g
  <2> QED
    BY <2>2
<1> HIDE DEF g
<1>9. Writing(b, S, 38) /\ Continues(b, g, 10) /\ Value(b, 10, r.inRanking, 1)
  <2>1. Absent(g, 10)
    BY <1>0, <1>4, <1>5, <1>6, <1>7, <1>8 DEF Absent, Continues
  <2>2. Writing(b, S, 31 + 7) /\ Continues(b, g, 10) /\ Value(b, 10, r.inRanking, 1)
    BY <1>0, <1>8, <1>15, <2>1, AddElementWrites
  <2> HIDE DEF b
  <2> QED
    BY <2>2
<1> HIDE DEF b
<1>10. Value(b, 8, r.ranking, 4)
  <2>1. Value(d, 8, r.ranking, 4)
    BY <1>5, <1>6, ValueStays
  <2>2. Value(e, 8, r.ranking, 4)
    BY <1>0, <1>6, <1>7, <2>1, ValueStays
  <2>3. Value(g, 8, r.ranking, 4)
    BY <1>7, <1>8, <2>2, ValueStays
  <2> QED
    BY <1>8, <1>9, <2>3, ValueStays
<1>11. Value(b, 6, r.score, 4)
  <2>1. Value(e, 6, r.score, 4)
    BY <1>0, <1>6, <1>7, ValueStays
  <2>2. Value(g, 6, r.score, 4)
    BY <1>7, <1>8, <2>1, ValueStays
  <2> QED
    BY <1>8, <1>9, <2>2, ValueStays
<1>12. Reference(b, S)
  <2>1. Reference(g, S)
    BY <1>7, <1>8, ReferenceStays
  <2> QED
    BY <1>8, <1>9, <2>1, ReferenceStays
<1>13. TextAt(b.data, S, r.id, L)
  <2>1. Keeps(d.data, s.data)
    BY <1>4, <1>5, <1>6, KeepsThrough DEF Continues
  <2>2. Keeps(e.data, s.data)
    BY <1>4, <1>6, <1>7, <2>1, KeepsThrough DEF Continues
  <2>3. Keeps(g.data, s.data)
    BY <1>4, <1>7, <1>8, <2>2, KeepsThrough DEF Continues
  <2>4. Keeps(b.data, s.data)
    BY <1>4, <1>8, <1>9, <2>3, KeepsThrough DEF Continues
  <2> QED
    BY <1>4, <2>4, TextStays
<1>14. RankingResponseFields(b, S, 38, r)
  BY <1>9, <1>10, <1>11, <1>12 DEF RankingResponseFields
<1> HIDE DEF t
<1> QED
  BY <1>3, <1>13, <1>14 DEF t

(* The body of a response tells what the server wanted to say.             *)
LEMMA ResponseRead ==
  ASSUME NEW r \in SaveResponses \cup RankingResponses,
         NEW m, m = BodyOf(r), Len(m) <= MaxInt
  PROVE  IsLong(m, Len(m)) /\ Tells(m, r, Len(m))
<1> DEFINE L == Len(r.id)
           S == StringSize(L)
<1>1. IsLong(r.id, L)
  BY SeqIsLong DEF SaveResponses, RankingResponses, Ids
<1>2. L + 4 < S
  <2>1. L \in Nat
    BY <1>1 DEF IsLong
  <2> HIDE DEF L
  <2> QED
    BY <2>1 DEF StringSize
<1>3. 6 \in FieldIds /\ 8 \in FieldIds /\ 10 \in FieldIds
  BY DEF FieldIds
<1>4. CASE r \in SaveResponses
  <2>1. PICK b, c : \E start \in Int : \E t :
           /\ SaveResponseFields(b, S, c, r) /\ TextAt(b.data, S, r.id, L)
           /\ t = EndTable(b, start) /\ BodyOf(r) = Finish(t, t.last)
    BY <1>4, SaveResponseWritten
  <2>2. Writing(b, S, c) /\ c <= 80 /\ Reference(b, S) /\ Value(b, 6, r.feedback, 1)
    BY <2>1 DEF SaveResponseFields
  <2>3. PICK T, vtsize : Finished(m, b, T, vtsize)
    BY <2>1, <2>2, TableWritten DEF Reference
  <2> HIDE DEF L, S
  <2>4. /\ Has(m, PlayerId) /\ StringAt(m, GetPointer(m, PlayerId)) = r.id
        /\ FieldInside(m, PlayerId, 4, Len(m)) /\ StringInside(m, GetPointer(m, PlayerId), Len(m))
    BY <1>1, <1>2, <2>1, <2>2, <2>3, ReferenceRead
  <2>5. Yields(m, 6, r.feedback, 1)
    <3>1. r.feedback \in Int32 /\ r.feedback \in 0 .. 255
      BY <1>4, FlagIs DEF SaveResponses
    <3> QED
      BY <1>3, <2>2, <2>3, <3>1, ValueRead
  <2>6. TableInside(m, Len(m)) /\ IsLong(m, Len(m))
    BY <2>3, FinishedTable DEF Finished
  <2>7. r.type = RESPONSE_SAVE_SCORE
    BY <1>4 DEF SaveResponses
  <2>8. \A f \in FieldsOf(r.type) : FieldInside(m, f[1], f[2], Len(m))
    BY <2>4, <2>5, <2>7 DEF FieldsOf, Yields
  <2> QED
    BY <2>4, <2>5, <2>6, <2>7, <2>8 DEF Tells, Yields
<1>5. CASE r \in RankingResponses
  <2>1. PICK b, c : \E start \in Int : \E t :
           /\ RankingResponseFields(b, S, c, r) /\ TextAt(b.data, S, r.id, L)
           /\ t = EndTable(b, start) /\ BodyOf(r) = Finish(t, t.last)
    BY <1>5, RankingResponseWritten
  <2>2. /\ Writing(b, S, c) /\ c <= 80 /\ Reference(b, S)
        /\ Value(b, 6, r.score, 4) /\ Value(b, 8, r.ranking, 4) /\ Value(b, 10, r.inRanking, 1)
    BY <2>1 DEF RankingResponseFields
  <2>3. PICK T, vtsize : Finished(m, b, T, vtsize)
    BY <2>1, <2>2, TableWritten DEF Reference
  <2> HIDE DEF L, S
  <2>4. /\ Has(m, PlayerId) /\ StringAt(m, GetPointer(m, PlayerId)) = r.id
        /\ FieldInside(m, PlayerId, 4, Len(m)) /\ StringInside(m, GetPointer(m, PlayerId), Len(m))
    BY <1>1, <1>2, <2>1, <2>2, <2>3, ReferenceRead
  <2>5. Yields(m, 6, r.score, 4)
    <3>1. r.score \in Int32
      BY <1>5 DEF RankingResponses
    <3> QED
      BY <1>3, <2>2, <2>3, <3>1, ValueRead
  <2>6. Yields(m, 8, r.ranking, 4)
    <3>1. r.ranking \in Int32
      BY <1>5 DEF RankingResponses
    <3> QED
      BY <1>3, <2>2, <2>3, <3>1, ValueRead
  <2>7. Yields(m, 10, r.inRanking, 1)
    <3>1. r.inRanking \in Int32 /\ r.inRanking \in 0 .. 255
      BY <1>5, FlagIs DEF RankingResponses
    <3> QED
      BY <1>3, <2>2, <2>3, <3>1, ValueRead
  <2>8. TableInside(m, Len(m)) /\ IsLong(m, Len(m))
    BY <2>3, FinishedTable DEF Finished
  <2>9. r.type # RESPONSE_SAVE_SCORE
    BY <1>5 DEF RankingResponses, RESPONSE_SAVE_SCORE, RESPONSE_PLAYER_RANKING
  <2>10. \A f \in FieldsOf(r.type) : FieldInside(m, f[1], f[2], Len(m))
    BY <2>4, <2>5, <2>6, <2>7, <2>9 DEF FieldsOf, Yields
  <2> QED
    BY <2>4, <2>5, <2>6, <2>7, <2>8, <2>9, <2>10 DEF Tells, Yields
<1> QED
  BY <1>4, <1>5

-----------------------------------------------------------------------------
(***************************************************************************)
(* A response in the buffers                                               *)
(***************************************************************************)

(* The body of a response is a sequence of bytes.                          *)
LEMMA BodyBytes ==
  ASSUME NEW r \in SaveResponses \cup RankingResponses
  PROVE  BodyOf(r) \in Bytes /\ Len(BodyOf(r)) \in Nat
<1>0. PICK L, S : L = Len(r.id) /\ S = StringSize(L)
  OBVIOUS
<1>1. BodyOf(r) \in Bytes
  <2>1. CASE r \in SaveResponses
    <3>1. PICK b, c : \E start \in Int : \E t :
             /\ SaveResponseFields(b, S, c, r) /\ TextAt(b.data, S, r.id, L)
             /\ t = EndTable(b, start) /\ BodyOf(r) = Finish(t, t.last)
      BY <1>0, <2>1, SaveResponseWritten
    <3>2. Writing(b, S, c) /\ b.fields # {}
      BY <3>1 DEF SaveResponseFields, Reference
    <3> QED
      BY <3>1, <3>2, TableWritten DEF Finished
  <2>2. CASE r \in RankingResponses
    <3>1. PICK b, c : \E start \in Int : \E t :
             /\ RankingResponseFields(b, S, c, r) /\ TextAt(b.data, S, r.id, L)
             /\ t = EndTable(b, start) /\ BodyOf(r) = Finish(t, t.last)
      BY <1>0, <2>2, RankingResponseWritten
    <3>2. Writing(b, S, c) /\ b.fields # {}
      BY <3>1 DEF RankingResponseFields, Reference
    <3> QED
      BY <3>1, <3>2, TableWritten DEF Finished
  <2> QED
    BY <2>1, <2>2
<1> QED
  BY <1>1 DEF Bytes

LEMMA BigEndianBytes ==
  ASSUME NEW x \in Int
  PROVE  BigEndian(x) \in Bytes /\ Len(BigEndian(x)) = 4 /\ BigEndian(x)[4] = x % 256
<1>1. /\ (x \div 1) % 256 \in 0 .. 255 /\ (x \div 256) % 256 \in 0 .. 255
      /\ (x \div 65536) % 256 \in 0 .. 255 /\ (x \div 16777216) % 256 \in 0 .. 255
  BY SMT
<1>2. ASSUME NEW k \in 1 .. 4
      PROVE  (x \div 256^(4 - k)) % 256 \in 0 .. 255
  <2>1. k = 1 \/ k = 2 \/ k = 3 \/ k = 4
    BY SMT
  <2>2. 4 - 1 = 3 /\ 4 - 2 = 2 /\ 4 - 3 = 1 /\ 4 - 4 = 0
    BY SMT
  <2> QED
    BY <1>1, <2>1, <2>2, Powers, SMT
<1>3. BigEndian(x) \in [1 .. 4 -> 0 .. 255]
  BY <1>2 DEF BigEndian
<1>4. BigEndian(x)[4] = x % 256
  <2>1. BigEndian(x)[4] = (x \div 256^(4 - 4)) % 256
    BY DEF BigEndian
  <2>2. 4 - 4 = 0 /\ x \div 1 = x
    BY SMT
  <2> QED
    BY <2>1, <2>2, Powers
<1>5. PICK e, n : e = BigEndian(x) /\ n = 4
  OBVIOUS
<1>6. e \in Seq(0 .. 255) /\ Len(e) = 4
  <2>1. e \in [1 .. n -> 0 .. 255] /\ n \in Nat
    BY <1>3, <1>5
  <2>2. e \in Seq(0 .. 255) /\ Len(e) = n
    BY <2>1
  <2> QED
    BY <1>5, <2>2
<1> QED
  BY <1>4, <1>5, <1>6 DEF Bytes

(* A response is its header, which ends with its type, and its body.       *)
LEMMA ResponseBytes ==
  ASSUME NEW r \in SaveResponses \cup RankingResponses
  PROVE  /\ BytesOf(r) \in Bytes /\ Len(BytesOf(r)) = 12 + Len(BodyOf(r))
         /\ Len(BodyOf(r)) \in Nat
         /\ BytesOf(r)[12] = r.type
         /\ \A k \in 1 .. Len(BodyOf(r)) : BytesOf(r)[12 + k] = BodyOf(r)[k]
<1>1. BodyOf(r) \in Bytes /\ Len(BodyOf(r)) \in Nat
  BY BodyBytes
<1>2. r.type \in {2, 4}
  BY DEF SaveResponses, RankingResponses, RESPONSE_SAVE_SCORE, RESPONSE_PLAYER_RANKING
<1>3. PICK x, t : x = BigEndian(Len(BodyOf(r))) /\ t = BigEndian(r.type)
  OBVIOUS
<1>4. x \in Bytes /\ Len(x) = 4
  BY <1>1, <1>3, BigEndianBytes
<1>5. t \in Bytes /\ Len(t) = 4 /\ t[4] = r.type
  <2>1. r.type \in Int /\ r.type % 256 = r.type
    BY <1>2
  <2> QED
    BY <1>3, <2>1, BigEndianBytes
<1>6. PICK z, body : z = Zeros(4) /\ body = BodyOf(r)
  OBVIOUS
<1>7. z \in Bytes /\ Len(z) = 4 /\ body \in Bytes /\ Len(body) \in Nat
  BY <1>1, <1>6 DEF Zeros, Bytes
<1>8. BytesOf(r) = z \o x \o t \o body
  BY <1>3, <1>6 DEF BytesOf, MessageHeader
<1>9. PICK front, head : front = z \o x /\ head = front \o t
  OBVIOUS
<1>10. front \in Bytes /\ Len(front) = 8
  <2>1. front \in Bytes /\ Len(front) = Len(z) + Len(x)
    BY <1>4, <1>7, <1>9, JoinedBytes
  <2> QED
    BY <1>4, <1>7, <2>1
<1>11. head \in Bytes /\ Len(head) = 12 /\ head[8 + 4] = t[4]
  <2>1. head \in Bytes /\ Len(head) = Len(front) + Len(t)
    BY <1>5, <1>9, <1>10, JoinedBytes
  <2>2. \A k \in 1 .. Len(t) : head[Len(front) + k] = t[k]
    BY <1>5, <1>9, <1>10, JoinedBytes
  <2> QED
    BY <1>5, <1>10, <2>1, <2>2
<1>12. PICK both : both = head \o body
  OBVIOUS
<1>13. /\ both \in Bytes /\ Len(both) = 12 + Len(body)
       /\ both[12] = head[12]
       /\ \A k \in 1 .. Len(body) : both[12 + k] = body[k]
  <2>1. both \in Bytes /\ Len(both) = Len(head) + Len(body)
    BY <1>7, <1>11, <1>12, JoinedBytes
  <2>2. \A k \in 1 .. Len(head) : both[k] = head[k]
    BY <1>7, <1>11, <1>12, JoinedBytes
  <2>3. \A k \in 1 .. Len(body) : both[Len(head) + k] = body[k]
    BY <1>7, <1>11, <1>12, JoinedBytes
  <2> QED
    BY <1>11, <2>1, <2>2, <2>3
<1> QED
  BY <1>1, <1>5, <1>6, <1>8, <1>9, <1>11, <1>12, <1>13

(* Two memories that agree on their first N bytes.                         *)
Agree(m, b, N) ==
  /\ m \in Bytes /\ b \in Bytes /\ N \in Nat
  /\ \A p \in 0 .. N - 1 : ByteAt(m, p) = ByteAt(b, p)

(* The bytes and numbers that are read.                                    *)
LEMMA ByteIs ==
  ASSUME NEW m \in Bytes, NEW p \in Nat
  PROVE  ByteAt(m, p) \in 0 .. 255
<1>1. CASE p < Len(m)
  <2>1. p + 1 \in 1 .. Len(m) /\ m \in Seq(0 .. 255)
    BY <1>1 DEF Bytes
  <2> QED
    BY <1>1, <2>1, ElementOfSeq DEF ByteAt
<1>2. CASE ~(p < Len(m))
  BY <1>2 DEF ByteAt
<1> QED
  BY <1>1, <1>2

LEMMA ScalarIs ==
  ASSUME NEW m \in Bytes, NEW p \in Nat, NEW n \in {1, 2, 4}
  PROVE  ReadScalar(m, p, n) \in Int /\ (n # 4 => ReadScalar(m, p, n) \in Nat)
<1>1. /\ ByteAt(m, p) \in 0 .. 255 /\ ByteAt(m, p + 1) \in 0 .. 255
      /\ ByteAt(m, p + 2) \in 0 .. 255 /\ ByteAt(m, p + 3) \in 0 .. 255
  BY ByteIs
<1>5. PICK a, b, c, d : /\ a = ByteAt(m, p) /\ b = ByteAt(m, p + 1)
                        /\ c = ByteAt(m, p + 2) /\ d = Signed(ByteAt(m, p + 3))
  OBVIOUS
<1>6. a \in Nat /\ b \in Nat /\ c \in Nat /\ d \in Int
  BY <1>1, <1>5 DEF Signed
<1>2. CASE n = 1
  <2>1. ReadScalar(m, p, 1) = ByteAt(m, p)
    BY DEF ReadScalar
  <2> QED
    BY <1>1, <1>2, <2>1
<1>3. CASE n = 2
  <2>1. ReadScalar(m, p, 2) = a + 256 * b
    BY <1>5 DEF ReadScalar
  <2>2. a + 256 * b \in Nat
    BY <1>6
  <2> QED
    BY <1>3, <2>1, <2>2
<1>4. CASE n = 4
  <2>1. ReadScalar(m, p, 4) = a + 256 * b + 256^2 * c + 256^3 * d
    BY <1>5 DEF ReadScalar
  <2>2. a + 256 * b + 256^2 * c + 256^3 * d \in Int
    BY <1>6, Powers, SMT
  <2> QED
    BY <1>4, <2>1, <2>2
<1> QED
  BY <1>2, <1>3, <1>4

(* A read within the bytes they agree on.                                  *)
LEMMA ScalarAgrees ==
  ASSUME NEW m, NEW b, NEW N, Agree(m, b, N), NEW p \in Int, NEW n \in {1, 2, 4}, Inside(p, n, N)
  PROVE  ReadScalar(m, p, n) = ReadScalar(b, p, n)
<1>1. p \in Nat /\ p + n <= N /\ N \in Nat
  BY DEF Inside, Agree
<1>2. \A q \in p .. p + n - 1 : ByteAt(m, q) = ByteAt(b, q)
  BY <1>1 DEF Agree
<1>3. CASE n = 1
  <2>1. ByteAt(m, p) = ByteAt(b, p)
    BY <1>1, <1>2, <1>3
  <2> QED
    BY <1>3, <2>1 DEF ReadScalar
<1>4. CASE n = 2
  <2>1. ByteAt(m, p) = ByteAt(b, p) /\ ByteAt(m, p + 1) = ByteAt(b, p + 1)
    BY <1>1, <1>2, <1>4
  <2>2. ASSUME NEW x PROVE ReadScalar(x, p, 2) = ByteAt(x, p) + 256 * ByteAt(x, p + 1)
    BY DEF ReadScalar
  <2> QED
    BY <1>4, <2>1, <2>2
<1>5. CASE n = 4
  <2>1. /\ ByteAt(m, p) = ByteAt(b, p) /\ ByteAt(m, p + 1) = ByteAt(b, p + 1)
        /\ ByteAt(m, p + 2) = ByteAt(b, p + 2) /\ ByteAt(m, p + 3) = ByteAt(b, p + 3)
    BY <1>1, <1>2, <1>5
  <2>2. ASSUME NEW x
        PROVE  ReadScalar(x, p, 4) = ByteAt(x, p) + 256 * ByteAt(x, p + 1)
                 + 256^2 * ByteAt(x, p + 2) + 256^3 * Signed(ByteAt(x, p + 3))
    BY DEF ReadScalar
  <2> QED
    BY <1>5, <2>1, <2>2, Zenon
<1> QED
  BY <1>3, <1>4, <1>5

(* So a table is found where it was.                                       *)
LEMMA TableAgrees ==
  ASSUME NEW m, NEW b, NEW N, Agree(m, b, N), TableInside(b, N), NEW size \in Int, N <= size
  PROVE  /\ GetRoot(m) = GetRoot(b) /\ GetVTable(m) = GetVTable(b)
         /\ ReadScalar(m, GetVTable(m), 2) = ReadScalar(b, GetVTable(b), 2)
         /\ GetRoot(b) \in Nat /\ GetVTable(b) \in Nat /\ ReadScalar(b, GetVTable(b), 2) \in Nat
         /\ TableInside(m, size)
<1>0. N \in Nat /\ m \in Bytes /\ b \in Bytes
  BY DEF Agree
<1>1. GetRoot(b) \in Int
  BY <1>0, ScalarIs DEF GetRoot
<1>2. GetRoot(b) \in Nat /\ Inside(GetRoot(b), 4, N)
  BY <1>0, <1>1 DEF TableInside, Inside
<1>3. Inside(0, 4, N)
  BY <1>0, <1>2 DEF Inside
<1>4. GetRoot(m) = GetRoot(b)
  BY <1>3, ScalarAgrees DEF GetRoot
<1>5. ReadScalar(m, GetRoot(b), 4) = ReadScalar(b, GetRoot(b), 4)
  BY <1>2, ScalarAgrees
<1>6. GetVTable(m) = GetVTable(b)
  BY <1>4, <1>5 DEF GetVTable
<1>7. GetVTable(b) \in Int
  <2>1. ReadScalar(b, GetRoot(b), 4) \in Int
    BY <1>0, <1>2, ScalarIs
  <2> QED
    BY <1>2, <2>1 DEF GetVTable
<1>8. GetVTable(b) \in Nat /\ Inside(GetVTable(b), 2, N)
  BY <1>0, <1>7 DEF TableInside, Inside
<1>9. ReadScalar(m, GetVTable(m), 2) = ReadScalar(b, GetVTable(b), 2)
  BY <1>6, <1>8, ScalarAgrees
<1>10. ReadScalar(b, GetVTable(b), 2) \in Nat
  BY <1>0, <1>8, ScalarIs
<1>11. TableInside(m, size)
  BY <1>0, <1>2, <1>4, <1>6, <1>8 DEF TableInside, Inside
<1> QED
  BY <1>2, <1>4, <1>6, <1>8, <1>9, <1>10, <1>11

(* And a field of it holds what it held.                                   *)
LEMMA FieldAgrees ==
  ASSUME NEW m, NEW b, NEW N, Agree(m, b, N), TableInside(b, N), NEW size \in Int, N <= size,
         NEW id \in Nat, NEW n \in {1, 4}, FieldInside(b, id, n, N)
  PROVE  /\ Has(m, id) = Has(b, id) /\ Place(m, id) = Place(b, id) /\ GetField(m, id, n) = GetField(b, id, n)
         /\ FieldInside(m, id, n, size)
         /\ Has(b, id) => Place(b, id) \in Nat /\ Inside(Place(b, id), n, N)
<1>0. N \in Nat /\ m \in Bytes /\ b \in Bytes /\ n \in {1, 2, 4}
  BY DEF Agree
<1>1. /\ GetRoot(m) = GetRoot(b) /\ GetVTable(m) = GetVTable(b)
      /\ ReadScalar(m, GetVTable(m), 2) = ReadScalar(b, GetVTable(b), 2)
      /\ GetRoot(b) \in Nat /\ GetVTable(b) \in Nat /\ ReadScalar(b, GetVTable(b), 2) \in Nat
  BY TableAgrees
<1> DEFINE entry == GetVTable(b) + id
<1>2. id < ReadScalar(b, GetVTable(b), 2) =>
        /\ Inside(entry, 2, N) /\ entry \in Nat
        /\ ReadScalar(m, entry, 2) = ReadScalar(b, entry, 2)
        /\ ReadScalar(b, entry, 2) \in Nat
  <2>1. SUFFICES ASSUME id < ReadScalar(b, GetVTable(b), 2)
                 PROVE  /\ Inside(entry, 2, N) /\ entry \in Nat
                        /\ ReadScalar(m, entry, 2) = ReadScalar(b, entry, 2)
                        /\ ReadScalar(b, entry, 2) \in Nat
    OBVIOUS
  <2>2. Inside(entry, 2, N) /\ entry \in Nat
    BY <1>1, <2>1 DEF FieldInside
  <2> HIDE DEF entry
  <2> QED
    BY <1>0, <2>2, ScalarAgrees, ScalarIs
<1>3. /\ GetOptionalFieldOffset(m, id) = GetOptionalFieldOffset(b, id)
      /\ GetOptionalFieldOffset(b, id) \in Nat
  BY <1>1, <1>2 DEF GetOptionalFieldOffset
<1>4. Has(m, id) = Has(b, id) /\ Place(m, id) = Place(b, id) /\ Place(b, id) \in Nat
  BY <1>1, <1>3 DEF Has, Place
<1>5. Has(b, id) => Inside(Place(b, id), n, N)
  BY DEF FieldInside
<1>6. GetField(m, id, n) = GetField(b, id, n)
  <2>1. CASE Has(b, id)
    <3>1. ReadScalar(m, Place(b, id), n) = ReadScalar(b, Place(b, id), n)
      BY <1>0, <1>4, <1>5, <2>1, ScalarAgrees
    <3> QED
      BY <1>3, <1>4, <2>1, <3>1 DEF GetField, Has
  <2>2. CASE ~Has(b, id)
    BY <1>3, <2>2 DEF GetField, Has
  <2> QED
    BY <2>1, <2>2
<1>7. FieldInside(m, id, n, size)
  <2>1. id < ReadScalar(m, GetVTable(m), 2) => Inside(GetVTable(m) + id, 2, size)
    BY <1>0, <1>1, <1>2 DEF Inside
  <2>2. Has(m, id) => Inside(Place(m, id), n, size)
    BY <1>0, <1>4, <1>5 DEF Inside
  <2> QED
    BY <2>1, <2>2 DEF FieldInside
<1> QED
  BY <1>4, <1>5, <1>6, <1>7

(* So does a string.                                                       *)
LEMMA StringAgrees ==
  ASSUME NEW m, NEW b, NEW N, Agree(m, b, N), NEW size \in Int, N <= size,
         NEW p \in Int, StringInside(b, p, N)
  PROVE  StringAt(m, p) = StringAt(b, p) /\ StringInside(m, p, size)
<1>0. N \in Nat /\ b \in Bytes
  BY DEF Agree
<1>1. Inside(p, 4, N) /\ p \in Nat
  BY <1>0 DEF StringInside, Inside
<1>2. ReadScalar(m, p, 4) = ReadScalar(b, p, 4)
  BY <1>1, ScalarAgrees
<1>3. PICK L : L = ReadScalar(b, p, 4)
  OBVIOUS
<1>4. L \in Nat /\ p + 4 <= N - L
  <2>1. L \in Int
    BY <1>0, <1>1, <1>3, ScalarIs
  <2>2. L >= 0 /\ Inside(p + 4, L, N)
    BY <1>3 DEF StringInside
  <2> QED
    BY <2>1, <2>2 DEF Inside
<1>5. \A k \in 1 .. L : ByteAt(m, p + 3 + k) = ByteAt(b, p + 3 + k)
  <2>1. ASSUME NEW k \in 1 .. L PROVE p + 3 + k \in 0 .. N - 1
    BY <1>0, <1>1, <1>4
  <2> QED
    BY <2>1 DEF Agree
<1>6. StringAt(m, p) = StringAt(b, p)
  BY <1>2, <1>3, <1>5 DEF StringAt
<1>7. StringInside(m, p, size)
  <2>1. Inside(p, 4, size) /\ L >= 0 /\ Inside(p + 4, L, size)
    BY <1>0, <1>1, <1>4 DEF Inside
  <2> QED
    BY <1>2, <1>3, <2>1 DEF StringInside
<1> QED
  BY <1>6, <1>7

(* Whatever stands behind the body of a response, it tells the same.       *)
LEMMA TellsBehind ==
  ASSUME NEW m, NEW b, NEW N, Agree(m, b, N), NEW size \in Int, N <= size, NEW r, Tells(b, r, N)
  PROVE  Tells(m, r, size)
<1>0. /\ TableInside(b, N) /\ \A f \in FieldsOf(r.type) : FieldInside(b, f[1], f[2], N)
      /\ Has(b, PlayerId) /\ StringInside(b, GetPointer(b, PlayerId), N)
      /\ StringAt(b, GetPointer(b, PlayerId)) = r.id
  BY DEF Tells
<1>1. N \in Nat /\ b \in Bytes
  BY DEF Agree
<1>2. TableInside(m, size)
  BY <1>0, TableAgrees
<1>3. /\ FieldInside(m, PlayerId, 4, size) /\ Has(m, PlayerId) /\ Place(m, PlayerId) = Place(b, PlayerId)
      /\ Place(b, PlayerId) \in Nat /\ Inside(Place(b, PlayerId), 4, N)
  <2>1. << PlayerId, 4 >> \in FieldsOf(r.type)
    BY DEF FieldsOf
  <2>2. FieldInside(b, PlayerId, 4, N)
    BY <1>0, <2>1
  <2>3. PlayerId \in Nat
    BY DEF PlayerId
  <2> QED
    BY <1>0, <2>2, <2>3, FieldAgrees
<1>4. GetPointer(m, PlayerId) = GetPointer(b, PlayerId) /\ GetPointer(b, PlayerId) \in Int
  <2>1. ReadScalar(m, Place(b, PlayerId), 4) = ReadScalar(b, Place(b, PlayerId), 4)
    BY <1>3, ScalarAgrees
  <2>2. ReadScalar(b, Place(b, PlayerId), 4) \in Int
    BY <1>1, <1>3, ScalarIs
  <2> QED
    BY <1>3, <2>1, <2>2 DEF GetPointer
<1>5. StringInside(m, GetPointer(m, PlayerId), size) /\ StringAt(m, GetPointer(m, PlayerId)) = r.id
  BY <1>0, <1>4, StringAgrees
<1>6. CASE r.type = RESPONSE_SAVE_SCORE
  <2>1. GetField(m, 6, 1) = GetField(b, 6, 1) /\ FieldInside(m, 6, 1, size)
    <3>1. << 6, 1 >> \in FieldsOf(r.type)
      BY <1>6 DEF FieldsOf
    <3>2. FieldInside(b, 6, 1, N)
      BY <1>0, <3>1
    <3> QED
      BY <1>0, <3>2, FieldAgrees
  <2>2. \A f \in FieldsOf(r.type) : FieldInside(m, f[1], f[2], size)
    BY <1>3, <1>6, <2>1 DEF FieldsOf
  <2> QED
    BY <1>2, <1>3, <1>5, <1>6, <2>1, <2>2 DEF Tells
<1>7. CASE r.type # RESPONSE_SAVE_SCORE
  <2>0. << 6, 4 >> \in FieldsOf(r.type) /\ << 8, 4 >> \in FieldsOf(r.type) /\ << 10, 1 >> \in FieldsOf(r.type)
    BY <1>7 DEF FieldsOf
  <2>1. GetField(m, 6, 4) = GetField(b, 6, 4) /\ FieldInside(m, 6, 4, size)
    <3>1. FieldInside(b, 6, 4, N)
      BY <1>0, <2>0
    <3> QED
      BY <1>0, <3>1, FieldAgrees
  <2>2. GetField(m, 8, 4) = GetField(b, 8, 4) /\ FieldInside(m, 8, 4, size)
    <3>1. FieldInside(b, 8, 4, N)
      BY <1>0, <2>0
    <3> QED
      BY <1>0, <3>1, FieldAgrees
  <2>3. GetField(m, 10, 1) = GetField(b, 10, 1) /\ FieldInside(m, 10, 1, size)
    <3>1. FieldInside(b, 10, 1, N)
      BY <1>0, <2>0
    <3> QED
      BY <1>0, <3>1, FieldAgrees
  <2>4. \A f \in FieldsOf(r.type) : FieldInside(m, f[1], f[2], size)
    BY <1>3, <1>7, <2>1, <2>2, <2>3 DEF FieldsOf
  <2> QED
    BY <1>2, <1>3, <1>5, <1>7, <2>1, <2>2, <2>3, <2>4 DEF Tells
<1> QED
  BY <1>6, <1>7

(* The memory begins with a response, the whole of it.                     *)
BeginsWith(m, r) ==
  /\ Len(BytesOf(r)) <= Room
  /\ \A q \in 1 .. Len(BytesOf(r)) : m[q] = BytesOf(r)[q]

(* Then Work finds that response in the buffers.                           *)
LEMMA ResponseHandled ==
  ASSUME memory \in Bytes, Len(memory) = Room, NEW r \in SaveResponses \cup RankingResponses,
         BeginsWith(memory, r)
  PROVE  Known /\ ReadsInside /\ Has(Body, PlayerId) /\ Read = r
<1> DEFINE N == Len(BodyOf(r))
<1>0. BufferSize \in Nat /\ BufferSize <= MaxInt /\ Room = 12 + BufferSize /\ HeaderSize = 12
  BY ReceiveAssumption, MaxIntIs DEF Room, HeaderSize
<1>1. /\ BodyOf(r) \in Bytes /\ N \in Nat /\ Len(BytesOf(r)) = 12 + N /\ BytesOf(r)[12] = r.type
      /\ \A k \in 1 .. N : BytesOf(r)[12 + k] = BodyOf(r)[k]
  BY BodyBytes, ResponseBytes
<1>2. N <= BufferSize /\ \A q \in 1 .. 12 + N : memory[q] = BytesOf(r)[q]
  <2>1. 12 + N <= 12 + BufferSize
    BY <1>0, <1>1 DEF BeginsWith
  <2>2. N <= BufferSize
    <3> HIDE DEF N
    <3> QED
      BY <1>0, <1>1, <2>1
  <2> QED
    BY <1>1, <2>2 DEF BeginsWith
<1>3. /\ Body \in Bytes /\ Len(Body) = BufferSize
      /\ \A k \in 1 .. BufferSize : Body[k] = memory[12 + k]
  <2>1. PICK i, j : i = 12 /\ j = Room
    OBVIOUS
  <2>2. i \in Nat /\ j \in Nat /\ i <= j /\ j <= Len(memory) /\ j - i = BufferSize
    BY <1>0, <2>1
  <2>3. Body = SubSeq(memory, i + 1, j)
    BY <1>0, <2>1 DEF Body
  <2>4. /\ Body \in Bytes /\ Len(Body) = j - i
        /\ \A k \in 1 .. j - i : Body[k] = memory[i + k]
    BY <2>2, <2>3, PartBytes
  <2> QED
    BY <2>1, <2>2, <2>4
<1>4. Agree(Body, BodyOf(r), N)
  <2>1. ASSUME NEW p \in 0 .. N - 1 PROVE ByteAt(Body, p) = ByteAt(BodyOf(r), p)
    <3>1. p + 1 \in 1 .. N /\ p + 1 \in 1 .. BufferSize /\ p < N /\ p < BufferSize /\ 12 + (p + 1) \in 1 .. 12 + N
      <4> HIDE DEF N
      <4> QED
        BY <1>0, <1>1, <1>2
    <3>2. ByteAt(Body, p) = Body[p + 1] /\ ByteAt(BodyOf(r), p) = BodyOf(r)[p + 1]
      BY <1>3, <3>1 DEF ByteAt
    <3>3. Body[p + 1] = memory[12 + (p + 1)] /\ memory[12 + (p + 1)] = BytesOf(r)[12 + (p + 1)]
      BY <1>2, <1>3, <3>1
    <3>4. BytesOf(r)[12 + (p + 1)] = BodyOf(r)[p + 1]
      BY <1>1, <3>1
    <3> QED
      BY <3>2, <3>3, <3>4
  <2> HIDE DEF N
  <2> QED
    BY <1>1, <1>3, <2>1 DEF Agree
<1>5. Tells(BodyOf(r), r, N)
  <2>1. N <= MaxInt
    <3> HIDE DEF N
    <3> QED
      BY <1>0, <1>1, <1>2, MaxIntIs
  <2> QED
    BY <2>1, ResponseRead
<1>6. Tells(Body, r, BufferSize)
  <2>1. BufferSize \in Int
    BY <1>0
  <2> HIDE DEF N
  <2> QED
    BY <1>2, <1>4, <1>5, <2>1, TellsBehind
<1>7. MessageType = r.type
  <2>1. PICK i, j : i = 0 /\ j = 12
    OBVIOUS
  <2>2. i \in Nat /\ j \in Nat /\ i <= j /\ j <= Len(memory) /\ j \in 1 .. j - i /\ i + 1 = 1 /\ i + j = j
    BY <1>0, <2>1
  <2>3. Header = SubSeq(memory, i + 1, j)
    BY <1>0, <2>1, <2>2 DEF Header
  <2>4. Header[j] = memory[i + j]
    BY <2>2, <2>3, PartBytes
  <2>5. Header[12] = memory[12]
    BY <2>1, <2>2, <2>4
  <2>6. memory[12] = BytesOf(r)[12]
    <3>1. 12 \in 1 .. 12 + N
      BY <1>1
    <3> QED
      BY <1>2, <3>1
  <2> QED
    BY <1>1, <2>5, <2>6 DEF MessageType
<1>8. Known
  BY <1>7 DEF Known, SaveResponses, RankingResponses
<1>9. ReadsInside /\ Has(Body, PlayerId)
  <2>1. Fields = FieldsOf(r.type)
    BY <1>7 DEF Fields, FieldsOf
  <2> QED
    BY <1>6, <2>1 DEF Tells, ReadsInside
<1>10. Read = r
  <2>1. CASE r \in SaveResponses
    <3>1. r.type = RESPONSE_SAVE_SCORE /\ r.feedback \in {0, 1}
      BY <2>1 DEF SaveResponses
    <3>2. r = [type |-> r.type, id |-> r.id, feedback |-> r.feedback]
      BY <2>1 DEF SaveResponses
    <3>3. GetField(Body, 6, 1) = r.feedback /\ StringAt(Body, GetPointer(Body, PlayerId)) = r.id
      BY <1>6, <3>1 DEF Tells
    <3>4. Truth(GetField(Body, 6, 1)) = r.feedback
      BY <3>1, <3>3 DEF Truth
    <3>5. Read = [type |-> r.type, id |-> r.id, feedback |-> r.feedback]
      BY <1>7, <3>1, <3>3, <3>4 DEF Read
    <3> QED
      BY <3>2, <3>5
  <2>2. CASE r \in RankingResponses
    <3>1. r.type # RESPONSE_SAVE_SCORE /\ r.inRanking \in {0, 1}
      BY <2>2 DEF RankingResponses, RESPONSE_SAVE_SCORE, RESPONSE_PLAYER_RANKING
    <3>2. r = [type |-> r.type, id |-> r.id, score |-> r.score, ranking |-> r.ranking, inRanking |-> r.inRanking]
      BY <2>2 DEF RankingResponses
    <3>3. /\ GetField(Body, 6, 4) = r.score /\ GetField(Body, 8, 4) = r.ranking
          /\ GetField(Body, 10, 1) = r.inRanking /\ StringAt(Body, GetPointer(Body, PlayerId)) = r.id
      BY <1>6, <3>1 DEF Tells
    <3>4. Truth(GetField(Body, 10, 1)) = r.inRanking
      BY <3>1, <3>3 DEF Truth
    <3>5. Read = [type |-> r.type, id |-> r.id, score |-> r.score, ranking |-> r.ranking, inRanking |-> r.inRanking]
      BY <1>7, <3>1, <3>3, <3>4 DEF Read
    <3> QED
      BY <3>2, <3>5
  <2> QED
    BY <2>1, <2>2
<1> QED
  BY <1>8, <1>9, <1>10

-----------------------------------------------------------------------------
(***************************************************************************)
(* Types                                                                   *)
(***************************************************************************)

(* Work reads no more responses than receives have completed, and each of  *)
(* these has taken a byte or more.                                         *)
TypeInv ==
  /\ TypeOK
  /\ IsLong(handled, Len(handled))
  /\ at = "completed" => Len(handled) < taken

LEMMA ConstantsAre ==
  /\ BufferSize \in Nat /\ Room \in Nat /\ Room = 12 + BufferSize /\ Len(Responses) \in Nat
  /\ \A n \in 1 .. Len(Responses) : Responses[n] \in SaveResponses \cup RankingResponses
<1>1. BufferSize \in Nat /\ Room \in Nat /\ Room = 12 + BufferSize
  BY ReceiveAssumption, MaxIntIs DEF Room, HeaderSize
<1>2. PICK R : R = SaveResponses \cup RankingResponses
  OBVIOUS
<1>3. Responses \in Seq(R)
  BY <1>2, ReceiveAssumption
<1>4. Len(Responses) \in Nat /\ \A n \in 1 .. Len(Responses) : Responses[n] \in R
  BY <1>3
<1> QED
  BY <1>1, <1>2, <1>4

(* A receive puts the next bytes of the stream in front.                   *)
LEMMA ReceivedBytes ==
  ASSUME TypeInv, NEW n \in 1 .. Len(stream) - taken, Receive(n)
  PROVE  /\ memory' \in Bytes /\ Len(memory') = Room
         /\ n \in Nat /\ taken \in Nat /\ Len(stream) \in Nat /\ taken + n <= Len(stream)
         /\ \A q \in 1 .. n : memory'[q] = stream[taken + q]
<1>0. stream \in Bytes /\ Len(stream) \in Nat /\ memory \in Bytes /\ Len(memory) = Room /\ taken \in 0 .. Len(stream)
  BY DEF TypeInv, TypeOK, Bytes
<1>1. n \in Nat /\ taken \in Nat /\ taken + n \in Nat /\ taken + n <= Len(stream) /\ Room \in Nat /\ n <= Room
  BY <1>0, ConstantsAre DEF Receive
<1>2. PICK new, old : /\ new = SubSeq(stream, taken + 1, taken + n)
                      /\ old = SubSeq(memory, n + 1, Room)
  OBVIOUS
<1>3. new \in Bytes /\ Len(new) = n /\ \A q \in 1 .. n : new[q] = stream[taken + q]
  <2>1. PICK j : j = taken + n
    OBVIOUS
  <2>2. j \in Nat /\ taken <= j /\ j <= Len(stream) /\ j - taken = n
    BY <1>1, <2>1
  <2>3. new = SubSeq(stream, taken + 1, j)
    BY <1>2, <2>1
  <2> QED
    BY <1>0, <1>1, <2>2, <2>3, PartBytes
<1>4. old \in Bytes /\ Len(old) = Room - n
  BY <1>0, <1>1, <1>2, PartBytes
<1>5. memory' = new \o old
  BY <1>2 DEF Receive
<1>6. /\ memory' \in Bytes /\ Len(memory') = Len(new) + Len(old)
      /\ \A q \in 1 .. Len(new) : memory'[q] = new[q]
  BY <1>3, <1>4, <1>5, JoinedBytes
<1>7. Len(memory') = Room
  BY <1>1, <1>3, <1>4, <1>6
<1> QED
  BY <1>0, <1>1, <1>3, <1>6, <1>7

LEMMA TypeInit == Init => TypeInv
<1>1. SUFFICES ASSUME Init PROVE TypeInv
  OBVIOUS
<1>2. Zeros(Room) \in Seq(0 .. 255) /\ Len(Zeros(Room)) = Room
  BY ConstantsAre DEF Zeros
<1>3. stream \in Seq(0 .. 255) /\ Len(stream) = 0 /\ Len(handled) = 0 /\ IsLong(handled, 0)
  BY <1>1 DEF Init, IsLong
<1>4. sent \in 0 .. Len(Responses) /\ ends \in [0 .. sent -> Nat] /\ taken = 0
  BY <1>1, ConstantsAre DEF Init
<1>5. memory \in Seq(0 .. 255) /\ Len(memory) = Room
  BY <1>1, <1>2 DEF Init
<1>6. taken \in 0 .. Len(stream) /\ Len(handled) <= taken /\ IsLong(handled, Len(handled))
  BY <1>3, <1>4
<1>7. /\ at \in {"posted", "completed", "rearm", "deaf"} /\ at # "completed"
      /\ crashed \in BOOLEAN /\ aligned \in BOOLEAN /\ whole \in BOOLEAN
  BY <1>1 DEF Init
<1> QED
  BY <1>3, <1>4, <1>5, <1>6, <1>7 DEF TypeInv, TypeOK

LEMMA TypeNext == TypeInv /\ [Next]_vars => TypeInv'
<1>1. SUFFICES ASSUME TypeInv, [Next]_vars PROVE TypeInv'
  OBVIOUS
<1>2. CASE ServerSends
  <2>1. PICK new : new = BytesOf(Responses[sent'])
    OBVIOUS
  <2>2. sent' \in 0 .. Len(Responses) /\ sent' \in 1 .. Len(Responses) /\ sent' = sent + 1 /\ sent \in Nat
    BY <1>1, <1>2, ConstantsAre DEF ServerSends, TypeInv, TypeOK
  <2>3. new \in Bytes
    BY <2>1, <2>2, ConstantsAre, ResponseBytes
  <2>4. stream \in Bytes /\ stream' = stream \o new
    BY <1>1, <1>2, <2>1 DEF ServerSends, TypeInv, TypeOK, Bytes
  <2>5. stream' \in Bytes /\ Len(stream) \in Nat /\ Len(new) \in Nat /\ Len(stream') = Len(stream) + Len(new)
    BY <2>3, <2>4, JoinedBytes
  <2>6. ends' \in [0 .. sent' -> Nat]
    <3>1. ASSUME NEW k \in 0 .. sent' PROVE (IF k = sent' THEN Len(stream') ELSE ends[k]) \in Nat
      <4>1. k # sent' => k \in 0 .. sent
        BY <2>2
      <4> QED
        BY <1>1, <2>5, <4>1 DEF TypeInv, TypeOK
    <3> QED
      BY <1>2, <3>1 DEF ServerSends
  <2>7. taken' = taken /\ taken \in 0 .. Len(stream')
    BY <1>1, <1>2, <2>5 DEF ServerSends, TypeInv, TypeOK
  <2> QED
    BY <1>1, <1>2, <2>2, <2>5, <2>6, <2>7 DEF ServerSends, TypeInv, TypeOK, Bytes
<1>3. ASSUME NEW n \in 1 .. Len(stream) - taken, Receive(n)
      PROVE  TypeInv'
  <2>1. /\ memory' \in Bytes /\ Len(memory') = Room
        /\ n \in Nat /\ taken \in Nat /\ Len(stream) \in Nat /\ taken + n <= Len(stream)
    BY <1>1, <1>3, ReceivedBytes
  <2>2. taken' \in 0 .. Len(stream) /\ taken < taken'
    BY <1>3, <2>1 DEF Receive
  <2>3. Len(handled) <= taken /\ Len(handled) \in Nat
    BY <1>1 DEF TypeInv, TypeOK, IsLong
  <2>4. Len(handled) <= taken' /\ Len(handled) < taken'
    BY <2>1, <2>2, <2>3
  <2>5. aligned' \in BOOLEAN /\ whole' \in BOOLEAN
    BY <1>3 DEF Receive
  <2> QED
    BY <1>1, <1>3, <2>1, <2>2, <2>4, <2>5 DEF Receive, server, TypeInv, TypeOK, Bytes
<1>4. CASE Handle
  <2>0. at = "completed" /\ UNCHANGED << server, taken, memory, aligned, whole >>
    BY <1>4 DEF Handle
  <2>1. taken \in Nat /\ Len(handled) \in Nat /\ Len(handled) < taken /\ IsLong(handled, Len(handled))
    BY <1>1, <2>0 DEF TypeInv, TypeOK, IsLong
  <2>2. ASSUME NEW x, handled' = Append(handled, x), at' = "rearm", UNCHANGED crashed
        PROVE  TypeInv'
    <3>1. IsLong(handled', Len(handled) + 1) /\ Len(handled') = Len(handled) + 1
      BY <2>1, <2>2, AppendIsLong
    <3>2. Len(handled') <= taken /\ IsLong(handled', Len(handled'))
      BY <2>1, <3>1
    <3> QED
      BY <1>1, <2>0, <2>2, <3>2 DEF server, TypeInv, TypeOK
  <2>3. ASSUME crashed' = TRUE, UNCHANGED << handled, at >>
        PROVE  TypeInv'
    BY <1>1, <2>0, <2>3 DEF server, TypeInv, TypeOK
  <2> QED
    BY <1>4, <2>2, <2>3 DEF Handle
<1>5. CASE IgnoreUnknown
  BY <1>1, <1>5 DEF IgnoreUnknown, server, TypeInv, TypeOK
<1>6. CASE ReceiveReady
  <2>1. Zeros(Room) \in Seq(0 .. 255) /\ Len(Zeros(Room)) = Room
    BY ConstantsAre DEF Zeros
  <2> QED
    BY <1>1, <1>6, <2>1 DEF ReceiveReady, server, TypeInv, TypeOK
<1>7. CASE UNCHANGED vars
  BY <1>1, <1>7 DEF vars, TypeInv, TypeOK
<1> QED
  BY <1>1, <1>2, <1>3, <1>4, <1>5, <1>6, <1>7 DEF Next, Worker

(* However the stream is cut, the bytes, the lengths and the places of     *)
(* what the server has sent and the client has taken are as they should    *)
(* be, and every response handled has come with a byte of its own          *)
(* (Network.cpp 147-209, Client.cpp 71-101).                               *)
THEOREM StreamTypes == Spec => []TypeOK
<1>1. TypeInv => TypeOK
  BY DEF TypeInv
<1> QED
  BY <1>1, TypeInit, TypeNext, PTL DEF Spec

-----------------------------------------------------------------------------
(***************************************************************************)
(* The stream                                                              *)
(***************************************************************************)

(* The n-th response stands in the stream, from the end of the one before. *)
Sent(n) ==
  /\ ends[n] = ends[n - 1] + Len(BytesOf(Responses[n]))
  /\ \A q \in 1 .. Len(BytesOf(Responses[n])) :
       stream[ends[n - 1] + q] = BytesOf(Responses[n])[q]

StreamInv ==
  /\ ends[0] = 0 /\ ends[sent] = Len(stream)
  /\ \A m, n \in 0 .. sent : m < n => ends[m] < ends[n]
  /\ \A n \in 1 .. sent : Sent(n)

LEMMA StreamInit == Init => StreamInv
<1>1. SUFFICES ASSUME Init PROVE StreamInv
  OBVIOUS
<1>2. sent = 0 /\ ends[0] = 0 /\ Len(stream) = 0
  BY <1>1 DEF Init
<1> QED
  BY <1>2 DEF StreamInv

LEMMA StreamNext == TypeInv /\ StreamInv /\ [Next]_vars => StreamInv'
<1>1. SUFFICES ASSUME TypeInv, StreamInv, [Next]_vars PROVE StreamInv'
  OBVIOUS
<1>2. CASE ServerSends
  <2>1. PICK next, new : next = sent + 1 /\ new = BytesOf(Responses[next])
    OBVIOUS
  <2>2. /\ sent \in Nat /\ next \in 1 .. Len(Responses) /\ next \in Nat /\ next - 1 = sent /\ sent < next
        /\ sent' = next
    BY <1>1, <1>2, <2>1, ConstantsAre DEF ServerSends, TypeInv, TypeOK
  <2>3. new \in Bytes /\ Len(new) \in Nat /\ Len(new) > 0
    <3>1. PICK N : N = Len(BodyOf(Responses[next]))
      OBVIOUS
    <3>2. new \in Bytes /\ N \in Nat /\ Len(new) = 12 + N
      BY <2>1, <2>2, <3>1, ConstantsAre, ResponseBytes
    <3> QED
      BY <3>2
  <2>4. stream \in Bytes /\ stream' = stream \o new
    BY <1>1, <1>2, <2>1, <2>2 DEF ServerSends, TypeInv, TypeOK, Bytes
  <2>5. /\ Len(stream) \in Nat /\ Len(stream') = Len(stream) + Len(new)
        /\ \A k \in 1 .. Len(stream) : stream'[k] = stream[k]
        /\ \A k \in 1 .. Len(new) : stream'[Len(stream) + k] = new[k]
    BY <2>3, <2>4, JoinedBytes
  <2>6. /\ ends'[next] = Len(stream')
        /\ \A k \in 0 .. sent : ends'[k] = ends[k] /\ ends[k] \in Nat
    <3>1. ends' = [k \in 0 .. next |-> IF k = next THEN Len(stream') ELSE ends[k]]
      BY <1>2, <2>2 DEF ServerSends
    <3>2. ends'[next] = Len(stream')
      BY <2>2, <3>1
    <3>3. ASSUME NEW k \in 0 .. sent PROVE ends'[k] = ends[k] /\ ends[k] \in Nat
      <4>1. k \in 0 .. next /\ k # next
        BY <2>2
      <4> QED
        BY <1>1, <3>1, <4>1 DEF TypeInv, TypeOK
    <3> QED
      BY <3>2, <3>3
  <2>7. ends[sent] = Len(stream) /\ ends[0] = 0
    BY <1>1 DEF StreamInv
  <2>8. ends'[0] = 0 /\ ends'[sent'] = Len(stream')
    BY <2>2, <2>6, <2>7
  <2>9. ASSUME NEW m \in 0 .. next, NEW n \in 0 .. next, m < n PROVE ends'[m] < ends'[n]
    <3>1. m \in 0 .. sent /\ (n \in 0 .. sent \/ n = next)
      BY <2>2, <2>9
    <3>2. CASE n \in 0 .. sent
      BY <1>1, <2>6, <2>9, <3>1, <3>2 DEF StreamInv
    <3>3. CASE n = next
      <4>1. ends[m] <= ends[sent]
        <5>1. m = sent \/ m < sent
          BY <2>2, <3>1
        <5>2. sent \in 0 .. sent
          BY <2>2
        <5>3. m < sent => ends[m] < ends[sent]
          BY <1>1, <3>1, <5>2 DEF StreamInv
        <5> QED
          BY <2>6, <3>1, <5>1, <5>2, <5>3
      <4> QED
        BY <2>3, <2>5, <2>6, <2>7, <3>1, <3>3, <4>1
    <3> QED
      BY <3>1, <3>2, <3>3
  <2>10. ASSUME NEW n \in 1 .. next PROVE Sent(n)'
    <3>1. PICK before, b : before = n - 1 /\ b = BytesOf(Responses[n])
      OBVIOUS
    <3>2. before \in 0 .. sent /\ before \in Nat /\ ends'[before] = ends[before] /\ ends[before] \in Nat
      BY <2>2, <2>6, <3>1
    <3>3. CASE n = next
      <4>1. b = new /\ before = sent
        BY <2>1, <2>2, <3>1, <3>3
      <4>2. ends'[before] = Len(stream)
        BY <2>7, <3>2, <4>1
      <4>3. ends'[n] = ends'[before] + Len(b)
        BY <2>5, <2>6, <3>3, <4>1, <4>2
      <4>4. \A q \in 1 .. Len(b) : stream'[ends'[before] + q] = b[q]
        BY <2>5, <4>1, <4>2
      <4> QED
        BY <3>1, <4>3, <4>4 DEF Sent
    <3>4. CASE n \in 1 .. sent
      <4>1. /\ ends[n] = ends[before] + Len(b)
            /\ \A q \in 1 .. Len(b) : stream[ends[before] + q] = b[q]
        <5>1. Sent(n)
          BY <1>1, <3>4 DEF StreamInv
        <5> QED
          BY <3>1, <5>1 DEF Sent
      <4>2. n \in 0 .. sent /\ ends'[n] = ends[n] /\ ends[n] \in Nat
        BY <2>6, <3>4
      <4>3. ends[n] <= Len(stream)
        <5>1. n = sent \/ n < sent
          BY <2>2, <4>2
        <5>2. sent \in 0 .. sent
          BY <2>2
        <5>3. n < sent => ends[n] < ends[sent]
          BY <1>1, <4>2, <5>2 DEF StreamInv
        <5> QED
          BY <2>5, <2>7, <4>2, <5>1, <5>3
      <4>4. b \in Bytes /\ Len(b) \in Nat
        <5>1. n \in 1 .. Len(Responses)
          BY <2>2, ConstantsAre
        <5>2. b \in Bytes
          BY <3>1, <5>1, ConstantsAre, ResponseBytes
        <5> QED
          BY <5>2, JoinedBytes
      <4>5. ASSUME NEW q \in 1 .. Len(b) PROVE stream'[ends'[before] + q] = b[q]
        <5>1. ends[before] + q \in 1 .. Len(stream)
          BY <2>5, <3>2, <4>1, <4>2, <4>3, <4>4
        <5> QED
          BY <2>5, <3>2, <4>1, <5>1
      <4> QED
        BY <3>1, <3>2, <4>1, <4>2, <4>5 DEF Sent
    <3> QED
      BY <2>2, <3>3, <3>4
  <2> QED
    BY <2>2, <2>8, <2>9, <2>10 DEF StreamInv
<1>3. CASE UNCHANGED server
  BY <1>1, <1>3 DEF server, StreamInv, Sent
<1>4. (Worker \/ (\E n \in 1 .. Len(stream) - taken : Receive(n)) \/ UNCHANGED vars) => UNCHANGED server
  BY DEF Worker, Handle, IgnoreUnknown, ReceiveReady, Receive, vars, server
<1> QED
  BY <1>1, <1>2, <1>3, <1>4 DEF Next

(* A receive that begins where a response begins and ends where one ends   *)
(* has taken the whole of the first.                                       *)
LEMMA ReceivedResponse ==
  ASSUME TypeInv, StreamInv, NEW n \in 1 .. Len(stream) - taken, Receive(n),
         NEW i \in 0 .. sent, NEW j \in 0 .. sent, ends[j] = taken, ends[i] = taken'
  PROVE  /\ j < i /\ j + 1 \in 1 .. sent /\ ends[j + 1] <= taken'
         /\ BeginsWith(memory', Responses[j + 1])
<1>1. /\ n \in Nat /\ taken \in Nat /\ taken' = taken + n /\ n > 0 /\ n <= Room
      /\ \A q \in 1 .. n : memory'[q] = stream[taken + q]
  <2>1. /\ n \in Nat /\ taken \in Nat /\ Len(stream) \in Nat
        /\ \A q \in 1 .. n : memory'[q] = stream[taken + q]
    BY ReceivedBytes
  <2>2. taken' = taken + n /\ n <= Room
    BY DEF Receive
  <2>3. n > 0
    BY <2>1
  <2> QED
    BY <2>1, <2>2, <2>3
<1>2. sent \in Nat /\ i \in Nat /\ j \in Nat
  BY ConstantsAre DEF TypeInv, TypeOK
<1>3. j < i
  <2>1. i < j => ends[i] < ends[j]
    BY DEF StreamInv
  <2> QED
    BY <1>1, <1>2, <2>1
<1>4. PICK next, b : next = j + 1 /\ b = BytesOf(Responses[next])
  OBVIOUS
<1>5. next \in 1 .. sent /\ next \in 0 .. sent /\ next <= i /\ next - 1 = j
  BY <1>2, <1>3, <1>4
<1>6. ends[next] <= taken'
  <2>1. next < i => ends[next] < ends[i]
    BY <1>5 DEF StreamInv
  <2>2. ends[next] \in Nat /\ ends[i] \in Nat
    BY <1>5 DEF TypeInv, TypeOK
  <2> QED
    BY <1>2, <1>5, <2>1, <2>2
<1>7. ends[next] = taken + Len(b) /\ \A q \in 1 .. Len(b) : stream[taken + q] = b[q]
  <2>1. Sent(next)
    BY <1>5 DEF StreamInv
  <2> QED
    BY <1>4, <1>5, <2>1 DEF Sent
<1>8. Len(b) \in Nat
  <2>1. next \in 1 .. Len(Responses)
    BY <1>5, ConstantsAre DEF TypeInv, TypeOK
  <2>2. b \in Bytes
    BY <1>4, <2>1, ConstantsAre, ResponseBytes
  <2> QED
    BY <2>2, JoinedBytes
<1>9. Len(b) <= n /\ Len(b) <= Room
  BY <1>1, <1>6, <1>7, <1>8, ConstantsAre
<1>10. \A q \in 1 .. Len(b) : memory'[q] = b[q]
  <2>1. ASSUME NEW q \in 1 .. Len(b) PROVE memory'[q] = b[q]
    <3>1. q \in 1 .. n
      BY <1>1, <1>8, <1>9
    <3> QED
      BY <1>1, <1>7, <3>1
  <2> QED
    BY <2>1
<1> QED
  BY <1>3, <1>4, <1>5, <1>6, <1>9, <1>10 DEF BeginsWith

-----------------------------------------------------------------------------
(***************************************************************************)
(* As long as receives end with a response                                 *)
(***************************************************************************)

(* The client has got to the end of the j-th response; or the first of     *)
(* those behind it is in the buffers, with or without others.              *)
Reached(j) ==
  /\ at = "completed" => /\ j + 1 \in 1 .. sent /\ ends[j + 1] <= taken
                         /\ BeginsWith(memory, Responses[j + 1])
  /\ at # "completed" => ends[j] = taken

(* What is handled are some of the first j responses, in their order.      *)
Picks(f, j) ==
  /\ f \in [1 .. Len(handled) -> 1 .. j]
  /\ \A k, l \in 1 .. Len(handled) : k < l => f[k] < f[l]
  /\ \A k \in 1 .. Len(handled) : handled[k] = Responses[f[k]]

Told(j) == \E f : Picks(f, j)

AlignedInv ==
  aligned =>
    /\ ~crashed /\ at # "deaf"
    /\ \E i \in 0 .. sent : ends[i] = taken
    /\ \E j \in 0 .. sent : Reached(j) /\ Told(j)

LEMMA AlignedInit == Init => AlignedInv
<1>1. SUFFICES ASSUME Init PROVE AlignedInv
  OBVIOUS
<1>2. /\ sent = 0 /\ ends[0] = 0 /\ taken = 0 /\ at = "posted" /\ crashed = FALSE
      /\ handled = << >> /\ Len(handled) = 0
  BY <1>1 DEF Init
<1>3. PICK f : f = [k \in 1 .. 0 |-> 0]
  OBVIOUS
<1>4. Picks(f, 0)
  BY <1>2, <1>3 DEF Picks
<1>5. Reached(0)
  BY <1>2 DEF Reached
<1> QED
  BY <1>2, <1>4, <1>5 DEF AlignedInv, Told

(* What Work does with a response at the front of the buffers.             *)
LEMMA HandledResponse ==
  ASSUME TypeInv, Handle, NEW r \in SaveResponses \cup RankingResponses, BeginsWith(memory, r)
  PROVE  /\ at' = "rearm" /\ crashed' = crashed
         /\ Len(handled) \in Nat /\ Len(handled') = Len(handled) + 1
         /\ \A k \in 1 .. Len(handled) : handled'[k] = handled[k]
         /\ handled'[Len(handled) + 1] = r
<1>1. memory \in Bytes /\ Len(memory) = Room /\ IsLong(handled, Len(handled))
  BY DEF TypeInv, TypeOK, Bytes
<1>2. ReadsInside /\ Has(Body, PlayerId) /\ Read = r
  BY <1>1, ResponseHandled
<1>3. handled' = Append(handled, r) /\ at' = "rearm" /\ crashed' = crashed
  BY <1>2 DEF Handle
<1>4. PICK n : n = Len(handled)
  OBVIOUS
<1>5. IsLong(handled, n) /\ n \in Nat
  BY <1>1, <1>4 DEF IsLong
<1>6. /\ Len(handled') = n + 1
      /\ \A k \in 1 .. n : handled'[k] = handled[k]
      /\ handled'[n + 1] = r
  BY <1>3, <1>5, AppendIsLong
<1> QED
  BY <1>3, <1>4, <1>5, <1>6

LEMMA AlignedNext == TypeInv /\ StreamInv /\ AlignedInv /\ [Next]_vars => AlignedInv'
<1>1. SUFFICES ASSUME TypeInv, StreamInv, AlignedInv, [Next]_vars, aligned'
               PROVE  /\ ~crashed' /\ at' # "deaf"
                      /\ \E i \in 0 .. sent' : ends'[i] = taken'
                      /\ \E j \in 0 .. sent' : Reached(j)' /\ Told(j)'
  BY DEF AlignedInv
<1>2. aligned
  BY <1>1 DEF Next, ServerSends, Receive, Worker, Handle, IgnoreUnknown, ReceiveReady, vars
<1>3. PICK i \in 0 .. sent : ends[i] = taken
  BY <1>1, <1>2 DEF AlignedInv
<1>4. PICK j \in 0 .. sent : Reached(j) /\ Told(j)
  BY <1>1, <1>2 DEF AlignedInv
<1>5. ~crashed /\ at # "deaf"
  BY <1>1, <1>2 DEF AlignedInv
<1>6. /\ sent \in Nat /\ sent <= Len(Responses) /\ i \in Nat /\ j \in Nat /\ i <= sent /\ j <= sent
      /\ \A k \in 0 .. sent : ends[k] \in Nat
  BY <1>1, ConstantsAre DEF TypeInv, TypeOK
<1>7. UNCHANGED handled => (Told(j) => Told(j)')
  BY DEF Told, Picks
<1>8. CASE ServerSends
  <2>1. PICK next : next = j + 1
    OBVIOUS
  <2>2. sent' = sent + 1 /\ UNCHANGED << taken, memory, at, handled, crashed >>
    BY <1>8 DEF ServerSends
  <2>3. \A k \in 0 .. sent : k \in 0 .. sent' /\ ends'[k] = ends[k]
    <3>1. ASSUME NEW k \in 0 .. sent PROVE k \in 0 .. sent' /\ k # sent'
      BY <1>6, <2>2
    <3> QED
      BY <1>8, <3>1 DEF ServerSends
  <2>4. Reached(j)'
    <3>1. at = "completed" => /\ next \in 1 .. sent' /\ ends'[next] <= taken'
                              /\ BeginsWith(memory', Responses[next])
      <4>1. ASSUME at = "completed" PROVE /\ next \in 1 .. sent /\ ends[next] <= taken
                                          /\ BeginsWith(memory, Responses[next])
        BY <1>4, <2>1, <4>1 DEF Reached
      <4>2. next \in 1 .. sent => next \in 0 .. sent /\ next \in 1 .. sent'
        BY <1>6, <2>2
      <4> QED
        BY <2>2, <2>3, <4>1, <4>2
    <3>2. at # "completed" => ends'[j] = taken'
      BY <1>4, <2>2, <2>3 DEF Reached
    <3> QED
      BY <2>1, <2>2, <3>1, <3>2 DEF Reached
  <2> QED
    BY <1>3, <1>4, <1>5, <1>7, <2>2, <2>3, <2>4
<1>9. ASSUME NEW n \in 1 .. Len(stream) - taken, Receive(n)
      PROVE  /\ ~crashed' /\ at' # "deaf"
             /\ \E e \in 0 .. sent' : ends'[e] = taken'
             /\ \E e \in 0 .. sent' : Reached(e)' /\ Told(e)'
  <2>1. at = "posted" /\ at' = "completed" /\ UNCHANGED << sent, ends, handled, crashed >>
    BY <1>9 DEF Receive, server
  <2>2. ends[j] = taken
    BY <1>4, <2>1 DEF Reached
  <2>3. PICK e \in 0 .. sent : ends[e] = taken'
    BY <1>1, <1>9 DEF Receive, Range, TypeInv, TypeOK
  <2>4. j + 1 \in 1 .. sent /\ ends[j + 1] <= taken' /\ BeginsWith(memory', Responses[j + 1])
    BY <1>1, <1>9, <2>2, <2>3, ReceivedResponse
  <2>5. Reached(j)'
    BY <2>1, <2>4 DEF Reached
  <2> QED
    BY <1>4, <1>5, <1>7, <2>1, <2>3, <2>5
<1>10. CASE Handle
  <2>1. at = "completed" /\ UNCHANGED << sent, stream, ends, taken, memory >>
    BY <1>10 DEF Handle, server
  <2>2. PICK next : next = j + 1
    OBVIOUS
  <2>3. next \in 1 .. sent /\ ends[next] <= taken /\ BeginsWith(memory, Responses[next])
    BY <1>4, <2>1, <2>2 DEF Reached
  <2>4. PICK r : r = Responses[next]
    OBVIOUS
  <2>5. r \in SaveResponses \cup RankingResponses
    <3>1. next \in 1 .. Len(Responses)
      BY <1>6, <2>3, ConstantsAre
    <3> QED
      BY <2>4, <3>1, ConstantsAre
  <2>6. PICK n : n = Len(handled)
    OBVIOUS
  <2>7. /\ at' = "rearm" /\ crashed' = crashed
        /\ n \in Nat /\ Len(handled') = n + 1
        /\ \A k \in 1 .. n : handled'[k] = handled[k]
        /\ handled'[n + 1] = r
    BY <1>1, <1>10, <2>3, <2>4, <2>5, <2>6, HandledResponse
  <2>8. next <= i /\ j < next /\ next \in Nat
    <3>1. i < next => ends[i] < ends[next]
      <4>1. next \in 0 .. sent
        BY <1>6, <2>3
      <4> QED
        BY <1>1, <4>1 DEF StreamInv
    <3>2. ends[next] \in Nat /\ ends[i] \in Nat /\ next \in Nat
      BY <1>6, <2>3
    <3> QED
      BY <1>3, <1>6, <2>2, <2>3, <3>1, <3>2
  <2>9. PICK f : Picks(f, j)
    BY <1>4 DEF Told
  <2>10. /\ \A k \in 1 .. n : f[k] \in 1 .. j /\ handled[k] = Responses[f[k]]
         /\ \A k, l \in 1 .. n : k < l => f[k] < f[l]
    BY <2>6, <2>9 DEF Picks
  <2>11. PICK g : g = [k \in 1 .. n + 1 |-> IF k = n + 1 THEN next ELSE f[k]]
    OBVIOUS
  <2>12. /\ \A k \in 1 .. n : k \in 1 .. n + 1 /\ g[k] = f[k] /\ g[k] \in Nat /\ g[k] <= j
         /\ n + 1 \in 1 .. n + 1 /\ g[n + 1] = next
         /\ \A k \in 1 .. n + 1 : k \in 1 .. n \/ k = n + 1
    BY <1>6, <2>7, <2>10, <2>11
  <2>13. \A k \in 1 .. n + 1 : g[k] \in 1 .. i /\ handled'[k] = Responses[g[k]]
    <3>1. ASSUME NEW k \in 1 .. n + 1 PROVE g[k] \in 1 .. i /\ handled'[k] = Responses[g[k]]
      <4>1. CASE k \in 1 .. n
        <5>1. g[k] \in 1 .. i
          BY <1>6, <2>8, <2>10, <2>12, <4>1
        <5> QED
          BY <2>7, <2>10, <2>12, <4>1, <5>1
      <4>2. CASE k = n + 1
        <5>1. next \in 1 .. i
          BY <1>6, <2>3, <2>8
        <5> QED
          BY <2>4, <2>7, <2>12, <4>2, <5>1
      <4> QED
        BY <2>12, <4>1, <4>2
    <3> QED
      BY <3>1
  <2>14. \A k, l \in 1 .. n + 1 : k < l => g[k] < g[l]
    <3>1. ASSUME NEW k \in 1 .. n + 1, NEW l \in 1 .. n + 1, k < l PROVE g[k] < g[l]
      <4>1. k \in 1 .. n /\ (l \in 1 .. n \/ l = n + 1)
        BY <2>7, <3>1
      <4>2. CASE l \in 1 .. n
        BY <2>10, <2>12, <3>1, <4>1, <4>2
      <4>3. CASE l = n + 1
        BY <1>6, <2>8, <2>12, <4>1, <4>3
      <4> QED
        BY <4>1, <4>2, <4>3
    <3> QED
      BY <3>1
  <2>15. Told(i)'
    <3>1. g \in [1 .. n + 1 -> 1 .. i]
      BY <2>11, <2>13
    <3> QED
      BY <2>7, <2>13, <2>14, <3>1 DEF Told, Picks
  <2>16. Reached(i)'
    BY <1>3, <2>1, <2>7 DEF Reached
  <2> QED
    BY <1>3, <1>5, <2>1, <2>7, <2>15, <2>16
<1>11. CASE IgnoreUnknown
  <2>1. at = "completed" /\ ~Known
    BY <1>11 DEF IgnoreUnknown
  <2>2. j + 1 \in 1 .. sent /\ BeginsWith(memory, Responses[j + 1])
    BY <1>4, <2>1 DEF Reached
  <2>3. Responses[j + 1] \in SaveResponses \cup RankingResponses
    <3>1. j + 1 \in 1 .. Len(Responses)
      BY <1>6, <2>2, ConstantsAre
    <3> QED
      BY <3>1, ConstantsAre
  <2>4. memory \in Bytes /\ Len(memory) = Room
    BY <1>1 DEF TypeInv, TypeOK, Bytes
  <2> QED
    BY <2>1, <2>2, <2>3, <2>4, ResponseHandled
<1>12. CASE ReceiveReady
  <2>1. at = "rearm" /\ at' = "posted" /\ UNCHANGED << sent, ends, taken, handled, crashed >>
    BY <1>12 DEF ReceiveReady, server
  <2>2. Reached(j)'
    BY <1>4, <2>1 DEF Reached
  <2> QED
    BY <1>3, <1>4, <1>5, <1>7, <2>1, <2>2
<1>13. CASE UNCHANGED vars
  <2>1. UNCHANGED << sent, ends, taken, memory, at, handled, crashed >>
    BY <1>13 DEF vars
  <2>2. Reached(j)'
    BY <1>4, <2>1 DEF Reached
  <2> QED
    BY <1>3, <1>4, <1>5, <1>7, <2>1, <2>2
<1> QED
  BY <1>1, <1>8, <1>9, <1>10, <1>11, <1>12, <1>13 DEF Next, Worker

-----------------------------------------------------------------------------
(***************************************************************************)
(* As long as every receive takes exactly one response                     *)
(***************************************************************************)

(* Every response is handled but the one that is in the buffers.           *)
WholeInv ==
  whole =>
    /\ aligned
    /\ Len(handled) \in 0 .. sent
    /\ \A k \in 1 .. Len(handled) : handled[k] = Responses[k]
    /\ at = "completed" =>
         /\ Len(handled) + 1 \in 1 .. sent /\ taken = ends[Len(handled) + 1]
         /\ BeginsWith(memory, Responses[Len(handled) + 1])
    /\ at # "completed" => taken = ends[Len(handled)]

(* The least of a set of numbers.                                          *)
LEMMA LeastIsMin ==
  ASSUME NEW S \in SUBSET Int, NEW x \in S, \A y \in S : x <= y
  PROVE  Min(S) = x
<1>1. \A y \in S : (\A z \in S : y <= z) => y = x
  OBVIOUS
<1>2. Min(S) \in S /\ \A z \in S : Min(S) <= z
  BY DEF Min
<1> QED
  BY <1>1, <1>2

(* Behind the j-th response the next end is that of the one after.         *)
LEMMA NextEnd ==
  ASSUME TypeInv, StreamInv, NEW j \in 0 .. sent, ends[j] < Len(stream)
  PROVE  j + 1 \in 1 .. sent /\ Min({e \in Range(ends) : e > ends[j]}) = ends[j + 1]
<1>1. PICK next, S : next = j + 1 /\ S = {e \in Range(ends) : e > ends[j]}
  OBVIOUS
<1>2. sent \in Nat /\ j \in Nat /\ next \in Nat /\ \A k \in 0 .. sent : ends[k] \in Nat
  BY <1>1, ConstantsAre DEF TypeInv, TypeOK
<1>3. next \in 1 .. sent /\ next \in 0 .. sent
  <2>1. j # sent
    BY <1>2 DEF StreamInv
  <2> QED
    BY <1>1, <1>2, <2>1
<1>4. \A e : e \in Range(ends) <=> \E k \in 0 .. sent : ends[k] = e
  BY DEF Range, TypeInv, TypeOK
<1>5. S \in SUBSET Int
  BY <1>1, <1>2, <1>4
<1>6. ends[next] \in S
  <2>1. ends[j] < ends[next]
    BY <1>1, <1>2, <1>3 DEF StreamInv
  <2> QED
    BY <1>1, <1>2, <1>3, <1>4, <2>1
<1>7. ASSUME NEW e \in S PROVE ends[next] <= e
  <2>1. PICK k \in 0 .. sent : ends[k] = e
    BY <1>1, <1>4
  <2>2. ends[k] > ends[j] /\ k \in Nat
    BY <1>1, <1>2, <2>1
  <2>3. j < k
    <3>1. k < j => ends[k] < ends[j]
      BY DEF StreamInv
    <3> QED
      BY <1>2, <2>2, <3>1
  <2>4. next = k \/ next < k
    BY <1>1, <1>2, <2>2, <2>3
  <2>5. next < k => ends[next] < ends[k]
    BY <1>3 DEF StreamInv
  <2> QED
    BY <1>2, <1>3, <2>1, <2>4, <2>5
<1>8. Min(S) = ends[next]
  BY <1>5, <1>6, <1>7, LeastIsMin
<1> QED
  BY <1>1, <1>3, <1>8

LEMMA WholeInit == Init => WholeInv
<1>1. SUFFICES ASSUME Init PROVE WholeInv
  OBVIOUS
<1>2. /\ sent = 0 /\ ends[0] = 0 /\ taken = 0 /\ at = "posted" /\ aligned
      /\ handled = << >> /\ Len(handled) = 0
  BY <1>1 DEF Init
<1> QED
  BY <1>2 DEF WholeInv

LEMMA WholeNext == TypeInv /\ StreamInv /\ WholeInv /\ [Next]_vars => WholeInv'
<1>1. SUFFICES ASSUME TypeInv, StreamInv, WholeInv, [Next]_vars, whole'
               PROVE  /\ aligned'
                      /\ Len(handled') \in 0 .. sent'
                      /\ \A k \in 1 .. Len(handled') : handled'[k] = Responses[k]
                      /\ at' = "completed" =>
                           /\ Len(handled') + 1 \in 1 .. sent' /\ taken' = ends'[Len(handled') + 1]
                           /\ BeginsWith(memory', Responses[Len(handled') + 1])
                      /\ at' # "completed" => taken' = ends'[Len(handled')]
  BY DEF WholeInv
<1>2. whole
  BY <1>1 DEF Next, ServerSends, Receive, Worker, Handle, IgnoreUnknown, ReceiveReady, vars
<1>3. PICK j, next : j = Len(handled) /\ next = j + 1
  OBVIOUS
<1>4. /\ aligned /\ j \in 0 .. sent
      /\ \A k \in 1 .. j : handled[k] = Responses[k]
      /\ at # "completed" => taken = ends[j]
  BY <1>1, <1>2, <1>3 DEF WholeInv
<1>5. at = "completed" => next \in 1 .. sent /\ taken = ends[next] /\ BeginsWith(memory, Responses[next])
  BY <1>1, <1>2, <1>3 DEF WholeInv
<1>6. sent \in Nat /\ sent <= Len(Responses) /\ j \in Nat
  BY <1>1, <1>4, ConstantsAre DEF TypeInv, TypeOK
<1>7. CASE ServerSends
  <2>1. sent' = sent + 1 /\ UNCHANGED << taken, memory, at, handled, aligned >>
    BY <1>7 DEF ServerSends
  <2>2. \A k \in 0 .. sent : k \in 0 .. sent' /\ ends'[k] = ends[k]
    <3>1. ASSUME NEW k \in 0 .. sent PROVE k \in 0 .. sent' /\ k # sent'
      BY <1>6, <2>1
    <3> QED
      BY <1>7, <3>1 DEF ServerSends
  <2>3. next \in 1 .. sent => next \in 0 .. sent /\ next \in 1 .. sent'
    BY <1>6, <2>1
  <2> QED
    BY <1>3, <1>4, <1>5, <2>1, <2>2, <2>3
<1>8. ASSUME NEW n \in 1 .. Len(stream) - taken, Receive(n)
      PROVE  /\ aligned'
             /\ Len(handled') \in 0 .. sent'
             /\ \A k \in 1 .. Len(handled') : handled'[k] = Responses[k]
             /\ at' = "completed" =>
                  /\ Len(handled') + 1 \in 1 .. sent' /\ taken' = ends'[Len(handled') + 1]
                  /\ BeginsWith(memory', Responses[Len(handled') + 1])
             /\ at' # "completed" => taken' = ends'[Len(handled')]
  <2>1. /\ at = "posted" /\ at' = "completed" /\ UNCHANGED << sent, ends, handled >>
        /\ taken' = Min({e \in Range(ends) : e > taken})
        /\ aligned' = (aligned /\ taken' \in Range(ends))
    BY <1>1, <1>8 DEF Receive, server
  <2>2. ends[j] = taken /\ ends[j] < Len(stream)
    <3>1. n \in Nat /\ n > 0 /\ taken \in Nat /\ Len(stream) \in Nat /\ taken + n <= Len(stream)
      BY <1>1, <1>8, ReceivedBytes
    <3> QED
      BY <1>4, <2>1, <3>1
  <2>3. next \in 1 .. sent /\ Min({e \in Range(ends) : e > ends[j]}) = ends[next]
    BY <1>1, <1>3, <1>4, <2>2, NextEnd
  <2>4. taken' = ends[next]
    BY <2>1, <2>2, <2>3
  <2>5. next \in 0 .. sent
    BY <1>6, <2>3
  <2>6. BeginsWith(memory', Responses[next])
    BY <1>1, <1>3, <1>4, <1>8, <2>2, <2>4, <2>5, ReceivedResponse
  <2>7. aligned'
    BY <1>1, <1>4, <2>1, <2>4, <2>5 DEF Range, TypeInv, TypeOK
  <2> QED
    BY <1>3, <1>4, <2>1, <2>3, <2>4, <2>6, <2>7
<1>9. CASE Handle
  <2>1. at = "completed" /\ UNCHANGED << sent, ends, taken, aligned >>
    BY <1>9 DEF Handle, server
  <2>2. PICK r : r = Responses[next]
    OBVIOUS
  <2>3. r \in SaveResponses \cup RankingResponses
    <3>1. next \in 1 .. Len(Responses)
      BY <1>5, <1>6, <2>1, ConstantsAre
    <3> QED
      BY <2>2, <3>1, ConstantsAre
  <2>4. /\ at' = "rearm" /\ Len(handled') = next
        /\ \A k \in 1 .. j : handled'[k] = handled[k]
        /\ handled'[next] = r
    BY <1>1, <1>3, <1>5, <1>9, <2>1, <2>2, <2>3, HandledResponse
  <2>5. \A k \in 1 .. next : k \in 1 .. j \/ k = next
    BY <1>3, <1>6
  <2>6. next \in 0 .. sent
    BY <1>5, <1>6, <2>1
  <2> QED
    BY <1>4, <1>5, <2>1, <2>2, <2>4, <2>5, <2>6
<1>10. CASE IgnoreUnknown
  <2>1. at = "completed" /\ ~Known
    BY <1>10 DEF IgnoreUnknown
  <2>2. PICK r : r = Responses[next]
    OBVIOUS
  <2>3. r \in SaveResponses \cup RankingResponses
    <3>1. next \in 1 .. Len(Responses)
      BY <1>5, <1>6, <2>1, ConstantsAre
    <3> QED
      BY <2>2, <3>1, ConstantsAre
  <2>4. memory \in Bytes /\ Len(memory) = Room
    BY <1>1 DEF TypeInv, TypeOK, Bytes
  <2> QED
    BY <1>5, <2>1, <2>2, <2>3, <2>4, ResponseHandled
<1>11. CASE ReceiveReady
  <2>1. at = "rearm" /\ at' = "posted" /\ UNCHANGED << sent, ends, taken, handled, aligned >>
    BY <1>11 DEF ReceiveReady, server
  <2> QED
    BY <1>3, <1>4, <2>1
<1>12. CASE UNCHANGED vars
  <2>1. UNCHANGED << sent, ends, taken, memory, at, handled, aligned >>
    BY <1>12 DEF vars
  <2> QED
    BY <1>3, <1>4, <1>5, <2>1
<1> QED
  BY <1>1, <1>7, <1>8, <1>9, <1>10, <1>11, <1>12 DEF Next, Worker

-----------------------------------------------------------------------------
(***************************************************************************)
(* What the client has handled                                             *)
(***************************************************************************)
StreamIInv == TypeInv /\ StreamInv /\ AlignedInv /\ WholeInv

LEMMA StreamInvariant == Spec => []StreamIInv
<1>1. Init => StreamIInv
  BY TypeInit, StreamInit, AlignedInit, WholeInit DEF StreamIInv
<1>2. StreamIInv /\ [Next]_vars => StreamIInv'
  BY TypeNext, StreamNext, AlignedNext, WholeNext DEF StreamIInv
<1> QED
  BY <1>1, <1>2, PTL DEF Spec

(* As long as every receive takes exactly one response, the responses are  *)
(* handled as the server sent them, in order, field by field, and none is  *)
(* left out, whatever they are and however many (Network.cpp 147-209,      *)
(* Client.cpp 79-89).                                                      *)
THEOREM ResponsesHandledAsSent == Spec => []HandledAsSent
<1>1. StreamIInv => HandledAsSent
  <2>1. SUFFICES ASSUME StreamIInv, whole PROVE HandledAsSent
    BY DEF HandledAsSent
  <2>2. PICK j : j = Len(handled)
    OBVIOUS
  <2>3. /\ j \in 0 .. sent /\ ~crashed
        /\ \A k \in 1 .. j : handled[k] = Responses[k]
        /\ at = "completed" => taken = ends[j + 1]
        /\ at # "completed" => taken = ends[j]
    BY <2>1, <2>2 DEF StreamIInv, WholeInv, AlignedInv
  <2>4. DOMAIN handled = 1 .. j
    BY <2>1, <2>2 DEF StreamIInv, TypeInv, IsLong
  <2>5. taken = ends[j + IF at = "completed" THEN 1 ELSE 0]
    <3>1. j + 0 = j
      BY <2>3
    <3> QED
      BY <2>3, <3>1
  <2> QED
    BY <2>2, <2>3, <2>4, <2>5 DEF HandledAsSent
<1> QED
  BY <1>1, StreamInvariant, PTL

(* As long as receives end with a response, the client neither crashes nor *)
(* goes deaf, and what it handles has been sent, in that order             *)
(* (bytesTransferred is never looked at, Network.cpp 149-161).             *)
THEOREM ResponsesNotMistaken == Spec => []LostButNotMistaken
<1>1. StreamIInv => LostButNotMistaken
  <2>1. SUFFICES ASSUME StreamIInv, aligned PROVE LostButNotMistaken
    BY DEF LostButNotMistaken
  <2>2. ~crashed /\ at # "deaf" /\ sent \in Nat
    BY <2>1, ConstantsAre DEF StreamIInv, AlignedInv, TypeInv, TypeOK
  <2>3. PICK j \in 0 .. sent : Told(j)
    BY <2>1 DEF StreamIInv, AlignedInv
  <2>4. PICK f : Picks(f, j)
    BY <2>3 DEF Told
  <2>5. DOMAIN handled = 1 .. Len(handled)
    BY <2>1 DEF StreamIInv, TypeInv, IsLong
  <2>6. \A k \in DOMAIN handled : f[k] \in 1 .. sent /\ handled[k] = Responses[f[k]]
    <3>1. \A n \in 1 .. j : n \in 1 .. sent
      BY <2>2
    <3> QED
      BY <2>4, <2>5, <3>1 DEF Picks
  <2>7. \A k, l \in DOMAIN handled : k < l => f[k] < f[l]
    BY <2>4, <2>5 DEF Picks
  <2> QED
    BY <2>2, <2>6, <2>7 DEF LostButNotMistaken
<1> QED
  BY <1>1, StreamInvariant, PTL

(* As long as receives end with a response, none is handled more often     *)
(* than it was sent (Network.cpp 147-209).                                 *)
THEOREM ResponsesHandledOnce == Spec => [](aligned => NothingHandledTwice)
<1>1. ASSUME StreamIInv, aligned, NEW r
      PROVE  Cardinality({k \in DOMAIN handled : handled[k] = r})
               <= Cardinality({n \in 1 .. sent : Responses[n] = r})
  <2>1. sent \in Nat
    BY <1>1, ConstantsAre DEF StreamIInv, TypeInv, TypeOK
  <2>2. PICK j \in 0 .. sent : Told(j)
    BY <1>1 DEF StreamIInv, AlignedInv
  <2>3. PICK f : Picks(f, j)
    BY <2>2 DEF Told
  <2>4. DOMAIN handled = 1 .. Len(handled) /\ Len(handled) \in Nat
    BY <1>1 DEF StreamIInv, TypeInv, IsLong
  <2>5. PICK A, B : /\ A = {k \in DOMAIN handled : handled[k] = r}
                    /\ B = {n \in 1 .. sent : Responses[n] = r}
    OBVIOUS
  <2>6. IsFiniteSet(B)
    <3>1. IsFiniteSet(1 .. sent)
      BY <2>1, FS_Interval
    <3>2. B \in SUBSET (1 .. sent)
      BY <2>5
    <3> QED
      BY <3>1, <3>2, FS_Subset
  <2>7. PICK g : g = [k \in A |-> f[k]]
    OBVIOUS
  <2>8. g \in [A -> B]
    <3>1. ASSUME NEW k \in A PROVE f[k] \in B
      <4>1. k \in 1 .. Len(handled) /\ handled[k] = r
        BY <2>4, <2>5
      <4>2. f[k] \in 1 .. j /\ Responses[f[k]] = r
        BY <2>3, <4>1 DEF Picks
      <4>3. f[k] \in 1 .. sent
        BY <2>1, <4>2
      <4> QED
        BY <2>5, <4>2, <4>3
    <3> QED
      BY <2>7, <3>1
  <2>9. \A k, l \in A : g[k] = g[l] => k = l
    <3>1. SUFFICES ASSUME NEW k \in A, NEW l \in A, g[k] = g[l] PROVE k = l
      OBVIOUS
    <3>2. k \in 1 .. Len(handled) /\ l \in 1 .. Len(handled) /\ f[k] = f[l]
      BY <2>4, <2>5, <2>7, <3>1
    <3>3. f[k] \in Nat /\ f[l] \in Nat
      BY <2>3, <3>2 DEF Picks
    <3>4. (k < l => f[k] < f[l]) /\ (l < k => f[l] < f[k])
      BY <2>3, <3>2 DEF Picks
    <3> QED
      BY <2>4, <3>2, <3>3, <3>4
  <2>10. g \in Injection(A, B)
    BY <2>8, <2>9 DEF Injection, IsInjective
  <2>11. Cardinality(A) <= Cardinality(B)
    BY <2>6, <2>10, FS_Injection
  <2> QED
    BY <2>5, <2>11
<1>2. StreamIInv => (aligned => NothingHandledTwice)
  BY <1>1 DEF NothingHandledTwice
<1> QED
  BY <1>2, StreamInvariant, PTL

=============================================================================
