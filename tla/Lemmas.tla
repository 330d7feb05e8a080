-------------------------------- MODULE Lemmas --------------------------------
(***************************************************************************)
(* Lemmas that the proofs of several components use: about counting, about *)
(* sequences of any elements, and about FlatBuffer, what its builder       *)
(* writes and what the accessors of a table read.                          *)
(***************************************************************************)
EXTENDS FlatBuffer, FiniteSetTheorems, SequenceTheorems, TLAPS

(* One element more, or one less.                                          *)
LEMMA CountStep ==
  ASSUME NEW S, IsFiniteSet(S), NEW x
  PROVE  /\ IsFiniteSet(S \cup {x}) /\ IsFiniteSet(S \ {x}) /\ Cardinality(S) \in Nat
         /\ x \notin S => Cardinality(S \cup {x}) = Cardinality(S) + 1
         /\ x \in S => Cardinality(S \ {x}) = Cardinality(S) - 1
  BY FS_AddElement, FS_RemoveElement, FS_CardinalityType

(* One pair for each of the f[c] things that c has, for the c of S.        *)
PairsOf(S, f) == UNION {{c} \X (1 .. f[c]) : c \in S}

(* The pairs of a c have its numbers behind it.                            *)
LEMMA PairsMember ==
  ASSUME NEW S, NEW f, NEW x
  PROVE  x \in PairsOf(S, f) <=> \E c \in S : \E k \in 1 .. f[c] : x = << c, k >>
<1>1. ASSUME x \in PairsOf(S, f)
      PROVE  \E c \in S : \E k \in 1 .. f[c] : x = << c, k >>
  <2>1. PICK c \in S : x \in {c} \X (1 .. f[c])
    BY <1>1 DEF PairsOf
  <2> QED
    BY <2>1
<1>2. ASSUME NEW c \in S, NEW k \in 1 .. f[c], x = << c, k >>
      PROVE  x \in PairsOf(S, f)
  <2>1. x \in {c} \X (1 .. f[c])
    BY <1>2
  <2> QED
    BY <2>1 DEF PairsOf
<1> QED
  BY <1>1, <1>2

(* One thing more of a c is one pair more.                                 *)
LEMMA PairsAdd ==
  ASSUME NEW S, NEW f \in [S -> Nat], NEW c \in S, IsFiniteSet(PairsOf(S, f)),
         NEW g \in [S -> Nat], g[c] = f[c] + 1, \A d \in S \ {c} : g[d] = f[d]
  PROVE  /\ IsFiniteSet(PairsOf(S, g))
         /\ Cardinality(PairsOf(S, g)) = Cardinality(PairsOf(S, f)) + 1
<1> DEFINE new == << c, f[c] + 1 >>
<1>1. new \notin PairsOf(S, f)
  <2> SUFFICES ASSUME new \in PairsOf(S, f) PROVE FALSE
    OBVIOUS
  <2>0. PICK d \in S : \E k \in 1 .. f[d] : new = << d, k >>
    BY PairsMember
  <2>1. PICK k \in 1 .. f[d] : new = << d, k >>
    BY <2>0
  <2>2. d = c /\ k = f[c] + 1
    BY <2>1
  <2> QED
    BY <2>2
<1>2. ASSUME NEW x
      PROVE  x \in PairsOf(S, g) <=> x \in PairsOf(S, f) \cup {new}
  <2>1. ASSUME x \in PairsOf(S, g) PROVE x \in PairsOf(S, f) \cup {new}
    <3>0. PICK d \in S : \E k \in 1 .. g[d] : x = << d, k >>
      BY <2>1, PairsMember
    <3>1. PICK k \in 1 .. g[d] : x = << d, k >>
      BY <3>0
    <3>2. CASE d = c /\ k = f[c] + 1
      BY <3>1, <3>2
    <3>3. CASE ~(d = c /\ k = f[c] + 1)
      <4>1. k \in 1 .. f[d]
        BY <3>3
      <4> QED
        BY <3>1, <4>1, PairsMember
    <3> QED
      BY <3>2, <3>3
  <2>2. ASSUME x \in PairsOf(S, f) PROVE x \in PairsOf(S, g)
    <3>0. PICK d \in S : \E k \in 1 .. f[d] : x = << d, k >>
      BY <2>2, PairsMember
    <3>1. PICK k \in 1 .. f[d] : x = << d, k >>
      BY <3>0
    <3>2. k \in 1 .. g[d]
      BY <3>1
    <3> QED
      BY <3>1, <3>2, PairsMember
  <2>3. ASSUME x = new PROVE x \in PairsOf(S, g)
    <3>1. f[c] + 1 \in 1 .. g[c]
      OBVIOUS
    <3> QED
      BY <2>3, <3>1, PairsMember
  <2> QED
    BY <2>1, <2>2, <2>3
<1> HIDE DEF new
<1>3. PairsOf(S, g) = PairsOf(S, f) \cup {new}
  BY <1>2
<1> QED
  BY <1>1, <1>3, CountStep

(* One thing less is one pair less.                                        *)
LEMMA PairsTake ==
  ASSUME NEW S, NEW f \in [S -> Nat], NEW c \in S, IsFiniteSet(PairsOf(S, f)),
         NEW g \in [S -> Nat], f[c] = g[c] + 1, \A d \in S \ {c} : g[d] = f[d]
  PROVE  /\ IsFiniteSet(PairsOf(S, g))
         /\ Cardinality(PairsOf(S, g)) = Cardinality(PairsOf(S, f)) - 1
<1>2. IsFiniteSet(PairsOf(S, g))
  <2>1. ASSUME NEW x \in PairsOf(S, g) PROVE x \in PairsOf(S, f)
    <3>0. PICK d \in S : \E k \in 1 .. g[d] : x = << d, k >>
      BY PairsMember
    <3>1. PICK k \in 1 .. g[d] : x = << d, k >>
      BY <3>0
    <3>2. k \in 1 .. f[d]
      BY <3>1
    <3> QED
      BY <3>1, <3>2, PairsMember
  <2> QED
    BY <2>1, FS_Subset
<1>3. Cardinality(PairsOf(S, f)) = Cardinality(PairsOf(S, g)) + 1
  BY <1>2, PairsAdd
<1> QED
  BY <1>2, <1>3, FS_CardinalityType

(* A c has no more things than there are.                                  *)
LEMMA PairsBound ==
  ASSUME NEW S, NEW f \in [S -> Nat], NEW c \in S, IsFiniteSet(PairsOf(S, f))
  PROVE  f[c] <= Cardinality(PairsOf(S, f))
<1>1. ({c} \X (1 .. f[c])) \in SUBSET PairsOf(S, f)
  BY DEF PairsOf
<1>2. IsFiniteSet(1 .. f[c]) /\ Cardinality(1 .. f[c]) = f[c]
  BY FS_Interval
<1>3. IsFiniteSet({c}) /\ Cardinality({c}) = 1
  BY FS_Singleton
<1>4. Cardinality({c} \X (1 .. f[c])) = 1 * f[c]
  BY <1>2, <1>3, FS_Product
<1> QED
  BY <1>1, <1>4, FS_Subset
-----------------------------------------------------------------------------
(* A sequence of n elements, of whatever kind.                             *)
IsLong(s, n) == n \in Nat /\ s = [k \in 1 .. n |-> s[k]]

(* The sequence is of elements of a set, its own.                          *)
LEMMA LongIsSeq ==
  ASSUME NEW s, NEW n, IsLong(s, n)
  PROVE  s \in Seq({s[k] : k \in 1 .. n}) /\ Len(s) = n
<1>1. s \in [1 .. n -> {s[k] : k \in 1 .. n}]
  BY DEF IsLong
<1> QED
  BY <1>1 DEF IsLong

(* The whole of it.                                                        *)
LEMMA WholeOfLong ==
  ASSUME NEW s, NEW n, IsLong(s, n)
  PROVE  SubSeq(s, 1, n) = s
<1> DEFINE S == {s[k] : k \in 1 .. n}
<1>1. s \in Seq(S) /\ Len(s) = n
  BY LongIsSeq
<1> HIDE DEF S
<1> QED
  BY <1>1

(* A sequence over a set is as long as its length.                         *)
LEMMA SeqIsLong ==
  ASSUME NEW S, NEW s \in Seq(S)
  PROVE  IsLong(s, Len(s))
BY DEF IsLong

(* The elements counted from the end, the last one first: there they stay  *)
(* when something is put in front.                                         *)
FromEnd(s, off) == s[Len(s) + 1 - off]
Keeps(s, t) ==
  Len(t) <= Len(s) /\ \A off \in 1 .. Len(t) : FromEnd(s, off) = FromEnd(t, off)

(* What is kept by what is kept is kept.                                   *)
LEMMA KeepsOn ==
  ASSUME NEW s, NEW t, NEW u, NEW k, NEW m, NEW n, IsLong(s, k), IsLong(t, m), IsLong(u, n),
         Keeps(s, t), Keeps(t, u)
  PROVE  Keeps(s, u)
<1>1. k \in Nat /\ m \in Nat /\ n \in Nat /\ Len(s) = k /\ Len(t) = m /\ Len(u) = n
  BY LongIsSeq DEF IsLong
<1>2. m <= k /\ n <= m
  BY <1>1 DEF Keeps
<1>3. \A off \in 1 .. n : off \in 1 .. m
  BY <1>1, <1>2
<1> QED
  BY <1>1, <1>2, <1>3 DEF Keeps

(* Sequences put together.                                                 *)
LEMMA ConcatIsLong ==
  ASSUME NEW s, NEW t, NEW m, NEW n, IsLong(s, m), IsLong(t, n)
  PROVE  /\ IsLong(s \o t, m + n) /\ Keeps(s \o t, t)
         /\ \A k \in 1 .. m : (s \o t)[k] = s[k] /\ FromEnd(s \o t, m + n + 1 - k) = s[k]
<1> DEFINE S == {s[k] : k \in 1 .. m}
           T == {t[k] : k \in 1 .. n}
<1>1. s \in Seq(S) /\ Len(s) = m /\ t \in Seq(T) /\ Len(t) = n /\ m \in Nat /\ n \in Nat
  BY LongIsSeq DEF IsLong
<1> HIDE DEF S, T
<1>2. s \in Seq(S \cup T) /\ t \in Seq(S \cup T)
  BY <1>1
<1>3. /\ s \o t \in Seq(S \cup T) /\ Len(s \o t) = m + n
      /\ \A k \in 1 .. m : (s \o t)[k] = s[k]
      /\ \A k \in 1 .. n : (s \o t)[m + k] = t[k]
  BY <1>1, <1>2
<1>4. IsLong(s \o t, m + n)
  BY <1>3, SeqIsLong
<1> DEFINE st == s \o t
<1> HIDE DEF st
<1>5. ASSUME NEW off \in 1 .. n
      PROVE  FromEnd(st, off) = FromEnd(t, off)
  <2>1. n + 1 - off \in 1 .. n /\ m + n + 1 - off = m + (n + 1 - off)
    BY <1>1
  <2>2. st[m + (n + 1 - off)] = t[n + 1 - off]
    BY <1>3, <2>1 DEF st
  <2> QED
    BY <1>1, <1>3, <2>1, <2>2 DEF FromEnd, st
<1>6. Keeps(st, t)
  BY <1>1, <1>3, <1>5 DEF Keeps, st
<1>7. ASSUME NEW k \in 1 .. m
      PROVE  FromEnd(st, m + n + 1 - k) = s[k]
  <2>1. (m + n) + 1 - (m + n + 1 - k) = k
    BY <1>1
  <2> QED
    BY <1>3, <2>1 DEF FromEnd, st
<1> QED
  BY <1>3, <1>4, <1>6, <1>7 DEF st

(* One element more.                                                       *)
LEMMA AppendIsLong ==
  ASSUME NEW s, NEW n, IsLong(s, n), NEW x
  PROVE  /\ IsLong(Append(s, x), n + 1) /\ Len(Append(s, x)) = n + 1
         /\ \A k \in 1 .. n : Append(s, x)[k] = s[k]
         /\ Append(s, x)[n + 1] = x
<1> DEFINE S == {s[k] : k \in 1 .. n}
           a == Append(s, x)
<1>1. s \in Seq(S) /\ Len(s) = n /\ n \in Nat
  BY LongIsSeq DEF IsLong
<1> HIDE DEF S
<1>2. s \in Seq(S \cup {x}) /\ x \in S \cup {x}
  BY <1>1
<1>3. /\ a \in Seq(S \cup {x}) /\ Len(a) = n + 1
      /\ \A k \in 1 .. n : a[k] = s[k]
      /\ a[n + 1] = x
  BY <1>1, <1>2
<1> HIDE DEF a
<1>4. IsLong(a, n + 1)
  BY <1>3, SeqIsLong
<1> QED
  BY <1>3, <1>4 DEF a

(* What is left without the first four elements.                           *)
LEMMA RestIsLong ==
  ASSUME NEW s, NEW n, IsLong(s, n + 4), n \in Nat
  PROVE  /\ IsLong(SubSeq(s, 5, Len(s)), n)
         /\ \A off \in 1 .. n : FromEnd(SubSeq(s, 5, Len(s)), off) = FromEnd(s, off)
<1> DEFINE S == {s[k] : k \in 1 .. n + 4}
           r == SubSeq(s, 5, n + 4)
<1>1. s \in Seq(S) /\ Len(s) = n + 4
  BY LongIsSeq
<1> HIDE DEF S
<1>2. r \in Seq(S) /\ Len(r) = n
  BY <1>1
<1>3. ASSUME NEW off \in 1 .. n
      PROVE  FromEnd(r, off) = FromEnd(s, off)
  <2>1. n + 1 - off \in 1 .. n /\ (n + 4) + 1 - off = (n + 1 - off) + 4
    OBVIOUS
  <2>2. r[n + 1 - off] = s[(n + 1 - off) + 4]
    BY <1>1, <2>1
  <2> QED
    BY <1>1, <1>2, <2>1, <2>2 DEF FromEnd
<1> QED
  BY <1>1, <1>2, <1>3, SeqIsLong

-----------------------------------------------------------------------------
(***************************************************************************)
(* The bytes that FlatBufferBuilder writes: how many, and where each       *)
(* integer stands, counted from the end of its memory                      *)
(***************************************************************************)

(* A builder that has written size bytes.                                  *)
Built(b, size, minalign, fields, last) ==
  /\ b \in [data : {b.data}, minalign : {minalign}, fields : {fields}, last : {last}]
  /\ IsLong(b.data, size)

(* An integer stands at an offset, in n bytes.                             *)
Word(data, off, x, n) ==
  \A k \in 1 .. n : FromEnd(data, off + 1 - k) = LittleEndian(x, n)[k]

(* The greatest of a set of numbers.                                       *)
LEMMA GreatestIsMax ==
  ASSUME NEW S \in SUBSET Int, NEW x \in S, \A y \in S : x >= y
  PROVE  Max(S) = x
<1>1. \A y \in S : (\A z \in S : y >= z) => y = x
  OBVIOUS
<1>2. Max(S) \in S /\ \A z \in S : Max(S) >= z
  BY DEF Max
<1> QED
  BY <1>1, <1>2

(* A number is greater than 0.                                             *)
LEMMA GreatestOfTwo ==
  ASSUME NEW x \in Nat
  PROVE  Max({0} \cup {x}) = x
<1>1. {0} \cup {x} \in SUBSET Int /\ x \in {0} \cup {x} /\ \A y \in {0} \cup {x} : x >= y
  OBVIOUS
<1> HIDE DEF Max
<1> QED
  BY <1>1, GreatestIsMax

(* What has the fields of a builder is one.                                *)
LEMMA BuiltAs ==
  ASSUME NEW b, NEW data, NEW size, NEW minalign, NEW fields, NEW last,
         b \in [data : {data}, minalign : {minalign}, fields : {fields}, last : {last}],
         IsLong(data, size)
  PROVE  Built(b, size, minalign, fields, last) /\ b.data = data
<1>1. b.data = data
  OBVIOUS
<1> QED
  BY <1>1 DEF Built

(* What is written stays where it is.                                      *)
LEMMA WordStays ==
  ASSUME NEW d, NEW e, NEW size \in Nat, Len(e) = size, Keeps(d, e),
         NEW n \in Nat, NEW off \in Nat, n <= off, off <= size, NEW x, Word(e, off, x, n)
  PROVE  Word(d, off, x, n)
<1>1. \A k \in 1 .. n : off + 1 - k \in 1 .. size
  OBVIOUS
<1> QED
  BY <1>1 DEF Keeps, Word

(* Padding fills up to a multiple of n.                                    *)
LEMMA PreAlignSize ==
  ASSUME NEW b, NEW size, NEW minalign \in Nat, NEW fields, NEW last,
         Built(b, size, minalign, fields, last),
         NEW len \in Nat, NEW n \in {1, 4, 8}
  PROVE  /\ Built(PreAlign(b, len, n), size + ((-(size + len)) % n),
                  IF minalign >= n THEN minalign ELSE n, fields, last)
         /\ Keeps(PreAlign(b, len, n).data, b.data)
<1> DEFINE pad == (-(size + len)) % n
<1>1. size \in Nat /\ Len(b.data) = size
  BY LongIsSeq DEF Built, IsLong
<1>2. pad \in Nat
  BY <1>1
<1>3. PaddingBytes(Len(b.data) + len, n) = pad
  BY <1>1 DEF PaddingBytes
<1>4. IsLong(Zeros(pad), pad)
  BY <1>2 DEF IsLong, Zeros
<1>5. IsLong(Zeros(pad) \o b.data, size + pad) /\ Keeps(Zeros(pad) \o b.data, b.data)
  <2>1. IsLong(Zeros(pad) \o b.data, pad + size) /\ Keeps(Zeros(pad) \o b.data, b.data)
    BY <1>4, ConcatIsLong DEF Built
  <2> QED
    BY <1>1, <1>2, <2>1
<1>6. Max({minalign, n}) = IF minalign >= n THEN minalign ELSE n
  <2>1. CASE minalign >= n
    BY <2>1, GreatestIsMax
  <2>2. CASE ~(minalign >= n)
    BY <2>2, GreatestIsMax
  <2> QED
    BY <2>1, <2>2
<1> DEFINE d == Zeros(pad) \o b.data
           m == Max({minalign, n})
<1>7. PreAlign(b, len, n) \in [data : {d}, minalign : {m}, fields : {fields}, last : {last}]
  <2>1. b \in [data : {b.data}, minalign : {minalign}, fields : {fields}, last : {last}]
    BY DEF Built
  <2>2. b.minalign = minalign
    BY <2>1
  <2>3. PreAlign(b, len, n) = [b EXCEPT !.data = d, !.minalign = m]
    BY <1>3, <2>2 DEF PreAlign
  <2> HIDE DEF d, m
  <2> QED
    BY <2>1, <2>3
<1> HIDE DEF pad
<1> QED
  BY <1>5, <1>6, <1>7, BuiltAs DEF pad

(* What is a multiple of 4 needs no padding.                               *)
LEMMA AlignSize ==
  ASSUME NEW b, NEW size, NEW minalign \in Nat, NEW fields, NEW last,
         Built(b, size, minalign, fields, last), size % 4 = 0, minalign >= 4
  PROVE  Built(Align(b, 4), size, minalign, fields, last) /\ Keeps(Align(b, 4).data, b.data)
<1>0. size \in Nat /\ 0 \in Nat /\ 4 \in {4, 8}
  BY DEF Built, IsLong
<1>1. /\ Built(PreAlign(b, 0, 4), size + ((-(size + 0)) % 4),
               IF minalign >= 4 THEN minalign ELSE 4, fields, last)
      /\ Keeps(PreAlign(b, 0, 4).data, b.data)
  BY <1>0, PreAlignSize
<1>2. size + ((-(size + 0)) % 4) = size
  BY <1>0
<1>3. (IF minalign >= 4 THEN minalign ELSE 4) = minalign
  OBVIOUS
<1>4. Built(PreAlign(b, 0, 4), size, minalign, fields, last)
  BY <1>1, <1>2, <1>3
<1> QED
  BY <1>1, <1>4 DEF Align

(* An element is padded to its own width, and written in front.            *)
LEMMA PushElementSize ==
  ASSUME NEW b, NEW size, NEW minalign \in Nat, NEW fields, NEW last,
         Built(b, size, minalign, fields, last),
         NEW x, NEW n \in {1, 4, 8}, NEW sum, sum = size + ((-size) % n) + n
  PROVE  /\ Built(PushElement(b, x, n), sum, IF minalign >= n THEN minalign ELSE n, fields, sum)
         /\ Keeps(PushElement(b, x, n).data, b.data)
         /\ Word(PushElement(b, x, n).data, sum, x, n)
<1> DEFINE a   == Align(b, n)
           m   == IF minalign >= n THEN minalign ELSE n
           len == size + ((-size) % n)
           d   == LittleEndian(x, n) \o a.data
<1>0. size \in Nat
  BY DEF Built, IsLong
<1>1. Built(a, len, m, fields, last) /\ Keeps(a.data, b.data)
  <2>1. /\ Built(a, size + ((-(size + 0)) % n), m, fields, last)
        /\ Keeps(a.data, b.data)
    BY PreAlignSize DEF Align
  <2>2. size + ((-(size + 0)) % n) = len
    BY <1>0
  <2> QED
    BY <2>1, <2>2
<1>2. /\ a \in [data : {a.data}, minalign : {m}, fields : {fields}, last : {last}]
      /\ IsLong(a.data, len) /\ Len(a.data) = len
  BY <1>1, LongIsSeq DEF Built
<1>3. IsLong(LittleEndian(x, n), n)
  BY DEF IsLong, LittleEndian
<1>4. /\ IsLong(d, n + len) /\ n + len = sum /\ Keeps(d, a.data)
      /\ \A k \in 1 .. n : FromEnd(d, n + len + 1 - k) = LittleEndian(x, n)[k]
  BY <1>0, <1>2, <1>3, ConcatIsLong
<1>5. PushElement(b, x, n) = [a EXCEPT !.data = d, !.last = len + n]
  BY <1>2 DEF PushElement
<1> HIDE DEF d, m, a, len
<1>6. Keeps(d, b.data)
  BY <1>1, <1>2, <1>4, KeepsOn DEF Built
<1>7. len + n = sum
  BY DEF len
<1>8. PushElement(b, x, n) \in [data : {d}, minalign : {m}, fields : {fields}, last : {sum}]
  BY <1>2, <1>5, <1>7
<1>9. Built(PushElement(b, x, n), sum, m, fields, sum) /\ PushElement(b, x, n).data = d
  BY <1>4, <1>8, BuiltAs
<1> QED
  BY <1>4, <1>6, <1>9 DEF m, Word

(* A string has a length in front and a 0 behind, and ends on a multiple   *)
(* of 4.                                                                   *)
LEMMA CreateStringSize ==
  ASSUME NEW chars, NEW L, IsLong(chars, L), NEW sum, sum = L + 5 + ((-(L + 1)) % 4)
  PROVE  /\ Built(CreateString(NewBuilder, chars), sum, 4, {}, sum)
         /\ Word(CreateString(NewBuilder, chars).data, sum, L, 4)
         /\ \A k \in 1 .. L : FromEnd(CreateString(NewBuilder, chars).data, sum - 3 - k) = chars[k]
<1> DEFINE a   == PreAlign(NewBuilder, L + 1, 4)
           pad == (-(L + 1)) % 4
           d   == chars \o << 0 >> \o a.data
           c   == [a EXCEPT !.data = d]
<1>0. L \in Nat /\ Len(chars) = L /\ pad \in Nat
  BY LongIsSeq DEF IsLong
<1>1. Built(NewBuilder, 0, 1, {}, 0)
  <2>1. IsLong(<< >>, 0)
    BY DEF IsLong
  <2> QED
    BY <2>1, BuiltAs DEF NewBuilder
<1>2. Built(a, pad, 4, {}, 0)
  <2>0. L + 1 \in Nat /\ 1 \in Nat /\ 4 \in {4, 8}
    BY <1>0
  <2>1. Built(a, 0 + ((-(0 + (L + 1))) % 4), IF 1 >= 4 THEN 1 ELSE 4, {}, 0)
    BY <1>1, <2>0, PreAlignSize
  <2>2. 0 + ((-(0 + (L + 1))) % 4) = pad
    BY <1>0
  <2> QED
    BY <2>1, <2>2
<1>3. /\ a \in [data : {a.data}, minalign : {4}, fields : {{}}, last : {0}]
      /\ IsLong(a.data, pad)
  BY <1>2 DEF Built
<1>4. IsLong(d, L + 1 + pad) /\ \A k \in 1 .. L : FromEnd(d, L + 1 + pad + 1 - k) = chars[k]
  <2>1. IsLong(<< 0 >>, 1)
    BY DEF IsLong
  <2> DEFINE e == chars \o << 0 >>
  <2>2. IsLong(e, L + 1) /\ \A k \in 1 .. L : e[k] = chars[k]
    BY <2>1, ConcatIsLong
  <2>3. 1 .. L \subseteq 1 .. L + 1
    BY <1>0
  <2> HIDE DEF e
  <2>4. /\ IsLong(e \o a.data, L + 1 + pad)
        /\ \A k \in 1 .. L + 1 : FromEnd(e \o a.data, L + 1 + pad + 1 - k) = e[k]
    BY <1>3, <2>2, ConcatIsLong
  <2> QED
    BY <2>2, <2>3, <2>4 DEF e
<1> HIDE DEF a, d
<1>5. Built(c, L + 1 + pad, 4, {}, 0) /\ c.data = d
  <2>1. c \in [data : {d}, minalign : {4}, fields : {{}}, last : {0}]
    BY <1>3
  <2> QED
    BY <1>4, <2>1, BuiltAs
<1>6. CreateString(NewBuilder, chars) = PushElement(c, L, 4)
  BY <1>0 DEF CreateString, a, d
<1>7. sum = (L + 1 + pad) + ((-(L + 1 + pad)) % 4) + 4 /\ sum = L + 1 + pad + 4
  BY <1>0
<1> HIDE DEF c, pad
<1>8. /\ Built(PushElement(c, L, 4), sum, IF 4 >= 4 THEN 4 ELSE 4, {}, sum)
      /\ Keeps(PushElement(c, L, 4).data, d) /\ Word(PushElement(c, L, 4).data, sum, L, 4)
  BY <1>5, <1>7, PushElementSize
<1>9. ASSUME NEW k \in 1 .. L
      PROVE  FromEnd(PushElement(c, L, 4).data, sum - 3 - k) = chars[k]
  <2>1. Len(d) = L + 1 + pad
    BY <1>4, LongIsSeq
  <2>2. sum - 3 - k = L + 1 + pad + 1 - k /\ sum - 3 - k \in 1 .. L + 1 + pad
    BY <1>0, <1>7
  <2> QED
    BY <1>4, <1>8, <2>1, <2>2 DEF Keeps
<1> QED
  BY <1>6, <1>8, <1>9

(* A field that is not 0 is written and remembered.                        *)
LEMMA AddElementSize ==
  ASSUME NEW b, NEW size, NEW minalign \in Nat, NEW fields, NEW last,
         Built(b, size, minalign, fields, last),
         NEW field, NEW x, x # 0, NEW n \in {1, 4, 8}, NEW sum, sum = size + ((-size) % n) + n
  PROVE  /\ Built(AddElement(b, field, x, n), sum, IF minalign >= n THEN minalign ELSE n,
                  fields \cup {[id |-> field, off |-> sum]}, sum)
         /\ Keeps(AddElement(b, field, x, n).data, b.data)
         /\ Word(AddElement(b, field, x, n).data, sum, x, n)
<1> DEFINE a == PushElement(b, x, n)
           m == IF minalign >= n THEN minalign ELSE n
           F == fields \cup {[id |-> field, off |-> sum]}
<1>1. Built(a, sum, m, fields, sum) /\ Keeps(a.data, b.data) /\ Word(a.data, sum, x, n)
  BY PushElementSize
<1>2. /\ a \in [data : {a.data}, minalign : {m}, fields : {fields}, last : {sum}]
      /\ IsLong(a.data, sum)
  BY <1>1 DEF Built
<1> HIDE DEF a, m
<1>3. a.last = sum /\ a.fields = fields
  BY <1>2
<1>4. AddElement(b, field, x, n) = [a EXCEPT !.fields = F]
  BY <1>3 DEF AddElement, a
<1> HIDE DEF F
<1>5. [a EXCEPT !.fields = F] \in [data : {a.data}, minalign : {m}, fields : {F}, last : {sum}]
  BY <1>2
<1>6. Built(AddElement(b, field, x, n), sum, m, F, sum) /\ AddElement(b, field, x, n).data = a.data
  BY <1>2, <1>4, <1>5, BuiltAs
<1> QED
  BY <1>1, <1>6 DEF m, F

(* A reference to what has been written is a field of four bytes: the      *)
(* distance to it.                                                         *)
LEMMA AddOffsetSize ==
  ASSUME NEW b, NEW size, NEW minalign \in Nat, NEW fields, NEW last,
         Built(b, size, minalign, fields, last), size % 4 = 0, minalign >= 4,
         NEW field, NEW off \in Nat, off <= size,
         NEW sum, sum = size + 4, NEW distance, distance = sum - off
  PROVE  /\ Built(AddOffset(b, field, off), sum, minalign,
                  fields \cup {[id |-> field, off |-> sum]}, sum)
         /\ Keeps(AddOffset(b, field, off).data, b.data)
         /\ Word(AddOffset(b, field, off).data, sum, distance, 4)
<1> DEFINE a == Align(b, 4)
           c == AddElement(a, field, ReferTo(b, off), 4)
           F == fields \cup {[id |-> field, off |-> sum]}
<1>0. size \in Nat
  BY DEF Built, IsLong
<1>1. Built(a, size, minalign, fields, last) /\ Keeps(a.data, b.data)
  BY AlignSize
<1>2. ReferTo(b, off) = distance
  <2>1. ReferTo(b, off) = size - off + 4
    BY <1>1, LongIsSeq DEF ReferTo, Built
  <2> QED
    BY <1>0, <2>1
<1>3. distance # 0
  BY <1>0
<1>4. sum = size + ((-size) % 4) + 4
  BY <1>0
<1> HIDE DEF a
<1>5. /\ Built(c, sum, IF minalign >= 4 THEN minalign ELSE 4, F, sum)
      /\ Keeps(c.data, a.data) /\ Word(c.data, sum, distance, 4)
  BY <1>1, <1>2, <1>3, <1>4, AddElementSize
<1> HIDE DEF c
<1>6. Keeps(c.data, b.data)
  BY <1>1, <1>5, KeepsOn DEF Built
<1> QED
  BY <1>5, <1>6 DEF AddOffset, a, c

(* A sequence of n elements stands in d, its first one at an offset.       *)
Stands(s, d, off, n) == \A k \in 1 .. n : FromEnd(d, off + 1 - k) = s[k]

(* Two sequences put in front of a third.                                  *)
LEMMA InFrontOf ==
  ASSUME NEW s, NEW r, NEW t, NEW m, NEW n, IsLong(s, m), IsLong(r, 4), IsLong(t, n)
  PROVE  /\ IsLong(s \o r \o t, m + 4 + n) /\ Keeps(s \o r \o t, t)
         /\ Stands(s, s \o r \o t, m + 4 + n, m) /\ Stands(r, s \o r \o t, n + 4, 4)
<1> DEFINE e == s \o r
<1>0. m \in Nat /\ n \in Nat
  BY DEF IsLong
<1>1. IsLong(e, m + 4) /\ Keeps(e, r) /\ \A k \in 1 .. m : e[k] = s[k]
  BY ConcatIsLong
<1>2. Len(r) = 4 /\ Len(e) = m + 4
  BY <1>1, LongIsSeq
<1> HIDE DEF e
<1>3. ASSUME NEW k \in 1 .. 4 PROVE e[m + k] = r[k]
  <2>1. 4 + 1 - k \in 1 .. 4 /\ 4 + 1 - (4 + 1 - k) = k /\ m + 4 + 1 - (4 + 1 - k) = m + k
    BY <1>0
  <2> QED
    BY <1>1, <1>2, <2>1 DEF Keeps, FromEnd
<1>4. /\ IsLong(e \o t, m + 4 + n) /\ Keeps(e \o t, t)
      /\ \A k \in 1 .. m + 4 : FromEnd(e \o t, m + 4 + n + 1 - k) = e[k]
  BY <1>1, ConcatIsLong
<1>5. \A k \in 1 .. m : k \in 1 .. m + 4
  BY <1>0
<1>6. ASSUME NEW k \in 1 .. 4 PROVE FromEnd(e \o t, n + 4 + 1 - k) = r[k]
  <2>1. m + k \in 1 .. m + 4 /\ n + 4 + 1 - k = m + 4 + n + 1 - (m + k)
    BY <1>0
  <2> QED
    BY <1>3, <1>4, <2>1
<1> QED
  BY <1>1, <1>4, <1>5, <1>6 DEF Stands, e

(* A vtable, from an offset on, holds the places of the fields in a table  *)
(* that begins at start.                                                   *)
FieldsIn(d, fields, off, start) ==
  \A f \in fields : Word(d, off - f.id, start - f.off, 2)

LEMMA FieldAt ==
  ASSUME NEW d, NEW fields, NEW off, NEW start, FieldsIn(d, fields, off, start), NEW f \in fields
  PROVE  Word(d, off - f.id, start - f.off, 2)
BY Zenon DEF FieldsIn

(* The ids of the fields of the tables. *)
FieldIds == {4, 6, 8, 10, 12}

(* The fields, written within size bytes, are different ones and the last  *)
(* of them has the last entry of a vtable of vtsize bytes.                 *)
Fit(fields, vtsize, size) ==
  /\ \A f \in fields : f.id \in FieldIds /\ f.id + 2 <= vtsize /\ f.off \in 1 .. size
  /\ \A f, g \in fields : f.id = g.id => f = g
  /\ \E f \in fields : f.id + 2 = vtsize

(* The vtable, off bytes from the end, has 0 for a field that is not there. *)
OthersEmpty(d, fields, off, vtsize) ==
  \A id \in FieldIds : id + 2 <= vtsize /\ (\A f \in fields : f.id # id) => Word(d, off - id, 0, 2)

LEMMA EmptyAt ==
  ASSUME NEW d, NEW fields, NEW off, NEW vtsize, OthersEmpty(d, fields, off, vtsize),
         NEW id \in FieldIds, id + 2 <= vtsize, \A f \in fields : f.id # id
  PROVE  Word(d, off - id, 0, 2)
BY Zenon DEF OthersEmpty

(* A table ends with the reference to its vtable, which has vtsize bytes.  *)
(* The vtable, in front, holds its own size and the place of each field.   *)
LEMMA EndTableSize ==
  ASSUME NEW b, NEW size, NEW minalign \in Nat, NEW fields, NEW last,
         Built(b, size, minalign, fields, last), minalign >= 4,
         NEW start, NEW vtsize \in Nat, vtsize >= 4,
         Fit(fields, vtsize, size), NEW table, table = size + ((-size) % 4) + 4,
         NEW sum, sum = table + vtsize
  PROVE  /\ Built(EndTable(b, start), sum, minalign, {}, table)
         /\ Keeps(EndTable(b, start).data, b.data)
         /\ Word(EndTable(b, start).data, table, vtsize, 4)
         /\ Word(EndTable(b, start).data, sum, vtsize, 2)
         /\ FieldsIn(EndTable(b, start).data, fields, sum, table)
         /\ OthersEmpty(EndTable(b, start).data, fields, sum, vtsize)
<1> DEFINE a   == PushElement(b, 0, 4)
           Ids == {4} \cup {f.id + 2 : f \in a.fields}
           Entry(id) ==
             IF id = 0 THEN Max(Ids) ELSE
             IF id = 2 THEN a.last - start ELSE
             Max({0} \cup {a.last - f.off : f \in {g \in a.fields : g.id = id}})
           vtable == [k \in 1 .. Max(Ids) |->
                        LittleEndian(Entry(2 * ((k - 1) \div 2)), 2)[((k - 1) % 2) + 1]]
           rest == SubSeq(a.data, 5, Len(a.data))
           ref  == LittleEndian(Max(Ids), 4)
           d    == vtable \o ref \o rest
           len  == size + ((-size) % 4)
<1>0. /\ size \in Nat /\ table \in Nat /\ len \in Nat /\ size <= len
      /\ table = len + 4 /\ sum = vtsize + 4 + len
  <2>1. size \in Nat
    BY DEF Built, IsLong
  <2> QED
    BY <2>1
<1>1. Built(a, table, minalign, fields, table) /\ Keeps(a.data, b.data)
  <2>2. /\ Built(a, table, IF minalign >= 4 THEN minalign ELSE 4, fields, table)
        /\ Keeps(a.data, b.data)
    BY PushElementSize
  <2> QED
    BY <2>2
<1>2. /\ a \in [data : {a.data}, minalign : {minalign}, fields : {fields}, last : {table}]
      /\ IsLong(a.data, table)
  BY <1>1 DEF Built
<1>20. a.fields = fields /\ a.last = table
  <2> HIDE DEF a
  <2> QED
    BY <1>2
<1>3. Max(Ids) = vtsize
  <2>1. Ids \in SUBSET Int /\ vtsize \in Ids /\ \A y \in Ids : vtsize >= y
    BY <1>20 DEF Fit, FieldIds
  <2> HIDE DEF Ids
  <2> QED
    BY <2>1, GreatestIsMax
<1>4. EndTable(b, start) = [a EXCEPT !.data = d, !.fields = {}]
  BY DEF EndTable
<1>5. IsLong(vtable, vtsize)
  BY <1>3 DEF IsLong
<1>6. IsLong(ref, 4)
  BY DEF IsLong, LittleEndian
<1>7. IsLong(rest, len) /\ Keeps(rest, b.data)
  <2> HIDE DEF a, len
  <2>1. IsLong(a.data, len + 4) /\ Len(b.data) = size
    BY <1>0, <1>2, LongIsSeq DEF Built
  <2>2. IsLong(rest, len) /\ \A off \in 1 .. len : FromEnd(rest, off) = FromEnd(a.data, off)
    BY <1>0, <2>1, RestIsLong
  <2>3. Len(rest) = len
    BY <2>2, LongIsSeq
  <2> HIDE DEF rest
  <2> QED
    BY <1>0, <1>1, <2>1, <2>2, <2>3 DEF Keeps
<1>8. Entry(0) = vtsize
  BY <1>3
<1>9. ASSUME NEW f \in fields
      PROVE  Entry(f.id) = table - f.off
  <2> DEFINE m == table - f.off
             G == {g \in a.fields : g.id = f.id}
  <2>1. G = {f}
    BY <1>20 DEF Fit
  <2>2. f.id # 0 /\ f.id # 2
    BY DEF Fit, FieldIds
  <2>3. m \in Nat
    BY <1>0 DEF Fit
  <2> HIDE DEF a, m, G, Ids, len
  <2>4. {a.last - g.off : g \in G} = {m}
    <3>1. a.last - f.off = m
      BY <1>0, <1>20 DEF m
    <3>2. {a.last - g.off : g \in {f}} = {a.last - f.off}
      BY Zenon
    <3> QED
      BY <2>1, <3>1, <3>2
  <2>5. Max({0} \cup {m}) = m
    BY <2>3, GreatestOfTwo
  <2>6. Entry(f.id) = Max({0} \cup {a.last - g.off : g \in G})
    BY <2>2 DEF G
  <2> QED
    BY <2>4, <2>5, <2>6 DEF m
<1>21. ASSUME NEW id \in FieldIds, \A f \in fields : f.id # id
       PROVE  Entry(id) = 0
  <2>1. {g \in a.fields : g.id = id} = {}
    BY <1>20, <1>21
  <2>2. id # 0 /\ id # 2
    BY DEF FieldIds
  <2>3. {0} \in SUBSET Int /\ 0 \in {0} /\ \A y \in {0} : 0 >= y
    OBVIOUS
  <2> HIDE DEF a, Ids
  <2>4. {0} \cup {a.last - f.off : f \in {g \in a.fields : g.id = id}} = {0}
    BY <2>1
  <2>5. Max({0}) = 0
    BY <2>3, GreatestIsMax
  <2> QED
    BY <2>2, <2>4, <2>5
<1>10. ASSUME NEW id \in {0} \cup FieldIds, id + 2 <= vtsize, NEW j \in 1 .. 2
       PROVE  vtable[id + j] = LittleEndian(Entry(id), 2)[j] /\ id + j \in 1 .. vtsize
  <2>1. id + j \in 1 .. vtsize
    BY <1>10 DEF FieldIds
  <2>2. 2 * (((id + j) - 1) \div 2) = id /\ (((id + j) - 1) % 2) + 1 = j
    BY DEF FieldIds
  <2> HIDE DEF Entry
  <2> QED
    BY <1>3, <2>1, <2>2
<1> HIDE DEF a, Ids, vtable, rest, ref, Entry, len
<1>11. /\ IsLong(d, vtsize + 4 + len) /\ Keeps(d, rest)
       /\ Stands(vtable, d, vtsize + 4 + len, vtsize) /\ Stands(ref, d, table, 4)
  <2>1. /\ IsLong(d, vtsize + 4 + len) /\ Keeps(d, rest)
        /\ Stands(vtable, d, vtsize + 4 + len, vtsize) /\ Stands(ref, d, len + 4, 4)
    BY <1>5, <1>6, <1>7, InFrontOf
  <2> QED
    BY <1>0, <2>1
<1>12. IsLong(d, sum) /\ vtsize + 4 + len = sum
  BY <1>0, <1>11
<1> HIDE DEF d
<1>13. [a EXCEPT !.data = d, !.fields = {}]
         \in [data : {d}, minalign : {minalign}, fields : {{}}, last : {table}]
  BY <1>2
<1>14. Built(EndTable(b, start), sum, minalign, {}, table) /\ EndTable(b, start).data = d
  BY <1>4, <1>12, <1>13, BuiltAs
<1>15. Keeps(d, b.data)
  BY <1>7, <1>11, <1>12, KeepsOn DEF Built
<1>16. ASSUME NEW id \in {0} \cup FieldIds, id + 2 <= vtsize
       PROVE  Word(d, sum - id, Entry(id), 2)
  <2> SUFFICES ASSUME NEW j \in 1 .. 2
               PROVE  FromEnd(d, sum - id + 1 - j) = LittleEndian(Entry(id), 2)[j]
    BY DEF Word
  <2>1. sum - id + 1 - j = vtsize + 4 + len + 1 - (id + j)
    BY <1>0 DEF FieldIds
  <2> QED
    BY <1>10, <1>11, <1>16, <2>1 DEF Stands
<1>17. Word(d, table, vtsize, 4)
  BY <1>3, <1>11 DEF Stands, Word, ref
<1>18. Word(d, sum, vtsize, 2)
  <2>1. Word(d, sum - 0, Entry(0), 2) /\ sum - 0 = sum
    BY <1>0, <1>16
  <2> QED
    BY <1>8, <2>1
<1>19. FieldsIn(d, fields, sum, table)
  BY <1>9, <1>16 DEF FieldsIn, Fit
<1>22. ASSUME NEW id \in FieldIds, id + 2 <= vtsize, \A f \in fields : f.id # id
       PROVE  Word(d, sum - id, 0, 2)
  <2>1. Word(d, sum - id, Entry(id), 2)
    BY <1>16, <1>22
  <2> QED
    BY <1>21, <1>22, <2>1
<1>23. OthersEmpty(d, fields, sum, vtsize)
  BY <1>22 DEF OthersEmpty
<1> QED
  BY <1>14, <1>15, <1>17, <1>18, <1>19, <1>23

(* A message of sum bytes, a multiple of the widest field, begins with the *)
(* distance to the table.                                                  *)
Begins(size, minalign, root, sum, first) ==
  /\ root \in Nat /\ root <= size
  /\ sum = size + ((-(size + 4)) % minalign) + 4 /\ first = sum - root

(* The whole is a multiple of the widest field, and begins with the place  *)
(* of the table.                                                           *)
LEMMA FinishSize ==
  ASSUME NEW b, NEW size, NEW minalign \in {4, 8}, NEW fields, NEW last,
         Built(b, size, minalign, fields, last), 
         NEW root, NEW sum, NEW first, Begins(size, minalign, root, sum, first)
  PROVE  /\ IsLong(Finish(b, root), sum) /\ Keeps(Finish(b, root), b.data)
         /\ Word(Finish(b, root), sum, first, 4)
<1> DEFINE a == PreAlign(b, 4, minalign)
           c == Align(a, 4)
           s == size + ((-(size + 4)) % minalign)
           e == PushElement(c, ReferTo(a, root), 4)
<1>0. /\ size \in Nat /\ b.minalign = minalign
      /\ root \in Nat /\ root <= size
      /\ sum = size + ((-(size + 4)) % minalign) + 4 /\ first = sum - root
  BY DEF Built, IsLong, Begins
<1>1. Built(a, s, minalign, fields, last) /\ Keeps(a.data, b.data)
  <2>1. /\ Built(a, s, IF minalign >= minalign THEN minalign ELSE minalign, fields, last)
        /\ Keeps(a.data, b.data)
    BY PreAlignSize
  <2> QED
    BY <2>1
<1>2. s \in Nat /\ s % 4 = 0
  <2>1. CASE minalign = 4
    BY <1>0, <2>1
  <2>2. CASE minalign = 8
    BY <1>0, <2>2
  <2> QED
    BY <2>1, <2>2
<1>3. sum = s + 4
  BY <1>0
<1> HIDE DEF a, s
<1>4. Built(c, s, minalign, fields, last) /\ Keeps(c.data, a.data)
  <2>1. minalign \in Nat /\ minalign >= 4
    OBVIOUS
  <2> QED
    BY ONLY <1>1, <1>2, <2>1, AlignSize
<1>5. ReferTo(a, root) = first
  <2>1. Len(Align(a, 4).data) = s
    BY <1>4, LongIsSeq DEF Built
  <2>2. ReferTo(a, root) = s - root + 4
    BY <2>1 DEF ReferTo
  <2> QED
    BY <1>0, <1>2, <1>3, <2>2
<1> HIDE DEF c
<1>6. /\ Built(e, sum, IF minalign >= 4 THEN minalign ELSE 4, fields, sum)
      /\ Keeps(e.data, c.data) /\ Word(e.data, sum, first, 4)
  <2>1. sum = s + ((-s) % 4) + 4 /\ minalign \in Nat /\ 4 \in {4, 8}
    BY <1>2, <1>3
  <2>2. e = PushElement(c, first, 4)
    BY <1>5
  <2>3. Built(c, s, minalign, fields, last)
    BY <1>4
  <2> HIDE DEF e
  <2> QED
    BY ONLY <2>1, <2>2, <2>3, PushElementSize
<1>7. Finish(b, root) = e.data
  BY <1>0 DEF Finish, a, c
<1> HIDE DEF e
<1>8. Keeps(e.data, a.data)
  BY <1>1, <1>4, <1>6, KeepsOn DEF Built
<1>9. Keeps(e.data, b.data)
  BY <1>1, <1>6, <1>8, KeepsOn DEF Built
<1> QED
  BY <1>6, <1>7, <1>9 DEF Built


(* A string of L characters at the end of the memory.                      *)
StringSize(L) == L + 5 + ((-(L + 1)) % 4)

(* A string of L characters S bytes from the end.                          *)
TextAt(m, S, chars, L) ==
  Word(m, S, L, 4) /\ \A k \in 1 .. L : FromEnd(m, S - 3 - k) = chars[k]

(* A string stays where it is.                                             *)
LEMMA TextStays ==
  ASSUME NEW d, NEW e, NEW size \in Nat, Len(e) = size, Keeps(d, e),
         NEW S \in Nat, S <= size, NEW chars, NEW L \in Nat, L + 4 < S, TextAt(e, S, chars, L)
  PROVE  TextAt(d, S, chars, L)
<1>1. Word(d, S, L, 4)
  BY WordStays DEF TextAt
<1>2. ASSUME NEW k \in 1 .. L PROVE FromEnd(d, S - 3 - k) = chars[k]
  <2>1. S - 3 - k \in 1 .. size
    OBVIOUS
  <2> QED
    BY <2>1 DEF Keeps, TextAt
<1> QED
  BY <1>1, <1>2 DEF TextAt

-----------------------------------------------------------------------------
(***************************************************************************)
(* The bytes that the accessors of a table read                            *)
(***************************************************************************)

(* A byte is read where it was written.                                    *)
LEMMA ByteRead ==
  ASSUME NEW m, NEW N, IsLong(m, N), NEW off \in 1 .. N
  PROVE  ByteAt(m, N - off) = FromEnd(m, off)
<1>1. N \in Nat /\ Len(m) = N
  BY LongIsSeq DEF IsLong
<1>2. N - off < Len(m) /\ N - off + 1 = Len(m) + 1 - off
  BY <1>1
<1> QED
  BY <1>2 DEF ByteAt, FromEnd

(* The powers a number is cut with.                                        *)
LEMMA Powers == 256^0 = 1 /\ 256^1 = 256 /\ 256^2 = 65536 /\ 256^3 = 16777216
<1>1. 256^0 = 1
  BY SMT
<1>2. 256^1 = 256
  BY SMT
<1>3. 256^2 = 65536
  BY SMT
<1>4. 256^3 = 16777216
  BY SMT
<1> QED
  BY <1>1, <1>2, <1>3, <1>4

(* What an int holds, and that a number as large is an int.                *)
LEMMA MaxIntIs == MaxInt \in Nat /\ MaxInt >= 14
BY SMT DEF MaxInt

LEMMA NatIsInt32 ==
  ASSUME NEW x \in Nat, x <= MaxInt
  PROVE  x \in Int32
BY MaxIntIs, SMT DEF Int32

(* The bytes of an int make it up again, and the highest of a number that  *)
(* is not negative has no sign.                                            *)
LEMMA FourBytes ==
  ASSUME NEW x \in Int32
  PROVE  /\ (x % 256) + 256 * ((x \div 256) % 256) + 256^2 * ((x \div 256^2) % 256)
              + 256^3 * Signed((x \div 256^3) % 256) = x
         /\ x >= 0 => Signed((x \div 256^3) % 256) = (x \div 256^3) % 256
<1>0. x \in Int /\ -MaxInt - 1 <= x /\ x <= MaxInt
  BY MaxIntIs, SMT DEF Int32
<1> DEFINE high == (x \div 16777216) % 256
<1>1. high \in Int /\ (x >= 0 => high < 128) /\ (x < 0 => high >= 128 /\ high - 256 = x \div 16777216)
      /\ (x >= 0 => high = x \div 16777216)
  BY <1>0, SMT DEF MaxInt
<1>2. /\ Signed(high) = x \div 16777216
      /\ x >= 0 => Signed(high) = high
  BY <1>0, <1>1, SMT DEF Signed
<1>3. (x % 256) + 256 * ((x \div 256) % 256) + 65536 * ((x \div 65536) % 256)
        + 16777216 * (x \div 16777216) = x
  BY <1>0, SMT
<1> QED
  BY <1>0, <1>2, <1>3, Powers, SMT

(* So do those of a small one.                                             *)
LEMMA TwoBytes ==
  ASSUME NEW x \in Nat, x <= 65535
  PROVE  (x % 256) + 256 * ((x \div 256) % 256) = x
BY SMT

(* The bytes of a number, one by one.                                      *)
LEMMA LowBytes ==
  ASSUME NEW x \in Int, NEW n \in {2, 4, 8}
  PROVE  LittleEndian(x, n)[1] = x % 256 /\ LittleEndian(x, n)[2] = (x \div 256) % 256
<1>1. x \div 1 = x
  OBVIOUS
<1>2. LittleEndian(x, n)[1] = (x \div 256^(1 - 1)) % 256 /\ LittleEndian(x, n)[2] = (x \div 256^(2 - 1)) % 256
  BY DEF LittleEndian
<1>3. 1 - 1 = 0 /\ 2 - 1 = 1
  OBVIOUS
<1> QED
  BY <1>1, <1>2, <1>3, Powers, SMT

LEMMA HighBytes ==
  ASSUME NEW x \in Int, NEW n \in {4, 8}
  PROVE  LittleEndian(x, n)[3] = (x \div 256^2) % 256 /\ LittleEndian(x, n)[4] = (x \div 256^3) % 256
<1>1. LittleEndian(x, n)[3] = (x \div 256^(3 - 1)) % 256 /\ LittleEndian(x, n)[4] = (x \div 256^(4 - 1)) % 256
  BY DEF LittleEndian
<1>2. 3 - 1 = 2 /\ 4 - 1 = 3
  OBVIOUS
<1> QED
  BY <1>1, <1>2

(* Where a number stands, its bytes are read.                              *)
LEMMA WordByte ==
  ASSUME NEW m, NEW N, IsLong(m, N), NEW n \in Nat, NEW off \in Nat, n <= off, off <= N,
         NEW x, Word(m, off, x, n), NEW k \in 1 .. n, NEW p, p = N - off + (k - 1)
  PROVE  ByteAt(m, p) = LittleEndian(x, n)[k]
<1>1. N \in Nat
  BY DEF IsLong
<1>2. off + 1 - k \in 1 .. N /\ p = N - (off + 1 - k)
  BY <1>1
<1>3. FromEnd(m, off + 1 - k) = LittleEndian(x, n)[k]
  BY DEF Word
<1> QED
  BY <1>2, <1>3, ByteRead

(* A number of four bytes is read as it was written, and the lower half of *)
(* one of eight.                                                           *)
LEMMA ReadLong ==
  ASSUME NEW m, NEW N, IsLong(m, N), NEW n \in {4, 8}, NEW off \in Nat, n <= off, off <= N,
         NEW x \in Int32, Word(m, off, x, n)
  PROVE  ReadScalar(m, N - off, n) = x
<1> DEFINE p == N - off
<1>0. N \in Nat /\ p \in Nat /\ n \in Nat /\ n >= 4 /\ n \in {2, 4, 8} /\ x \in Int
  BY MaxIntIs DEF IsLong, Int32
<1>1. ByteAt(m, p) = x % 256
  <2>1. 1 \in 1 .. n /\ p = N - off + (1 - 1)
    BY <1>0
  <2>2. ByteAt(m, p) = LittleEndian(x, n)[1]
    BY <1>0, <2>1, WordByte
  <2>3. LittleEndian(x, n)[1] = x % 256
    BY <1>0, LowBytes
  <2> HIDE DEF p
  <2> QED
    BY <2>2, <2>3, Zenon
<1>2. ByteAt(m, p + 1) = (x \div 256) % 256
  <2>1. 2 \in 1 .. n /\ p + 1 = N - off + (2 - 1)
    BY <1>0
  <2>2. ByteAt(m, p + 1) = LittleEndian(x, n)[2]
    BY <1>0, <2>1, WordByte
  <2> QED
    BY <1>0, <2>2, LowBytes
<1>3. ByteAt(m, p + 2) = (x \div 256^2) % 256
  <2>1. 3 \in 1 .. n /\ p + 2 = N - off + (3 - 1)
    BY <1>0
  <2>2. ByteAt(m, p + 2) = LittleEndian(x, n)[3]
    BY <1>0, <2>1, WordByte
  <2> QED
    BY <1>0, <2>2, HighBytes
<1>4. ByteAt(m, p + 3) = (x \div 256^3) % 256
  <2>1. 4 \in 1 .. n /\ p + 3 = N - off + (4 - 1)
    BY <1>0
  <2>2. ByteAt(m, p + 3) = LittleEndian(x, n)[4]
    BY <1>0, <2>1, WordByte
  <2> QED
    BY <1>0, <2>2, HighBytes
<1>5. ReadScalar(m, p, n) = ByteAt(m, p) + 256 * ByteAt(m, p + 1) + 256^2 * ByteAt(m, p + 2)
                            + 256^3 * Signed(ByteAt(m, p + 3))
  <2>1. n # 1 /\ n # 2 /\ n > 2
    OBVIOUS
  <2> HIDE DEF p
  <2> QED
    BY <2>1, Zenon DEF ReadScalar
<1> HIDE DEF p
<1> QED
  BY <1>1, <1>2, <1>3, <1>4, <1>5, FourBytes DEF p

(* So is a number of two bytes.                                            *)
LEMMA ReadShort ==
  ASSUME NEW m, NEW N, IsLong(m, N), NEW off \in Nat, 2 <= off, off <= N,
         NEW x \in Nat, x <= 65535, Word(m, off, x, 2)
  PROVE  ReadScalar(m, N - off, 2) = x
<1> DEFINE p == N - off
<1>0. N \in Nat /\ p \in Nat
  BY DEF IsLong
<1>1. ByteAt(m, p) = x % 256
  <2>1. 1 \in 1 .. 2 /\ p = N - off + (1 - 1)
    BY <1>0
  <2>2. ByteAt(m, p) = LittleEndian(x, 2)[1]
    BY <1>0, <2>1, WordByte
  <2> QED
    BY <2>2, LowBytes
<1>2. ByteAt(m, p + 1) = (x \div 256) % 256
  <2>1. 2 \in 1 .. 2 /\ p + 1 = N - off + (2 - 1)
    BY <1>0
  <2>2. ByteAt(m, p + 1) = LittleEndian(x, 2)[2]
    BY <1>0, <2>1, WordByte
  <2> QED
    BY <2>2, LowBytes
<1>3. ReadScalar(m, p, 2) = ByteAt(m, p) + 256 * ByteAt(m, p + 1)
  BY DEF ReadScalar
<1> HIDE DEF p
<1> QED
  BY <1>1, <1>2, <1>3, TwoBytes DEF p

(* A message m of N bytes with a table of whose vtable has vtsize bytes    *)
(* and which begins T bytes from the end.                                  *)
TableAt(m, N, T, vtsize) ==
  /\ IsLong(m, N) /\ N \in Nat /\ N <= MaxInt
  /\ T \in Nat /\ 4 <= T /\ vtsize \in 4 .. 14 /\ T + vtsize <= N /\ 4 <= N
  /\ Word(m, N, N - T, 4) /\ Word(m, T, vtsize, 4) /\ Word(m, T + vtsize, vtsize, 2)

(* The table is found.                                                     *)
LEMMA TableRead ==
  ASSUME NEW m, NEW N, NEW T, NEW vtsize, TableAt(m, N, T, vtsize)
  PROVE  /\ GetRoot(m) = N - T /\ GetVTable(m) = N - (T + vtsize)
         /\ ReadScalar(m, GetVTable(m), 2) = vtsize
<1>1. /\ N \in Nat /\ IsLong(m, N) /\ N <= MaxInt /\ T \in Nat /\ 4 <= T /\ vtsize \in 4 .. 14
      /\ T + vtsize <= N
      /\ Word(m, N, N - T, 4) /\ Word(m, T, vtsize, 4) /\ Word(m, T + vtsize, vtsize, 2)
  BY DEF TableAt, IsLong
<1>2. N - N = 0 /\ N - T \in Nat /\ N - T \in Int32 /\ 4 <= N
  <2>1. N - T \in Nat /\ N - T <= MaxInt
    BY <1>1, MaxIntIs
  <2> QED
    BY <1>1, <2>1, NatIsInt32
<1>3. ReadScalar(m, N - N, 4) = N - T
  BY <1>1, <1>2, ReadLong
<1>4. GetRoot(m) = N - T
  BY <1>2, <1>3 DEF GetRoot
<1>5. ReadScalar(m, N - T, 4) = vtsize
  <2>1. T <= N /\ vtsize \in Nat /\ vtsize \in Int32
    BY <1>1, MaxIntIs, NatIsInt32
  <2> QED
    BY <1>1, <2>1, ReadLong
<1>6. GetVTable(m) = N - (T + vtsize)
  BY <1>1, <1>4, <1>5 DEF GetVTable
<1>7. ReadScalar(m, N - (T + vtsize), 2) = vtsize
  <2>1. T + vtsize \in Nat /\ 2 <= T + vtsize /\ vtsize \in Nat /\ vtsize <= 65535
    BY <1>1
  <2> QED
    BY <1>1, <2>1, ReadShort
<1> QED
  BY <1>4, <1>6, <1>7

(* The vtable of the table says that a field is off bytes from the end.    *)
FieldIn(m, T, vtsize, id, off) == Word(m, T + vtsize - id, T - off, 2)

(* The entry of a vtable for a field is read, inside of the message.       *)
LEMMA EntryRead ==
  ASSUME NEW m, NEW N, NEW T, NEW vtsize, TableAt(m, N, T, vtsize),
         NEW id \in FieldIds, id + 2 <= vtsize, NEW x \in Nat, x <= 65535,
         Word(m, T + vtsize - id, x, 2)
  PROVE  GetOptionalFieldOffset(m, id) = x /\ Inside(GetVTable(m) + id, 2, N)
<1>1. /\ N \in Nat /\ IsLong(m, N) /\ T \in Nat /\ vtsize \in Nat /\ T + vtsize <= N /\ 4 <= T
      /\ id \in Nat
  BY DEF TableAt, FieldIds
<1>2. /\ GetVTable(m) = N - (T + vtsize)
      /\ ReadScalar(m, GetVTable(m), 2) = vtsize
  BY TableRead
<1> DEFINE off == T + vtsize - id
<1>3. off \in Nat /\ 2 <= off /\ off <= N
  BY <1>1
<1>4. GetVTable(m) + id = N - off /\ id < vtsize
  BY <1>1, <1>2
<1> HIDE DEF off
<1>5. ReadScalar(m, N - off, 2) = x
  BY <1>1, <1>3, ReadShort DEF off
<1>6. GetOptionalFieldOffset(m, id) = x
  BY <1>2, <1>4, <1>5 DEF GetOptionalFieldOffset
<1> QED
  BY <1>1, <1>3, <1>4, <1>6 DEF Inside

(* And the place of a field that the vtable has.                           *)
LEMMA FieldRead ==
  ASSUME NEW m, NEW N, NEW T, NEW vtsize, TableAt(m, N, T, vtsize),
         NEW id \in FieldIds, id + 2 <= vtsize, NEW off \in Nat, off < T, T <= off + 100,
         FieldIn(m, T, vtsize, id, off)
  PROVE  Has(m, id) /\ Place(m, id) = N - off /\ Inside(GetVTable(m) + id, 2, N)
<1>1. N \in Nat /\ T \in Nat
  BY DEF TableAt
<1>2. GetRoot(m) = N - T
  BY TableRead
<1>3. PICK x : x = T - off
  OBVIOUS
<1>4. x \in Nat /\ x <= 65535 /\ x # 0 /\ N - T + x = N - off
  BY <1>1, <1>3
<1>5. Word(m, T + vtsize - id, x, 2)
  BY <1>3 DEF FieldIn
<1>6. GetOptionalFieldOffset(m, id) = x /\ Inside(GetVTable(m) + id, 2, N)
  BY <1>4, <1>5, EntryRead
<1> QED
  BY <1>2, <1>4, <1>6 DEF Has, Place

(* A reference, off bytes from the end, to what is S bytes from the end.   *)
Refers(m, off, S) == Word(m, off, off - S, 4)

(* It is read as it was written.                                           *)
LEMMA TextRead ==
  ASSUME NEW m, NEW N, IsLong(m, N), NEW chars, NEW L, IsLong(chars, L), NEW S \in Nat, L + 4 < S, S <= N,
         N <= MaxInt, TextAt(m, S, chars, L)
  PROVE  StringAt(m, N - S) = chars /\ ReadScalar(m, N - S, 4) = L
<1>1. N \in Nat /\ L \in Nat /\ chars = [k \in 1 .. L |-> chars[k]]
  BY DEF IsLong
<1>2. ReadScalar(m, N - S, 4) = L
  <2>1. L \in Int32 /\ 4 <= S
    BY <1>1, MaxIntIs, NatIsInt32
  <2>2. Word(m, S, L, 4)
    BY DEF TextAt
  <2> QED
    BY <1>1, <2>1, <2>2, ReadLong
<1>3. ASSUME NEW k \in 1 .. L
      PROVE  ByteAt(m, N - S + 3 + k) = chars[k]
  <2>1. S - 3 - k \in 1 .. N /\ N - S + 3 + k = N - (S - 3 - k)
    BY <1>1
  <2> QED
    BY <2>1, ByteRead DEF TextAt
<1>4. StringAt(m, N - S) = [k \in 1 .. L |-> ByteAt(m, N - S + 3 + k)]
  BY <1>2 DEF StringAt
<1>5. [k \in 1 .. L |-> ByteAt(m, N - S + 3 + k)] = [k \in 1 .. L |-> chars[k]]
  BY <1>3
<1> QED
  BY <1>1, <1>2, <1>4, <1>5

(* A reference to a string that is a field of a table leads to the string. *)
LEMMA ReferredRead ==
  ASSUME NEW m, NEW N, NEW T, NEW vtsize, TableAt(m, N, T, vtsize),
         NEW off \in Nat, off < T, T <= off + 100, 4 <= off,
         6 <= vtsize, FieldIn(m, T, vtsize, PlayerId, off),
         NEW S \in Nat, S <= off, Refers(m, off, S),
         NEW chars, NEW L, IsLong(chars, L), L + 4 < S, TextAt(m, S, chars, L)
  PROVE  /\ Has(m, PlayerId) /\ StringAt(m, GetPointer(m, PlayerId)) = chars
         /\ GetPointer(m, PlayerId) = N - S /\ ReadScalar(m, N - S, 4) = L
<1>1. IsLong(m, N) /\ N \in Nat /\ N <= MaxInt /\ T \in Nat /\ T + vtsize <= N /\ vtsize \in 4 .. 14
  BY DEF TableAt
<1>2. Has(m, 4) /\ Place(m, 4) = N - off
  <2>1. 4 \in FieldIds /\ 4 + 2 <= vtsize
    BY <1>1 DEF FieldIds
  <2> QED
    BY <2>1, FieldRead DEF PlayerId
<1>3. ReadScalar(m, N - off, 4) = off - S
  <2>1. off - S \in Int32 /\ off <= N /\ 4 \in {4, 8}
    <3>1. off - S \in Nat /\ off - S <= MaxInt /\ off <= N
      BY <1>1, MaxIntIs
    <3> QED
      BY <3>1, NatIsInt32
  <2> QED
    BY <1>1, <2>1, ReadLong DEF Refers
<1>4. GetPointer(m, 4) = N - S
  <2>1. N - off + (off - S) = N - S
    BY <1>1
  <2> QED
    BY <1>2, <1>3, <2>1 DEF GetPointer
<1>5. S <= N
  BY <1>1
<1> QED
  BY <1>1, <1>2, <1>4, <1>5, TextRead DEF PlayerId

-----------------------------------------------------------------------------
(***************************************************************************)
(* What the builder writes are bytes                                       *)
(***************************************************************************)
Bytes == Seq(0 .. 255)

LEMMA JoinedBytes ==
  ASSUME NEW s \in Bytes, NEW t \in Bytes
  PROVE  /\ s \o t \in Bytes /\ Len(s) \in Nat /\ Len(t) \in Nat /\ Len(s \o t) = Len(s) + Len(t)
         /\ \A k \in 1 .. Len(s) : (s \o t)[k] = s[k]
         /\ \A k \in 1 .. Len(t) : (s \o t)[Len(s) + k] = t[k]
<1>1. PICK B : B = 0 .. 255
  OBVIOUS
<1>2. s \in Seq(B) /\ t \in Seq(B)
  BY <1>1 DEF Bytes
<1>3. s \o t \in Seq(B) /\ Len(s) \in Nat /\ Len(t) \in Nat /\ Len(s \o t) = Len(s) + Len(t)
  BY <1>2
<1>4. \A k \in 1 .. Len(s) : (s \o t)[k] = s[k]
  BY <1>2, <1>3
<1>5. \A k \in 1 .. Len(t) : (s \o t)[Len(s) + k] = t[k]
  BY <1>2, <1>3
<1> QED
  BY <1>1, <1>3, <1>4, <1>5 DEF Bytes

LEMMA PartBytes ==
  ASSUME NEW s \in Bytes, NEW i \in Nat, NEW j \in Nat, i <= j, j <= Len(s)
  PROVE  /\ SubSeq(s, i + 1, j) \in Bytes /\ Len(SubSeq(s, i + 1, j)) = j - i
         /\ \A k \in 1 .. j - i : SubSeq(s, i + 1, j)[k] = s[i + k]
<1>1. PICK B, first : B = 0 .. 255 /\ first = i + 1
  OBVIOUS
<1>2. s \in Seq(B) /\ first \in Int /\ j \in Int
  BY <1>1 DEF Bytes
<1>3. \A k \in first .. j : s[k] \in B
  <2>1. ASSUME NEW k \in first .. j PROVE s[k] \in B
    <3>1. k \in 1 .. Len(s)
      BY <1>1, <1>2
    <3> QED
      BY <1>2, <3>1, ElementOfSeq
  <2> QED
    BY <2>1
<1>4. SubSeq(s, first, j) \in Seq(B)
  BY <1>2, <1>3, SubSeqProperties
<1>5. Len(SubSeq(s, first, j)) = IF first <= j THEN j - first + 1 ELSE 0
  BY <1>2, <1>3, SubSeqProperties
<1>6. \A k \in 1 .. j - first + 1 : SubSeq(s, first, j)[k] = s[first + k - 1]
  BY <1>2, <1>3, SubSeqProperties
<1>7. (IF first <= j THEN j - first + 1 ELSE 0) = j - i
  BY <1>1
<1>8. ASSUME NEW k \in 1 .. j - i PROVE SubSeq(s, first, j)[k] = s[i + k]
  <2>1. k \in 1 .. j - first + 1 /\ first + k - 1 = i + k
    BY <1>1
  <2> QED
    BY <1>6, <2>1
<1> QED
  BY <1>1, <1>4, <1>5, <1>7, <1>8 DEF Bytes

LEMMA LittleEndianBytes ==
  ASSUME NEW x \in Int, NEW n \in {1, 2, 4}
  PROVE  LittleEndian(x, n) \in Bytes /\ LittleEndian(x, n) \in [1 .. n -> 0 .. 255]
<1>1. /\ (x \div 1) % 256 \in 0 .. 255 /\ (x \div 256) % 256 \in 0 .. 255
      /\ (x \div 65536) % 256 \in 0 .. 255 /\ (x \div 16777216) % 256 \in 0 .. 255
  BY SMT
<1>2. ASSUME NEW k \in 1 .. n
      PROVE  k <= 4 /\ (x \div 256^(k - 1)) % 256 \in 0 .. 255
  <2>1. k = 1 \/ k = 2 \/ k = 3 \/ k = 4
    BY SMT
  <2>2. 1 - 1 = 0 /\ 2 - 1 = 1 /\ 3 - 1 = 2 /\ 4 - 1 = 3
    BY SMT
  <2> QED
    BY <1>1, <2>1, <2>2, Powers, SMT
<1>3. LittleEndian(x, n) \in [1 .. n -> 0 .. 255]
  BY <1>2 DEF LittleEndian
<1>4. PICK e : e = LittleEndian(x, n)
  OBVIOUS
<1>5. e \in [1 .. n -> 0 .. 255] /\ n \in Nat
  BY <1>3, <1>4
<1>6. e \in Seq(0 .. 255)
  BY <1>5
<1> QED
  BY <1>3, <1>4, <1>6 DEF Bytes

LEMMA PreAlignBytes ==
  ASSUME NEW b, NEW size, NEW minalign, NEW fields, NEW last,
         Built(b, size, minalign, fields, last), b.data \in Bytes,
         NEW len \in Nat, NEW n \in {1, 4, 8}
  PROVE  PreAlign(b, len, n).data \in Bytes
<1>1. size \in Nat /\ Len(b.data) = size /\ b \in [data : {b.data}, minalign : {minalign}, fields : {fields}, last : {last}]
  BY LongIsSeq DEF Built, IsLong
<1>2. PICK pad : pad = PaddingBytes(Len(b.data) + len, n)
  OBVIOUS
<1>3. pad \in Nat
  BY <1>1, <1>2 DEF PaddingBytes
<1>4. Zeros(pad) \in Bytes
  BY <1>3 DEF Zeros, Bytes
<1>5. PreAlign(b, len, n).data = Zeros(pad) \o b.data
  BY <1>1, <1>2 DEF PreAlign
<1> QED
  BY <1>4, <1>5 DEF Bytes

LEMMA PushElementBytes ==
  ASSUME NEW b, NEW size, NEW minalign \in Nat, NEW fields, NEW last,
         Built(b, size, minalign, fields, last), b.data \in Bytes,
         NEW x \in Int, NEW n \in {1, 4}
  PROVE  PushElement(b, x, n).data \in Bytes
<1> DEFINE a == Align(b, n)
           len == size + ((-(size + 0)) % n)
           m == IF minalign >= n THEN minalign ELSE n
<1>1. 0 \in Nat /\ n \in {1, 4, 8} /\ n \in {1, 2, 4}
  OBVIOUS
<1>2. a.data \in Bytes
  BY <1>1, PreAlignBytes DEF Align
<1>3. Built(a, len, m, fields, last)
  BY ONLY <1>1, Built(b, size, minalign, fields, last), minalign \in Nat, PreAlignSize DEF Align
<1> HIDE DEF len, m
<1>4. a \in [data : {a.data}, minalign : {m}, fields : {fields}, last : {last}]
  BY <1>3 DEF Built
<1> HIDE DEF a
<1>5. PushElement(b, x, n).data = LittleEndian(x, n) \o a.data
  BY <1>4 DEF PushElement, a
<1>6. LittleEndian(x, n) \in Bytes
  BY <1>1, LittleEndianBytes
<1> QED
  BY <1>2, <1>5, <1>6 DEF Bytes

LEMMA AddElementBytes ==
  ASSUME NEW b, NEW size, NEW minalign \in Nat, NEW fields, NEW last,
         Built(b, size, minalign, fields, last), b.data \in Bytes,
         NEW field, NEW x \in Int, NEW n \in {1, 4}
  PROVE  AddElement(b, field, x, n).data \in Bytes
<1> DEFINE a   == PushElement(b, x, n)
           sum == size + ((-size) % n) + n
           m   == IF minalign >= n THEN minalign ELSE n
<1>1. a.data \in Bytes
  BY PushElementBytes
<1>2. Built(a, sum, m, fields, sum)
  <2>1. n \in {1, 4, 8}
    OBVIOUS
  <2> QED
    BY ONLY <2>1, Built(b, size, minalign, fields, last), minalign \in Nat, PushElementSize
<1> HIDE DEF a, sum, m
<1>3. a \in [data : {a.data}, minalign : {m}, fields : {fields}, last : {sum}]
  BY <1>2 DEF Built
<1>4. [a EXCEPT !.fields = @ \cup {[id |-> field, off |-> a.last]}].data = a.data
  BY <1>3
<1>5. CASE x = 0
  BY <1>5 DEF AddElement
<1>6. CASE x # 0
  BY <1>1, <1>4, <1>6 DEF AddElement, a
<1> QED
  BY <1>5, <1>6

LEMMA EndTableBytes ==
  ASSUME NEW b, NEW size, NEW minalign \in Nat, NEW fields, NEW last,
         Built(b, size, minalign, fields, last), minalign >= 4, b.data \in Bytes,
         NEW start \in Int, NEW vtsize \in Nat, vtsize >= 4, Fit(fields, vtsize, size)
  PROVE  EndTable(b, start).data \in Bytes
<1> DEFINE a   == PushElement(b, 0, 4)
           Ids == {4} \cup {f.id + 2 : f \in a.fields}
           Places(id) == {0} \cup {a.last - f.off : f \in {g \in a.fields : g.id = id}}
           Entry(id) ==
             IF id = 0 THEN Max(Ids) ELSE
             IF id = 2 THEN a.last - start ELSE
             Max(Places(id))
           vtable == [k \in 1 .. Max(Ids) |->
                        LittleEndian(Entry(2 * ((k - 1) \div 2)), 2)[((k - 1) % 2) + 1]]
           rest == SubSeq(a.data, 5, Len(a.data))
           ref  == LittleEndian(Max(Ids), 4)
           table == size + ((-size) % 4) + 4
<1>0. size \in Nat /\ table \in Nat /\ size <= table /\ 4 <= table
  BY DEF Built, IsLong
<1>1. a.data \in Bytes
  BY PushElementBytes
<1>2. Built(a, table, minalign, fields, table)
  <2>1. Built(a, table, IF minalign >= 4 THEN minalign ELSE 4, fields, table)
    BY PushElementSize
  <2> QED
    BY <2>1
<1>3. /\ a \in [data : {a.data}, minalign : {minalign}, fields : {fields}, last : {table}]
      /\ a.fields = fields /\ a.last = table
  BY <1>2 DEF Built
<1>4. Max(Ids) = vtsize
  <2>1. Ids \in SUBSET Int /\ vtsize \in Ids /\ \A x \in Ids : vtsize >= x
    BY <1>3 DEF Fit, FieldIds
  <2> HIDE DEF Ids
  <2> QED
    BY <2>1, GreatestIsMax
<1> HIDE DEF a, Ids, table
<1>5. ASSUME NEW id PROVE Max(Places(id)) \in Int
  <2>1. CASE \A f \in fields : f.id # id
    <3>1. Places(id) = {0}
      BY <1>3, <2>1
    <3>2. Places(id) \in SUBSET Int /\ 0 \in Places(id) /\ \A x \in Places(id) : 0 >= x
      BY <3>1
    <3> HIDE DEF Places
    <3> QED
      BY <3>2, GreatestIsMax
  <2>2. CASE \E f \in fields : f.id = id
    <3>1. PICK f \in fields : f.id = id
      BY <2>2
    <3>2. \A g \in fields : g.id = id => g = f
      BY <3>1 DEF Fit
    <3>3. PICK x : x = table - f.off
      OBVIOUS
    <3>4. x \in Nat
      BY <1>0, <3>3 DEF Fit
    <3>5. Places(id) = {0} \cup {x}
      BY <1>3, <3>1, <3>2, <3>3
    <3> HIDE DEF Places
    <3> QED
      BY <3>4, <3>5, GreatestOfTwo
  <2> QED
    BY <2>1, <2>2
<1>6. ASSUME NEW id PROVE Entry(id) \in Int
  <2> HIDE DEF Places
  <2> QED
    BY <1>0, <1>3, <1>4, <1>5
<1>7. vtable \in Bytes
  <2>1. ASSUME NEW k \in 1 .. vtsize
        PROVE  LittleEndian(Entry(2 * ((k - 1) \div 2)), 2)[((k - 1) % 2) + 1] \in 0 .. 255
    <3>1. PICK x : x = Entry(2 * ((k - 1) \div 2))
      OBVIOUS
    <3>2. x \in Int
      BY <1>6, <3>1
    <3>3. LittleEndian(x, 2) \in [1 .. 2 -> 0 .. 255]
      BY <3>2, LittleEndianBytes
    <3>4. ((k - 1) % 2) + 1 \in 1 .. 2
      OBVIOUS
    <3>5. LittleEndian(x, 2)[((k - 1) % 2) + 1] \in 0 .. 255
      BY <3>3, <3>4
    <3> HIDE DEF Entry
    <3> QED
      BY <3>1, <3>5
  <2>2. vtable \in [1 .. vtsize -> 0 .. 255]
    BY <1>4, <2>1
  <2> HIDE DEF vtable
  <2> QED
    BY <2>2 DEF Bytes
<1>8. ref \in Bytes
  BY <1>4, LittleEndianBytes
<1>9. rest \in Bytes
  <2>1. PICK s : s = a.data
    OBVIOUS
  <2>2. s \in Seq(0 .. 255) /\ Len(s) = table
    BY <1>1, <1>2, <2>1, LongIsSeq DEF Built, Bytes
  <2>3. table \in Nat /\ 4 <= table
    BY <1>0
  <2>4. SubSeq(s, 5, table) \in Seq(0 .. 255)
    <3>1. ASSUME NEW k \in 5 .. table PROVE s[k] \in 0 .. 255
      <4>1. k \in 1 .. Len(s)
        BY <2>2, <2>3
      <4> QED
        BY <2>2, <4>1, ElementOfSeq
    <3>2. 5 \in Int /\ table \in Int
      BY <2>3
    <3> QED
      BY <3>1, <3>2, SubSeqProperties
  <2> QED
    BY <2>1, <2>2, <2>4 DEF Bytes
<1>10. EndTable(b, start) = [a EXCEPT !.data = vtable \o ref \o rest, !.fields = {}]
  BY DEF EndTable, a, Ids
<1> HIDE DEF vtable, ref, rest
<1>11. EndTable(b, start).data = vtable \o ref \o rest
  BY <1>3, <1>10
<1> QED
  BY <1>7, <1>8, <1>9, <1>11 DEF Bytes

LEMMA FinishBytes ==
  ASSUME NEW b, NEW size, NEW fields, NEW last,
         Built(b, size, 4, fields, last), b.data \in Bytes, NEW root \in Nat
  PROVE  Finish(b, root) \in Bytes
<1> DEFINE a == PreAlign(b, 4, 4)
           c == Align(a, 4)
           s == size + ((-(size + 4)) % 4)
           u == s + ((-(s + 0)) % 4)
<1>0. 4 \in Nat /\ 0 \in Nat /\ 4 \in {1, 4, 8} /\ 4 \in {1, 4} /\ b.minalign = 4
  BY DEF Built
<1>1. Built(a, s, 4, fields, last)
  <2>1. Built(a, s, IF 4 >= 4 THEN 4 ELSE 4, fields, last)
    BY ONLY <1>0, Built(b, size, 4, fields, last), PreAlignSize
  <2> HIDE DEF a, s
  <2> QED
    BY <2>1
<1>2. a.data \in Bytes
  BY <1>0, PreAlignBytes
<1> HIDE DEF a, s
<1>3. Built(c, u, 4, fields, last)
  <2>1. Built(c, u, IF 4 >= 4 THEN 4 ELSE 4, fields, last)
    BY ONLY <1>0, <1>1, PreAlignSize DEF Align
  <2> HIDE DEF c, u
  <2> QED
    BY <2>1
<1>4. c.data \in Bytes
  BY <1>0, <1>1, <1>2, PreAlignBytes DEF Align
<1> HIDE DEF c, u
<1>5. ReferTo(a, root) \in Int
  <2>1. Len(c.data) \in Nat
    BY <1>4 DEF Bytes
  <2> QED
    BY <2>1 DEF ReferTo, c
<1>6. PushElement(c, ReferTo(a, root), 4).data \in Bytes
  <2>1. PICK x : x = ReferTo(a, root)
    OBVIOUS
  <2> QED
    BY <1>0, <1>3, <1>4, <1>5, <2>1, PushElementBytes
<1> QED
  BY <1>0, <1>6 DEF Finish, a, c

LEMMA CreateStringBytes ==
  ASSUME NEW chars \in Bytes
  PROVE  CreateString(NewBuilder, chars).data \in Bytes
<1> DEFINE a   == PreAlign(NewBuilder, Len(chars) + 1, 4)
           d   == chars \o << 0 >> \o a.data
           c   == [a EXCEPT !.data = d]
           pad == 0 + ((-(0 + (Len(chars) + 1))) % 4)
<1>0. Len(chars) \in Nat /\ Len(chars) + 1 \in Nat /\ 4 \in {1, 4, 8} /\ 4 \in {1, 4} /\ 1 \in Nat
  BY DEF Bytes
<1>1. Built(NewBuilder, 0, 1, {}, 0) /\ NewBuilder.data \in Bytes
  <2>1. IsLong(<< >>, 0)
    BY DEF IsLong
  <2>2. Built(NewBuilder, 0, 1, {}, 0)
    BY <2>1, BuiltAs DEF NewBuilder
  <2>3. NewBuilder.data \in Bytes
    BY DEF NewBuilder, Bytes
  <2> QED
    BY <2>2, <2>3
<1>2. a.data \in Bytes
  BY <1>0, <1>1, PreAlignBytes
<1>3. Built(a, pad, 4, {}, 0)
  <2>1. Built(a, pad, IF 1 >= 4 THEN 1 ELSE 4, {}, 0)
    BY ONLY <1>0, <1>1, PreAlignSize
  <2> HIDE DEF a, pad
  <2> QED
    BY <2>1
<1> HIDE DEF a, pad
<1>4. d \in Bytes
  BY <1>2 DEF Bytes
<1> HIDE DEF d
<1>5. c \in [data : {d}, minalign : {4}, fields : {{}}, last : {0}]
  BY <1>3 DEF Built
<1>6. Built(c, Len(d), 4, {}, 0) /\ c.data = d
  <2>1. IsLong(d, Len(d))
    BY <1>4, SeqIsLong DEF Bytes
  <2> QED
    BY <1>5, <2>1, BuiltAs
<1>7. PushElement(c, Len(chars), 4).data \in Bytes
  <2>1. Len(chars) \in Int /\ 4 \in Nat
    BY <1>0
  <2> HIDE DEF c
  <2> QED
    BY <1>0, <1>4, <1>6, <2>1, PushElementBytes
<1> QED
  BY <1>7 DEF CreateString, a, d

=============================================================================
