---------------------------- MODULE BufferProofs ----------------------------
(***************************************************************************)
(* BufferReader keeps its offset in the data and implements ByteStream,    *)
(* for any widths, requests and calls.                                     *)
(***************************************************************************)
EXTENDS BufferReader, BytesProofs

-----------------------------------------------------------------------------
(* The bytes that are left, as ByteStream has them.                        *)
Left(b) == SubSeq(b.ptr, b.offset + 1, b.size)

(* What is left is as long as buffer_remaining says, and made of bytes.    *)
LEMMA LeftIsUnread ==
  ASSUME NEW b \in GoodBuffers
  PROVE  /\ Left(b) \in Seq(Byte)
         /\ Len(Left(b)) = BytesLeft(b)
         /\ \A i \in 1..BytesLeft(b) : Left(b)[i] = b.ptr[b.offset + i] /\ Left(b)[i] \in Byte
<1> DEFINE from == b.offset + 1
<1>1. /\ b.ptr \in Seq(Byte) /\ b.offset \in Nat /\ b.size \in Nat
      /\ b.offset <= b.size /\ b.size <= Len(b.ptr)
  BY Sizes DEF GoodBuffers
<1>2. /\ from \in Int /\ b.size \in Int
      /\ \A i \in from..b.size : b.ptr[i] \in Byte
  BY <1>1
<1>3. /\ SubSeq(b.ptr, from, b.size) \in Seq(Byte)
      /\ Len(SubSeq(b.ptr, from, b.size)) = IF from <= b.size THEN b.size - from + 1 ELSE 0
      /\ \A i \in 1..(b.size - from + 1) :
           SubSeq(b.ptr, from, b.size)[i] = b.ptr[from + i - 1]
  <2> HIDE DEF from
  <2> QED BY <1>2, SubSeqProperties
<1>4. Len(Left(b)) = BytesLeft(b)
  BY <1>1, <1>3 DEF Left, BytesLeft
<1>5. ASSUME NEW i \in 1..BytesLeft(b)
      PROVE  Left(b)[i] = b.ptr[b.offset + i] /\ Left(b)[i] \in Byte
  <2>1. i \in 1..(b.size - from + 1) /\ from + i - 1 = b.offset + i /\ b.offset + i \in from..b.size
    BY <1>1 DEF BytesLeft
  <2> QED BY <1>2, <1>3, <2>1 DEF Left
<1> QED BY <1>3, <1>4, <1>5 DEF Left

(* A part of a part is a part.                                             *)
LEMMA PartOfPart ==
  ASSUME NEW p \in Seq(Byte), NEW o \in Nat, NEW z \in o..Len(p),
         NEW m \in Nat, NEW n \in m..(z - o)
  PROVE  SubSeq(SubSeq(p, o + 1, z), m + 1, n) = SubSeq(p, o + m + 1, o + n)
<1>1. Len(p) \in Nat
  OBVIOUS
<1>2. CASE m = n
  <2>1. n < m + 1 /\ o + n < o + m + 1
    BY <1>1, <1>2
  <2>2. SubSeq(SubSeq(p, o + 1, z), m + 1, n) = <<>>
    BY <2>1, SubSeqEmpty
  <2>3. SubSeq(p, o + m + 1, o + n) = <<>>
    BY <2>1, SubSeqEmpty
  <2> QED BY <2>2, <2>3
<1>3. CASE m < n
  <2> DEFINE i == o + 1
             k == m + 1
  <2>1. /\ i \in 1..Len(p) /\ z \in 1..Len(p)
        /\ k \in 1..(z - i + 1) /\ n \in 1..(z - i + 1)
    BY <1>1, <1>3
  <2>2. i + k - 1 = o + m + 1 /\ i + n - 1 = o + n
    BY <1>1
  <2> HIDE DEF i, k
  <2>3. SubSeq(SubSeq(p, i, z), k, n) = SubSeq(p, i + k - 1, i + n - 1)
    BY <2>1, SubSeqOfSubSeq
  <2> QED BY <2>2, <2>3 DEF i, k
<1> QED BY <1>1, <1>2, <1>3

(* A read returns the beginning of what is left.                           *)
LEMMA FirstOfLeft ==
  ASSUME NEW b \in GoodBuffers, NEW n \in 0..BytesLeft(b)
  PROVE  BytesAt(b, n) = Stream!First(Left(b), n)
<1>1. /\ b.ptr \in Seq(Byte) /\ b.offset \in Nat /\ b.size \in b.offset..Len(b.ptr)
      /\ 0 \in Nat /\ n \in 0..(b.size - b.offset)
  BY Sizes DEF GoodBuffers, BytesLeft
<1>2. SubSeq(Left(b), 0 + 1, n) = SubSeq(b.ptr, b.offset + 0 + 1, b.offset + n)
  BY <1>1, PartOfPart DEF Left
<1>3. 0 + 1 = 1 /\ b.offset + 0 + 1 = b.offset + 1
  BY <1>1
<1> QED BY <1>2, <1>3 DEF BytesAt, Stream!First

(* Going forward leaves the rest of it.                                    *)
LEMMA RestOfLeft ==
  ASSUME NEW b \in GoodBuffers, NEW n \in 0..BytesLeft(b)
  PROVE  Left(Skip(b, n)) = Stream!Rest(Left(b), n)
<1>1. /\ b.ptr \in Seq(Byte) /\ b.offset \in Nat /\ b.size \in b.offset..Len(b.ptr)
      /\ n \in Nat /\ BytesLeft(b) \in n..(b.size - b.offset) /\ b.offset + BytesLeft(b) = b.size
  BY Sizes DEF GoodBuffers, BytesLeft
<1>2. Left(Skip(b, n)) = SubSeq(b.ptr, b.offset + n + 1, b.size)
  BY SkipStaysGood DEF Left
<1>3. Stream!Rest(Left(b), n) = SubSeq(Left(b), n + 1, BytesLeft(b))
  BY LeftIsUnread DEF Stream!Rest
<1>4. SubSeq(Left(b), n + 1, BytesLeft(b)) = SubSeq(b.ptr, b.offset + n + 1, b.offset + BytesLeft(b))
  BY <1>1, PartOfPart DEF Left
<1> QED BY <1>1, <1>2, <1>3, <1>4

-----------------------------------------------------------------------------
(* Each call does what ByteStream lets it do.                              *)

(* r is the answer to c: a value that the data left begins with, a refusal *)
(* when there is none, or the path whose last element is cut.              *)
Takes(b, c, r) ==
  \E n \in 0..BytesLeft(b) :
    /\ Stream!BeginsWith(c, Left(b), n)
    /\ r.ok = TRUE /\ r.value = Stream!Ordered(c, BytesAt(b, n)) /\ r.buf = Skip(b, n)

Refuses(b, c, r) ==
  /\ Gave(b, r)
  /\ \A n \in 0..BytesLeft(b) : ~Stream!BeginsWith(c, Left(b), n)

AcceptsCutPath(b, c, r) ==
  /\ c.kind = "path" /\ c.n \in 1..MaxPath
  /\ BytesLeft(b) \in ((c.n - 1) * WordLen)..(c.n * WordLen - 1)
  /\ r.ok = TRUE /\ r.buf = b

Answers(b, c, r) == Takes(b, c, r) \/ Refuses(b, c, r) \/ AcceptsCutPath(b, c, r)

(* When only one length comes into question, it decides.                   *)
LEMMA OneLength ==
  ASSUME NEW b \in GoodBuffers, NEW c, NEW r, NEW n \in Nat,
         Stream!Lengths(c, Left(b)) = {n},
         c.kind \in {"bool", "varuint"} => n > 0,
         c.kind # "LE",
         IF n <= BytesLeft(b) THEN Took(b, r, n) ELSE Gave(b, r)
  PROVE  Answers(b, c, r)
<1>1. Len(Left(b)) = BytesLeft(b) /\ BytesLeft(b) \in Nat
  BY LeftIsUnread, RemainingIsUnread
<1>2. CASE n <= BytesLeft(b)
  <2>1. Stream!BeginsWith(c, Left(b), n)
    BY <1>1, <1>2 DEF Stream!BeginsWith
  <2> QED BY <1>2, <2>1 DEF Answers, Takes, Took, Stream!Ordered
<1>3. CASE n > BytesLeft(b)
  <2>1. \A k \in 0..BytesLeft(b) : ~Stream!BeginsWith(c, Left(b), k)
    BY <1>1, <1>3 DEF Stream!BeginsWith
  <2> QED BY <1>1, <1>3, <2>1 DEF Answers, Refuses
<1> QED BY <1>1, <1>2, <1>3

(* When none does, the call has to refuse.                                 *)
LEMMA NoLength ==
  ASSUME NEW b \in GoodBuffers, NEW c, NEW r,
         \/ Stream!Lengths(c, Left(b)) = {}
         \/ c.kind \in {"bool", "varuint"} /\ BytesLeft(b) = 0,
         Gave(b, r)
  PROVE  Answers(b, c, r)
<1>1. Len(Left(b)) = BytesLeft(b)
  BY LeftIsUnread
<1>2. \A n \in 0..BytesLeft(b) : ~Stream!BeginsWith(c, Left(b), n)
  BY <1>1 DEF Stream!BeginsWith
<1> QED BY <1>2 DEF Answers, Refuses

(* buffer_read_buffer, and the big-endian numbers.                         *)
LEMMA BytesAnswer ==
  ASSUME NEW b \in GoodBuffers, NEW c \in Calls, c.kind \in {"bytes", "BE"}
  PROVE  Answers(b, c, ReadCall(b, c))
<1>1. c.n \in Nat
  BY CallsAssumption
<1>2. ReadCall(b, c) = ReadBytes(b, c.n)
  BY DEF ReadCall, ReadUint
<1>3. Stream!Lengths(c, Left(b)) = {c.n}
  BY DEF Stream!Lengths
<1>4. IF c.n <= BytesLeft(b) THEN Took(b, ReadBytes(b, c.n), c.n)
      ELSE Gave(b, ReadBytes(b, c.n))
  BY <1>1, ReadBytesReads, RefusedGave, RemainingIsUnread
<1> QED BY <1>1, <1>2, <1>3, <1>4, OneLength

(* Changing a field to the value it has changes nothing.                   *)
LEMMA SameValue ==
  ASSUME NEW x, NEW y, NEW z
  PROVE  [[ok |-> x, value |-> y, buf |-> z] EXCEPT !.value = y]
           = [ok |-> x, value |-> y, buf |-> z]
OBVIOUS

(* The little-endian numbers.                                              *)
LEMMA ReversedAnswer ==
  ASSUME NEW b \in GoodBuffers, NEW c \in Calls, c.kind = "LE"
  PROVE  Answers(b, c, ReadCall(b, c))
<1> DEFINE r == ReadBytes(b, c.n)
<1>1. c.n \in Nat
  BY CallsAssumption
<1>2. Stream!Lengths(c, Left(b)) = {c.n}
  BY DEF Stream!Lengths
<1>3. ReadCall(b, c) = [r EXCEPT !.value = Reverse(@)]
  BY DEF ReadCall, ReadUint
<1>4. Len(Left(b)) = BytesLeft(b) /\ BytesLeft(b) \in Nat
  BY LeftIsUnread, RemainingIsUnread
<1>5. CASE c.n <= BytesLeft(b)
  <2>1. c.n \in 0..BytesLeft(b) /\ r.ok /\ r.value = BytesAt(b, c.n) /\ r.buf = Skip(b, c.n)
    BY <1>1, <1>5, ReadBytesReads DEF Took
  <2>2. /\ ReadCall(b, c).ok /\ ReadCall(b, c).buf = Skip(b, c.n)
        /\ ReadCall(b, c).value = Reverse(BytesAt(b, c.n))
    BY <1>3, <2>1 DEF ReadBytes, Refused
  <2>3. Stream!BeginsWith(c, Left(b), c.n)
    BY <1>2, <1>4, <1>5 DEF Stream!BeginsWith
  <2>4. Stream!Ordered(c, BytesAt(b, c.n)) = Reverse(BytesAt(b, c.n))
    BY DEF Stream!Ordered, Stream!Reverse, Reverse
  <2> QED BY <2>1, <2>2, <2>3, <2>4 DEF Answers, Takes
<1>6. CASE c.n > BytesLeft(b)
  <2>1. r = Refused(b)
    BY <1>1, <1>4, <1>6, ReadBytesReads
  <2>2. Reverse(<<>>) = <<>>
    <3>1. 1..Len(<<>>) = {}
      OBVIOUS
    <3> QED BY <3>1, SMT DEF Reverse
  <2>3. ReadCall(b, c) = Refused(b)
    <3>1. Refused(b).value = <<>>
      BY DEF Refused
    <3>2. [Refused(b) EXCEPT !.value = <<>>] = Refused(b)
      BY SameValue DEF Refused
    <3> QED BY <1>3, <2>1, <2>2, <3>1, <3>2
  <2>4. Gave(b, ReadCall(b, c))
    BY <1>4, <2>3, RefusedGave
  <2>5. \A k \in 0..BytesLeft(b) : ~Stream!BeginsWith(c, Left(b), k)
    BY <1>2, <1>4, <1>6 DEF Stream!BeginsWith
  <2> QED BY <2>4, <2>5 DEF Answers, Refuses
<1> QED BY <1>1, <1>4, <1>5, <1>6

(* The byte that a bool or a varuint begins with.                          *)
LEMMA FirstByte ==
  ASSUME NEW b \in GoodBuffers, BytesLeft(b) > 0
  PROVE  /\ BytesAt(b, 1)[1] = Left(b)[1]
         /\ Left(b)[1] \in Nat /\ Left(b)[1] < SizeMod
<1>1. 1 \in 0..BytesLeft(b) /\ 1 \in 1..BytesLeft(b)
  BY RemainingIsUnread
<1>2. Left(b)[1] \in Byte /\ Len(Left(b)) = BytesLeft(b) /\ Left(b) \in Seq(Byte)
  BY <1>1, LeftIsUnread
<1>3. BytesAt(b, 1) = SubSeq(Left(b), 1, 1)
  BY <1>1, FirstOfLeft DEF Stream!First
<1>4. SubSeq(Left(b), 1, 1)[1] = Left(b)[1]
  BY <1>1, <1>2
<1> QED BY <1>2, <1>3, <1>4, ByteIsSize

(* buffer_read_bool.                                                       *)
LEMMA BoolAnswer ==
  ASSUME NEW b \in GoodBuffers, NEW c \in Calls, c.kind = "bool"
  PROVE  Answers(b, c, ReadCall(b, c))
<1>1. ReadCall(b, c) = ReadBool(b) /\ BytesLeft(b) \in Nat
  BY RemainingIsUnread DEF ReadCall
<1>2. CanRead(b, 1) <=> BytesLeft(b) > 0
  BY RemainingIsUnread DEF CanRead
<1>3. Gave(b, Refused(b))
  BY RefusedGave, RemainingIsUnread
<1>4. CASE BytesLeft(b) = 0
  BY <1>1, <1>2, <1>3, <1>4, NoLength DEF ReadBool
<1>5. CASE BytesLeft(b) > 0 /\ Left(b)[1] \in {0, 1}
  <2>1. Stream!Lengths(c, Left(b)) = {1}
    BY <1>5 DEF Stream!Lengths
  <2>2. ReadCall(b, c) = ReadBytes(b, 1)
    BY <1>1, <1>2, <1>5, FirstByte DEF ReadBool
  <2>3. Took(b, ReadBytes(b, 1), 1)
    BY <1>1, <1>5, ReadBytesReads
  <2> QED BY <1>1, <1>5, <2>1, <2>2, <2>3, OneLength
<1>6. CASE BytesLeft(b) > 0 /\ Left(b)[1] \notin {0, 1}
  <2>1. Stream!Lengths(c, Left(b)) = {}
    BY <1>6 DEF Stream!Lengths
  <2>2. ReadCall(b, c) = Refused(b)
    BY <1>1, <1>6, FirstByte DEF ReadBool
  <2> QED BY <1>3, <2>1, <2>2, NoLength
<1> QED BY <1>1, <1>4, <1>5, <1>6

(* buffer_read_varuint: its length byte decides, if it is small enough.    *)
LEMMA VaruintAnswer ==
  ASSUME NEW b \in GoodBuffers, NEW c \in Calls, c.kind = "varuint"
  PROVE  Answers(b, c, ReadCall(b, c))
<1> DEFINE length == ReadBytes(b, 1)
           number == Left(b)[1]
<1>1. ReadCall(b, c) = ReadVaruint(b, c.n) /\ BytesLeft(b) \in Nat /\ c.n \in Nat
  BY RemainingIsUnread, CallsAssumption DEF ReadCall
<1>2. CASE BytesLeft(b) = 0
  <2>1. length = Refused(b)
    BY <1>2, ReadBytesReads
  <2>2. ReadVaruint(b, c.n) = Refused(b)
    BY <2>1, ThenRefuses DEF ReadVaruint
  <2>3. Gave(b, Refused(b))
    BY <1>1, RefusedGave
  <2> QED BY <1>1, <1>2, <2>2, <2>3, NoLength
<1>3. CASE BytesLeft(b) > 0
  <2>0. Took(b, length, 1)
    BY <1>1, <1>3, ReadBytesReads
  <2>1. 1 \in 0..BytesLeft(b) /\ length.ok /\ length.buf = Skip(b, 1)
        /\ length.value[1] = number /\ number \in Nat
    BY <1>3, <2>0, FirstByte DEF Took
  <2>2. CASE number > c.n
    <3>1. ReadVaruint(b, c.n) = Refused(Skip(b, 1))
      BY <2>1, <2>2 DEF ReadVaruint, Then, Refused
    <3>2. Stream!Lengths(c, Left(b)) = {}
      BY <1>1, <2>1, <2>2 DEF Stream!Lengths
    <3> QED BY <1>1, <2>1, <3>1, <3>2, RefusedGave, NoLength
  <2>3. CASE number <= c.n
    <3>1. ReadVaruint(b, c.n) = Then(length, ReadBytes(length.buf, number))
      BY <1>1, <2>1, <2>3 DEF ReadVaruint
    <3>2. IF 1 + number <= BytesLeft(b) THEN Took(b, ReadVaruint(b, c.n), 1 + number)
          ELSE Gave(b, ReadVaruint(b, c.n))
      BY <2>1, <3>1, ThenReads
    <3>3. Stream!Lengths(c, Left(b)) = {1 + number}
      BY <1>1, <2>3 DEF Stream!Lengths
    <3>4. 1 + number \in Nat /\ 1 + number > 0
      BY <2>1
    <3> QED BY <1>1, <3>2, <3>3, <3>4, OneLength
  <2> QED BY <1>1, <2>1, <2>2, <2>3
<1> QED BY <1>1, <1>2, <1>3

(* buffer_read_address.                                                    *)
LEMMA AddressAnswer ==
  ASSUME NEW b \in GoodBuffers, NEW c \in Calls, c.kind = "address"
  PROVE  Answers(b, c, ReadCall(b, c))
<1>1. ReadCall(b, c) = Then(ReadBytes(b, 1), ReadBytes(ReadBytes(b, 1).buf, HashLen))
  BY DEF ReadCall, ReadAddress
<1>2. IF 1 + HashLen <= BytesLeft(b) THEN Took(b, ReadCall(b, c), 1 + HashLen)
      ELSE Gave(b, ReadCall(b, c))
  BY <1>1, Sizes, ThenReads
<1>3. Stream!Lengths(c, Left(b)) = {1 + HashLen}
  BY DEF Stream!Lengths
<1> QED BY <1>2, <1>3, Sizes, OneLength

(* buffer_read_cell_ref.                                                   *)
LEMMA CellRefAnswer ==
  ASSUME NEW b \in GoodBuffers, NEW c \in Calls, c.kind = "cellref"
  PROVE  Answers(b, c, ReadCall(b, c))
<1>1. ReadCall(b, c) = Then(ReadBytes(b, ShortLen), ReadBytes(ReadBytes(b, ShortLen).buf, HashLen))
  BY DEF ReadCall, ReadCellRef, ReadUint
<1>2. IF ShortLen + HashLen <= BytesLeft(b) THEN Took(b, ReadCall(b, c), ShortLen + HashLen)
      ELSE Gave(b, ReadCall(b, c))
  BY <1>1, Sizes, ThenReads
<1>3. Stream!Lengths(c, Left(b)) = {ShortLen + HashLen}
  BY DEF Stream!Lengths
<1> QED BY <1>2, <1>3, Sizes, OneLength

(* buffer_move.                                                            *)
LEMMA MoveAnswer ==
  ASSUME NEW b \in GoodBuffers, NEW c \in Calls, c.kind = "move"
  PROVE  Answers(b, c, ReadCall(b, c))
<1> DEFINE rest == BytesLeft(b)
<1>1. /\ ReadCall(b, c) = Move(b, c.n) /\ Remaining(b) = rest /\ rest \in Nat /\ c.n \in Nat
      /\ Len(Left(b)) = rest
  BY RemainingIsUnread, LeftIsUnread, CallsAssumption DEF ReadCall
<1>2. CASE rest > c.n
  <2>1. Stream!Lengths(c, Left(b)) = {}
    BY <1>1, <1>2 DEF Stream!Lengths
  <2>2. ReadCall(b, c) = Refused(b)
    BY <1>1, <1>2 DEF Move
  <2> QED BY <1>1, <2>1, <2>2, RefusedGave, NoLength
<1>3. CASE rest <= c.n
  <2>1. Stream!Lengths(c, Left(b)) = {rest}
    BY <1>1, <1>3 DEF Stream!Lengths
  <2>2. /\ b \in [ptr : Seq(Byte), size : Nat, offset : Nat]
        /\ b.offset + rest = b.size /\ b.size - 0 = b.size /\ 0 <= b.size
    BY DEF GoodBuffers, BytesLeft
  <2>3. SeekEnd(b, 0) = Skip(b, rest)
    BY <2>2 DEF SeekEnd, Skip
  <2>4. Took(b, ReadCall(b, c), rest)
    BY <1>1, <1>3, <2>3 DEF Move, Took
  <2> QED BY <1>1, <2>1, <2>4, OneLength
<1> QED BY <1>1, <1>2, <1>3

(* Elements of WordLen bytes: the n-th begins after n - 1 of them.         *)
LEMMA Elements ==
  ASSUME NEW n \in Nat \ {0}, NEW i \in 0..(n - 1)
  PROVE  /\ n * WordLen \in Nat /\ i * WordLen \in Nat /\ (n - 1) * WordLen \in Nat
         /\ n * WordLen = (n - 1) * WordLen + WordLen
         /\ i * WordLen <= (n - 1) * WordLen
BY Sizes

(* bip32_path_read: only the beginning of the last element matters.        *)
LEMMA PathReadIs ==
  ASSUME NEW length \in Nat, NEW n \in Nat
  PROVE  PathRead(length, n) <=> n \in 1..MaxPath /\ (n - 1) * WordLen <= length
<1>1. ASSUME PathRead(length, n)
      PROVE  n \in 1..MaxPath /\ (n - 1) * WordLen <= length
  <2>1. n \in 1..MaxPath /\ n - 1 \in 0..(n - 1)
    BY <1>1, Sizes DEF PathRead
  <2> QED BY <1>1, <2>1 DEF PathRead
<1>2. ASSUME n \in 1..MaxPath, (n - 1) * WordLen <= length
      PROVE  PathRead(length, n)
  <2>1. ASSUME NEW i \in 0..(n - 1)
        PROVE  i * WordLen <= length
    <3>1. n \in Nat \ {0}
      BY <1>2
    <3>2. i * WordLen \in Nat /\ (n - 1) * WordLen \in Nat /\ i * WordLen <= (n - 1) * WordLen
      BY <3>1, Elements
    <3> QED BY <1>2, <3>2
  <2> QED BY <1>2, <2>1 DEF PathRead
<1> QED BY <1>1, <1>2

(* buffer_read_bip32_path.                                                 *)
LEMMA PathAnswer ==
  ASSUME NEW b \in GoodBuffers, NEW c \in Calls, c.kind = "path"
  PROVE  Answers(b, c, ReadCall(b, c))
<1> DEFINE all  == c.n * WordLen
           last == (c.n - 1) * WordLen
<1>1. /\ ReadCall(b, c) = ReadPath(b, c.n) /\ Remaining(b) = BytesLeft(b)
      /\ BytesLeft(b) \in Nat /\ c.n \in Nat /\ all < SizeMod
  BY RemainingIsUnread, CallsAssumption DEF ReadCall
<1>2. Gave(b, Refused(b))
  BY <1>1, RefusedGave
<1>3. CASE c.n \notin 1..MaxPath
  <2>1. Stream!Lengths(c, Left(b)) = {}
    BY <1>3 DEF Stream!Lengths
  <2>2. ReadCall(b, c) = Refused(b)
    BY <1>1, <1>3 DEF ReadPath, PathRead
  <2> QED BY <1>2, <2>1, <2>2, NoLength
<1>4. CASE c.n \in 1..MaxPath
  <2>1. c.n \in Nat \ {0} /\ 0 \in 0..(c.n - 1)
    BY <1>4, Sizes
  <2>2. all \in Nat /\ last \in Nat /\ all = last + WordLen
    BY <2>1, Elements
  <2>3. Stream!Lengths(c, Left(b)) = {all}
    BY <1>4 DEF Stream!Lengths
  <2>4. PathRead(BytesLeft(b), c.n) <=> last <= BytesLeft(b)
    BY <1>1, <1>4, PathReadIs
  <2>5. all \in 0..(SizeMod - 1)
    BY <1>1, <2>2, Sizes
  <2> HIDE DEF all, last
  <2>6. CASE all <= BytesLeft(b)
    <3>1. PathRead(BytesLeft(b), c.n)
      BY <1>1, <2>2, <2>4, <2>6, Sizes
    <3>2. SeekCur(b, all) = Skip(b, all)
      BY <2>5, <2>6, SeekCurSkips
    <3>3. /\ ReadCall(b, c).ok /\ ReadCall(b, c).value = BytesAt(b, all)
          /\ ReadCall(b, c).buf = Skip(b, all)
      BY <1>1, <3>1, <3>2 DEF ReadPath, all
    <3>4. all \in 0..BytesLeft(b)
      BY <1>1, <2>2, <2>6
    <3>5. Took(b, ReadCall(b, c), all)
      BY <3>3, <3>4 DEF Took
    <3> QED BY <2>2, <2>3, <2>6, <3>5, OneLength
  <2>7. CASE all > BytesLeft(b) /\ last <= BytesLeft(b)
    <3>1. SeekCur(b, all) = b
      BY <2>5, <2>7, SeekCurSkips
    <3>2. ReadCall(b, c).ok /\ ReadCall(b, c).buf = b
      BY <1>1, <2>4, <2>7, <3>1 DEF ReadPath, all
    <3>3. BytesLeft(b) \in last..(all - 1)
      BY <1>1, <2>2, <2>7
    <3> QED BY <1>4, <3>2, <3>3 DEF Answers, AcceptsCutPath, all, last
  <2>8. CASE last > BytesLeft(b)
    <3>1. ReadCall(b, c) = Refused(b)
      BY <1>1, <2>2, <2>4, <2>8 DEF ReadPath
    <3>2. all > BytesLeft(b)
      BY <1>1, <2>2, <2>8, Sizes
    <3> QED BY <1>1, <1>2, <2>2, <2>3, <3>1, <3>2, OneLength
  <2> QED BY <1>1, <2>2, <2>6, <2>7, <2>8
<1> QED BY <1>3, <1>4

(* Every call of the interface.                                            *)
LEMMA CallAnswers ==
  ASSUME NEW b \in GoodBuffers, NEW c \in Calls
  PROVE  Answers(b, c, ReadCall(b, c))
<1>1. c.kind \in Kinds
  BY CallsAssumption
<1> QED BY <1>1, BytesAnswer, ReversedAnswer, BoolAnswer, VaruintAnswer, AddressAnswer,
           CellRefAnswer, MoveAnswer, PathAnswer DEF Kinds

(* Whatever the answer, the data is the same and the position in it.       *)
LEMMA AnswerStaysInside ==
  ASSUME NEW b \in GoodBuffers, NEW c, NEW r, Answers(b, c, r)
  PROVE  /\ r.buf \in GoodBuffers /\ r.buf.ptr = b.ptr /\ r.buf.size = b.size
         /\ r.ok \in BOOLEAN
<1>1. \/ r.buf = b
      \/ \E n \in 0..BytesLeft(b) : r.buf = Skip(b, n)
  BY DEF Answers, Takes, Refuses, Gave, AcceptsCutPath
<1>2. r.buf \in GoodBuffers /\ r.buf.ptr = b.ptr /\ r.buf.size = b.size
  BY <1>1, SkipStaysGood
<1> QED BY <1>2 DEF Answers, Takes, Refuses, Gave, AcceptsCutPath

-----------------------------------------------------------------------------
(* The invariant and the refinement.                                       *)

(* IInv, said of the buffer.                                               *)
LEMMA GoodBuffer ==
  IInv <=> /\ buf \in GoodBuffers /\ result.ok \in BOOLEAN
           /\ buf.size + WordLen <= Len(buf.ptr)
<1>1. buf \in Buffers <=> /\ buf \in [ptr : Seq(Byte), size : Nat, offset : Nat]
                          /\ buf.size < SizeMod /\ buf.size + WordLen <= Len(buf.ptr)
  BY DEF Buffers
<1>2. buf \in [ptr : Seq(Byte), size : Nat, offset : Nat] =>
        /\ buf.offset \in Nat /\ buf.size \in Nat /\ Len(buf.ptr) \in Nat
        /\ buf.size + WordLen <= Len(buf.ptr) => buf.size <= Len(buf.ptr)
  BY Sizes
<1> QED BY <1>1, <1>2 DEF IInv, TypeOK, OffsetInside, GoodBuffers

LEMMA GoodBufferNext ==
  ASSUME buf' \in GoodBuffers, result'.ok \in BOOLEAN,
         buf'.size + WordLen <= Len(buf'.ptr)
  PROVE  IInv'
<1>1. buf' \in Buffers /\ buf'.offset \in 0..buf'.size
  BY DEF GoodBuffers, Buffers
<1> QED BY <1>1 DEF IInv, TypeOK, OffsetInside, Buffers

(* buffer_t as the handlers make it.                                       *)
LEMMA InitialIInv == ASSUME Init PROVE IInv
<1>1. PICK i \in Inputs : buf = Buffer(i.bytes, i.size)
  BY DEF Init
<1>2. /\ i.bytes \in Seq(Byte) /\ i.size \in Nat /\ i.size < SizeMod
      /\ i.size + WordLen <= Len(i.bytes)
  BY InputsAssumption
<1>3. buf \in GoodBuffers /\ buf.size + WordLen <= Len(buf.ptr)
  BY <1>1, <1>2, Sizes DEF Buffer, GoodBuffers
<1>4. result.ok = FALSE
  BY DEF Init
<1> QED BY <1>3, <1>4, GoodBuffer

(* buffer_read_...                                                         *)
LEMMA ReadKeepsIInv ==
  ASSUME IInv, NEW c \in Calls, Read(c)
  PROVE  IInv' /\ buf'.ptr = buf.ptr /\ buf'.size = buf.size
<1> DEFINE r == ReadCall(buf, c)
<1>1. buf \in GoodBuffers
  BY GoodBuffer
<1>2. Answers(buf, c, r)
  BY <1>1, CallAnswers
<1>3. r.buf \in GoodBuffers /\ r.buf.ptr = buf.ptr /\ r.buf.size = buf.size /\ r.ok \in BOOLEAN
  BY <1>1, <1>2, AnswerStaysInside
<1>4. buf' = r.buf /\ result'.ok = r.ok
  BY DEF Read
<1>5. buf.size + WordLen <= Len(buf.ptr)
  BY GoodBuffer
<1>6. /\ buf' \in GoodBuffers /\ result'.ok \in BOOLEAN
      /\ buf'.size + WordLen <= Len(buf'.ptr)
  BY <1>3, <1>4, <1>5
<1>7. IInv'
  BY <1>6, GoodBufferNext
<1> QED BY <1>3, <1>4, <1>7

(* buffer_seek_...                                                         *)
LEMMA SeekKeepsIInv ==
  ASSUME IInv, NEW n \in Seeks, Seek(n)
  PROVE  IInv' /\ buf'.ptr = buf.ptr /\ buf'.size = buf.size
<1>1. buf \in GoodBuffers /\ n \in 0..(SizeMod - 1)
  BY GoodBuffer, InputsAssumption
<1>2. buf' \in {SeekSet(buf, n), SeekCur(buf, n), SeekEnd(buf, n)} /\ result' = result
  BY DEF Seek
<1>3. buf' \in GoodBuffers /\ buf'.ptr = buf.ptr /\ buf'.size = buf.size
  BY <1>1, <1>2, SeekStaysInside
<1>4. result.ok \in BOOLEAN /\ buf.size + WordLen <= Len(buf.ptr)
  BY GoodBuffer
<1>5. /\ buf' \in GoodBuffers /\ result'.ok \in BOOLEAN
      /\ buf'.size + WordLen <= Len(buf'.ptr)
  BY <1>2, <1>3, <1>4
<1>6. IInv'
  BY <1>5, GoodBufferNext
<1> QED BY <1>3, <1>6

(* Every step.                                                             *)
LEMMA NextIInv == ASSUME IInv, [Next]_vars PROVE IInv'
<1>1. CASE Next
  BY <1>1, ReadKeepsIInv, SeekKeepsIInv DEF Next
<1>2. CASE UNCHANGED vars
  BY <1>2 DEF vars, IInv, TypeOK, OffsetInside, Buffers
<1> QED BY <1>1, <1>2

(* The types and the position, inductively.                                *)
THEOREM BufferInvariant == Spec => []IInv
<1> QED BY InitialIInv, NextIInv, PTL DEF Spec

(* buffer.c: whatever is read and sought, also after a call that failed    *)
(* and with sums that wrap around, the position stays in the data.         *)
THEOREM OffsetStaysInside == Spec => []OffsetInside
<1>1. IInv => OffsetInside
  BY DEF IInv
<1> QED BY <1>1, BufferInvariant, PTL

-----------------------------------------------------------------------------
(* A value that is read is taken from the stream.                          *)
LEMMA StreamTake ==
  ASSUME NEW c \in Calls, Read(c), buf \in GoodBuffers, Takes(buf, c, ReadCall(buf, c))
  PROVE  Stream!Take(c)
<1> DEFINE r == ReadCall(buf, c)
<1>1. PICK n \in 0..BytesLeft(buf) :
        /\ Stream!BeginsWith(c, Left(buf), n)
        /\ r.ok = TRUE /\ r.value = Stream!Ordered(c, BytesAt(buf, n)) /\ r.buf = Skip(buf, n)
  BY DEF Takes
<1>2. result' = [ok |-> r.ok, value |-> r.value] /\ buf' = Skip(buf, n)
  BY <1>1 DEF Read
<1>3. BytesAt(buf, n) = Stream!First(Left(buf), n)
  BY FirstOfLeft
<1>4. Left(Skip(buf, n)) = Stream!Rest(Left(buf), n)
  BY RestOfLeft
<1>5. n \in 0..Len(Left(buf))
  BY LeftIsUnread
<1>6. result' = [ok |-> TRUE, value |-> Stream!Ordered(c, Stream!First(Left(buf), n))]
  BY <1>1, <1>2, <1>3
<1>7. SubSeq(buf'.ptr, buf'.offset + 1, buf'.size) = Stream!Rest(Left(buf), n)
  BY <1>2, <1>4 DEF Left
<1>8. Left(buf) = SubSeq(buf.ptr, buf.offset + 1, buf.size)
  BY DEF Left
<1> QED BY <1>1, <1>5, <1>6, <1>7, <1>8 DEF Stream!Take

(* A refusal brings no byte back.                                          *)
LEMMA StreamRefuse ==
  ASSUME NEW c \in Calls, Read(c), buf \in GoodBuffers, Refuses(buf, c, ReadCall(buf, c))
  PROVE  Stream!Refuse(c)
<1> DEFINE r == ReadCall(buf, c)
<1>1. PICK n \in 0..BytesLeft(buf) : r.buf = Skip(buf, n)
  BY DEF Refuses, Gave
<1>2. result' = [ok |-> FALSE, value |-> <<>>] /\ buf' = Skip(buf, n)
  BY <1>1 DEF Read, Refuses, Gave
<1>3. Left(Skip(buf, n)) = Stream!Rest(Left(buf), n)
  BY RestOfLeft
<1>4. Len(Left(buf)) = BytesLeft(buf)
  BY LeftIsUnread
<1>5. SubSeq(buf'.ptr, buf'.offset + 1, buf'.size) = Stream!Rest(Left(buf), n)
  BY <1>2, <1>3 DEF Left
<1>6. \A k \in 0..Len(Left(buf)) : ~Stream!BeginsWith(c, Left(buf), k)
  BY <1>4 DEF Refuses
<1>7. Left(buf) = SubSeq(buf.ptr, buf.offset + 1, buf.size)
  BY DEF Left
<1> QED BY <1>2, <1>4, <1>5, <1>6, <1>7 DEF Stream!Refuse

(* The path that is cut is the exception of ByteStream.                    *)
LEMMA StreamAcceptCutPath ==
  ASSUME NEW c \in Calls, Read(c), buf \in GoodBuffers, AcceptsCutPath(buf, c, ReadCall(buf, c))
  PROVE  Stream!AcceptCutPath(c)
<1>1. result'.ok /\ buf' = buf
  BY DEF Read, AcceptsCutPath
<1>2. Len(SubSeq(buf.ptr, buf.offset + 1, buf.size)) = BytesLeft(buf)
  BY LeftIsUnread DEF Left
<1> QED BY <1>1, <1>2 DEF AcceptsCutPath, Stream!AcceptCutPath

(* A seek goes to what is left behind that many bytes of the data.         *)
LEMMA LeftOfData ==
  ASSUME NEW b \in GoodBuffers
  PROVE  Left(b) = Stream!Rest(SubSeq(b.ptr, 1, b.size), b.offset)
         /\ b.offset \in 0..Len(SubSeq(b.ptr, 1, b.size))
<1> DEFINE start == [b EXCEPT !.offset = 0]
<1>1. /\ b \in [ptr : Seq(Byte), size : Nat, offset : Nat] /\ b.offset <= b.size
      /\ b.size \in Nat /\ b.offset \in Nat
  BY DEF GoodBuffers
<1>2. /\ start \in GoodBuffers /\ start.ptr = b.ptr /\ start.size = b.size /\ start.offset = 0
      /\ BytesLeft(start) = b.size
  BY <1>1 DEF GoodBuffers, BytesLeft
<1>3. 0 + b.offset = b.offset /\ 0 + 1 = 1 /\ b.offset \in 0..b.size
  BY <1>1
<1>4. Skip(start, b.offset) = b
  BY <1>1, <1>3 DEF Skip
<1>5. Left(start) = SubSeq(b.ptr, 1, b.size)
  BY <1>2, <1>3 DEF Left
<1> HIDE DEF start
<1>6. Left(b) = Stream!Rest(Left(start), b.offset)
  BY <1>2, <1>3, <1>4, RestOfLeft
<1>7. Len(Left(start)) = b.size
  BY <1>2, LeftIsUnread
<1> QED BY <1>3, <1>5, <1>6, <1>7

(* Every step of the reader is one of the stream, or none.                 *)
LEMMA StreamStep == ASSUME IInv, [Next]_vars PROVE [Stream!Next]_Stream!vars
<1>0. buf \in GoodBuffers
  BY GoodBuffer
<1>1. ASSUME NEW c \in Calls, Read(c)
      PROVE  Stream!Read
  <2>1. Stream!Take(c) \/ Stream!Refuse(c) \/ Stream!AcceptCutPath(c)
    BY <1>0, <1>1, CallAnswers, StreamTake, StreamRefuse, StreamAcceptCutPath DEF Answers
  <2>2. call' = c /\ buf'.ptr = buf.ptr /\ buf'.size = buf.size
    BY <1>1, ReadKeepsIInv DEF Read
  <2> QED BY <2>1, <2>2 DEF Stream!Read
<1>2. ASSUME NEW n \in Seeks, Seek(n)
      PROVE  Stream!Seek
  <2>1. IInv' /\ buf'.ptr = buf.ptr /\ buf'.size = buf.size
    BY <1>2, SeekKeepsIInv
  <2>2. n \in 0..(SizeMod - 1) /\ buf' \in {SeekSet(buf, n), SeekCur(buf, n), SeekEnd(buf, n)}
    BY <1>2, InputsAssumption DEF Seek
  <2>3. PICK b \in GoodBuffers : buf' = b
    BY <1>0, <2>2, SeekStaysInside
  <2>4. /\ Left(b) = Stream!Rest(SubSeq(b.ptr, 1, b.size), b.offset)
        /\ b.offset \in 0..Len(SubSeq(b.ptr, 1, b.size))
    BY LeftOfData
  <2>5. b.ptr = buf.ptr /\ b.size = buf.size
    BY <2>1, <2>3
  <2>6. \E k \in 0..Len(SubSeq(buf.ptr, 1, buf.size)) :
          SubSeq(b.ptr, b.offset + 1, b.size) = Stream!Rest(SubSeq(buf.ptr, 1, buf.size), k)
    BY <2>4, <2>5 DEF Left
  <2>7. call' = call /\ result' = result
    BY <1>2 DEF Seek
  <2> QED BY <2>1, <2>3, <2>6, <2>7 DEF Stream!Seek
<1>3. CASE UNCHANGED vars
  BY <1>3 DEF vars, Stream!vars
<1> QED BY <1>1, <1>2, <1>3 DEF Next, Stream!Next

(* A new buffer has all of its data left.                                  *)
LEMMA StreamStart == ASSUME Init PROVE Stream!Init
<1>1. PICK i \in Inputs : buf = Buffer(i.bytes, i.size)
  BY DEF Init
<1>2. buf.offset + 1 = 1
  BY <1>1 DEF Buffer
<1> QED BY <1>2 DEF Init, Stream!Init

(* buffer.h: a buffer_t behaves as the sequence of the bytes that are left *)
(* of its data, but for a path whose last element is cut.                  *)
THEOREM BufferImplementsStream == Spec => ReadsTheStream
<1>1. Init => Stream!Init
  BY StreamStart
<1>2. IInv /\ [Next]_vars => [Stream!Next]_Stream!vars
  BY StreamStep
<1> QED BY <1>1, <1>2, BufferInvariant, PTL DEF Spec, ReadsTheStream, Stream!Spec
=============================================================================
