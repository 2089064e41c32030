--------------------------- MODULE TxParserProofs ---------------------------
(***************************************************************************)
(* The fields TxParser accepts are the bytes of the request, and the order *)
(* it has hashed is what they say, read back from its bits and references  *)
(* by a reader that knows the schemas alone, for any widths, limits and    *)
(* requests.                                                               *)
(***************************************************************************)
EXTENDS TxParserProperties, CellProofs

-----------------------------------------------------------------------------
(* The layouts: their names are those that WholeRequestRead lists, in its  *)
(* order, and no two fields have the same.                                 *)
LEMMA TxNames ==
  /\ Len(TxLayout) = 15 /\ Len(TxFieldsInOrder) = 15
  /\ \A i \in 1..15 : TxLayout[i].name = TxFieldsInOrder[i]
<1>1. Len(TxLayout) = 15 /\ Len(TxFieldsInOrder) = 15
  BY DEF TxLayout, TxFieldsInOrder
<1>2. \A i \in 1..15 : i \in {1, 2, 3, 4, 5, 6, 7, 8, 9, 10, 11, 12, 13, 14, 15}
  OBVIOUS
<1>3. /\ TxLayout[1].name = TxFieldsInOrder[1] /\ TxLayout[2].name = TxFieldsInOrder[2]
      /\ TxLayout[3].name = TxFieldsInOrder[3] /\ TxLayout[4].name = TxFieldsInOrder[4]
      /\ TxLayout[5].name = TxFieldsInOrder[5] /\ TxLayout[6].name = TxFieldsInOrder[6]
      /\ TxLayout[7].name = TxFieldsInOrder[7] /\ TxLayout[8].name = TxFieldsInOrder[8]
      /\ TxLayout[9].name = TxFieldsInOrder[9] /\ TxLayout[10].name = TxFieldsInOrder[10]
      /\ TxLayout[11].name = TxFieldsInOrder[11] /\ TxLayout[12].name = TxFieldsInOrder[12]
      /\ TxLayout[13].name = TxFieldsInOrder[13] /\ TxLayout[14].name = TxFieldsInOrder[14]
      /\ TxLayout[15].name = TxFieldsInOrder[15]
  BY DEF TxLayout, TxFieldsInOrder, Field
<1> QED BY <1>1, <1>2, <1>3

(* The same for the hints of a transfer.                                   *)
LEMMA JettonNames ==
  /\ Len(JettonLayout) = 10 /\ Len(JettonFieldsInOrder) = 10
  /\ \A i \in 1..10 : JettonLayout[i].name = JettonFieldsInOrder[i]
<1>1. Len(JettonLayout) = 10 /\ Len(JettonFieldsInOrder) = 10
  BY DEF JettonLayout, JettonFieldsInOrder
<1>2. \A i \in 1..10 : i \in {1, 2, 3, 4, 5, 6, 7, 8, 9, 10}
  OBVIOUS
<1>3. /\ JettonLayout[1].name = JettonFieldsInOrder[1] /\ JettonLayout[2].name = JettonFieldsInOrder[2]
      /\ JettonLayout[3].name = JettonFieldsInOrder[3] /\ JettonLayout[4].name = JettonFieldsInOrder[4]
      /\ JettonLayout[5].name = JettonFieldsInOrder[5] /\ JettonLayout[6].name = JettonFieldsInOrder[6]
      /\ JettonLayout[7].name = JettonFieldsInOrder[7] /\ JettonLayout[8].name = JettonFieldsInOrder[8]
      /\ JettonLayout[9].name = JettonFieldsInOrder[9] /\ JettonLayout[10].name = JettonFieldsInOrder[10]
  BY DEF JettonLayout, JettonFieldsInOrder, Field
<1> QED BY <1>1, <1>2, <1>3

(* Every field is read by a call that takes bytes or refuses.             *)
LEMMA TxKinds ==
  \A i \in 1..15 : TxLayout[i].kind \in FieldKinds /\ TxLayout[i].n \in Nat
<1>1. \A i \in 1..15 : i \in {1, 2, 3, 4, 5, 6, 7, 8, 9, 10, 11, 12, 13, 14, 15}
  OBVIOUS
<1>2. /\ TxLayout[1].kind \in FieldKinds /\ TxLayout[2].kind \in FieldKinds
      /\ TxLayout[3].kind \in FieldKinds /\ TxLayout[4].kind \in FieldKinds
      /\ TxLayout[5].kind \in FieldKinds /\ TxLayout[6].kind \in FieldKinds
      /\ TxLayout[7].kind \in FieldKinds /\ TxLayout[8].kind \in FieldKinds
      /\ TxLayout[9].kind \in FieldKinds /\ TxLayout[10].kind \in FieldKinds
      /\ TxLayout[11].kind \in FieldKinds /\ TxLayout[12].kind \in FieldKinds
      /\ TxLayout[13].kind \in FieldKinds /\ TxLayout[14].kind \in FieldKinds
      /\ TxLayout[15].kind \in FieldKinds
  BY DEF TxLayout, Field, FieldKinds
<1>3. /\ TxLayout[1].n \in Nat /\ TxLayout[2].n \in Nat /\ TxLayout[3].n \in Nat
      /\ TxLayout[4].n \in Nat /\ TxLayout[5].n \in Nat /\ TxLayout[6].n \in Nat
      /\ TxLayout[7].n \in Nat /\ TxLayout[8].n \in Nat /\ TxLayout[9].n \in Nat
      /\ TxLayout[10].n \in Nat /\ TxLayout[11].n \in Nat /\ TxLayout[12].n \in Nat
      /\ TxLayout[13].n \in Nat /\ TxLayout[14].n \in Nat /\ TxLayout[15].n \in Nat
  BY RequestsAssumption, WidthsAssumption DEF TxLayout, Field
<1> QED BY <1>1, <1>2, <1>3

(* And their kinds and lengths.                                            *)
LEMMA JettonKinds ==
  \A i \in 1..10 : JettonLayout[i].kind \in FieldKinds /\ JettonLayout[i].n \in Nat
<1>1. \A i \in 1..10 : i \in {1, 2, 3, 4, 5, 6, 7, 8, 9, 10}
  OBVIOUS
<1>2. /\ JettonLayout[1].kind \in FieldKinds /\ JettonLayout[2].kind \in FieldKinds
      /\ JettonLayout[3].kind \in FieldKinds /\ JettonLayout[4].kind \in FieldKinds
      /\ JettonLayout[5].kind \in FieldKinds /\ JettonLayout[6].kind \in FieldKinds
      /\ JettonLayout[7].kind \in FieldKinds /\ JettonLayout[8].kind \in FieldKinds
      /\ JettonLayout[9].kind \in FieldKinds /\ JettonLayout[10].kind \in FieldKinds
  BY DEF JettonLayout, Field, FieldKinds
<1>3. /\ JettonLayout[1].n \in Nat /\ JettonLayout[2].n \in Nat /\ JettonLayout[3].n \in Nat
      /\ JettonLayout[4].n \in Nat /\ JettonLayout[5].n \in Nat /\ JettonLayout[6].n \in Nat
      /\ JettonLayout[7].n \in Nat /\ JettonLayout[8].n \in Nat /\ JettonLayout[9].n \in Nat
      /\ JettonLayout[10].n \in Nat
  BY RequestsAssumption, WidthsAssumption DEF JettonLayout, Field
<1> QED BY <1>1, <1>2, <1>3

(* The layout of the request is one that FieldReads is about.              *)
LEMMA TxReadable == Readable(TxLayout, 15)
<1>1. \A i, j \in 1..15 : TxFieldsInOrder[i] = TxFieldsInOrder[j] => i = j
  BY DEF TxFieldsInOrder
<1> QED BY <1>1, TxNames DEF Readable

(* The layout of the hints too.                                            *)
LEMMA JettonReadable == Readable(JettonLayout, 10)
<1>1. \A i, j \in 1..10 : JettonFieldsInOrder[i] = JettonFieldsInOrder[j] => i = j
  BY DEF JettonFieldsInOrder
<1> QED BY <1>1, JettonNames DEF Readable

-----------------------------------------------------------------------------
(* Reading one field more.                                                 *)
PartsOf(layout, n, values) == [i \in 1..n |-> values[layout[i].name]]

WrittenAs(layout, n, values, parts) ==
  Written([i \in 1..n |-> layout[i].name], values) = FlattenSeq(parts)

(* Written puts the fields of the layout one after the other.              *)
LEMMA WrittenIs ==
  ASSUME NEW layout, NEW n \in Nat, NEW values
  PROVE  WrittenAs(layout, n, values, PartsOf(layout, n, values))
<1> DEFINE names == [i \in 1..n |-> layout[i].name]
<1>1. Len(names) = n /\ \A i \in 1..n : names[i] = layout[i].name
  OBVIOUS
<1>2. [i \in 1..Len(names) |-> values[names[i]]] = PartsOf(layout, n, values)
  <2> HIDE DEF names
  <2> QED BY <1>1 DEF PartsOf
<1>3. Written(names, values) = FlattenSeq([i \in 1..Len(names) |-> values[names[i]]])
  BY DEF Written
<1> QED BY <1>2, <1>3, Zenon DEF WrittenAs

(* One field more is written behind those before.                          *)
LEMMA OneFieldMore ==
  ASSUME NEW layout, NEW m, Readable(layout, m), NEW n \in 0..(m - 1),
         NEW values \in Values(layout), NEW v \in Seq(Byte),
         NEW more, more = Stored(values, layout[n + 1].name, v),
         NEW b, NEW moved, ReadSoFar(layout, n, values, b),
         SubSeq(moved.ptr, 1, moved.offset) = SubSeq(b.ptr, 1, b.offset) \o v
  PROVE  more \in Values(layout) /\ ReadSoFar(layout, n + 1, more, moved)
<1> DEFINE parts == PartsOf(layout, n, values)
           others == PartsOf(layout, n + 1, more)
<1>1. /\ m \in Nat /\ n \in Nat /\ n + 1 \in Nat /\ Len(layout) = m /\ n + 1 \in 1..m
      /\ \A i \in 1..n : i \in 1..m /\ i # n + 1
      /\ \A i \in (n + 2)..m : i \in 1..m /\ i # n + 1 /\ i \in (n + 1)..m
      /\ (n + 1) + 1 = n + 2
  BY DEF Readable
<1>2. \A i \in 1..m : i # n + 1 => layout[i].name # layout[n + 1].name
  BY <1>1 DEF Readable
<1>3. more[layout[n + 1].name] = v
  BY <1>1, ValueType DEF Stored
<1>4. \A i \in 1..m : i # n + 1 => more[layout[i].name] = values[layout[i].name]
  BY <1>1, <1>2, ValueType DEF Stored
<1>5. more \in Values(layout)
  BY DEF Values, Stored
<1>6. parts \in [1..n -> Seq(Byte)]
  BY <1>1, ValueType DEF PartsOf
<1>7. others \in [1..(n + 1) -> Seq(Byte)]
  <2>1. \A i \in 1..(n + 1) : i \in 1..m
    BY <1>1
  <2> QED BY <1>5, <2>1, ValueType DEF PartsOf
<1>8. others[n + 1] = v
  BY <1>1, <1>3 DEF PartsOf
<1>9. Begins(others, parts, n)
  BY <1>1, <1>4 DEF Begins, PartsOf
<1>10. WrittenAs(layout, n, values, parts) /\ WrittenAs(layout, n + 1, more, others)
  BY <1>1, WrittenIs
<1> HIDE DEF parts, others
<1>11. FlattenSeq(others) = FlattenSeq(parts) \o others[n + 1]
  <2>1. n \in Nat
    OBVIOUS
  <2> QED BY <1>6, <1>7, <1>9, <2>1, FlattenOneMore, Zenon
<1>12. Written([i \in 1..(n + 1) |-> layout[i].name], more) = SubSeq(moved.ptr, 1, moved.offset)
  BY <1>8, <1>10, <1>11 DEF ReadSoFar, WrittenAs
<1>13. \A i \in (n + 2)..m : more[layout[i].name] = <<>>
  BY <1>1, <1>4 DEF ReadSoFar
<1> QED BY <1>1, <1>5, <1>12, <1>13 DEF ReadSoFar

(* A field is read: it is the bytes the buffer has moved past.             *)
LEMMA FieldTaken ==
  ASSUME NEW layout, NEW m, Readable(layout, m), NEW n \in 0..(m - 1),
         NEW values \in Values(layout), NEW b \in GoodBuffers, NEW k \in 0..BytesLeft(b),
         NEW more, more = Stored(values, layout[n + 1].name, BytesAt(b, k)),
         ReadSoFar(layout, n, values, b)
  PROVE  more \in Values(layout) /\ ReadSoFar(layout, n + 1, more, Skip(b, k))
<1>1. BytesAt(b, k) \in Seq(Byte)
  BY BytesAtType
<1>2. SubSeq(Skip(b, k).ptr, 1, Skip(b, k).offset) = SubSeq(b.ptr, 1, b.offset) \o BytesAt(b, k)
  BY DataOfSkip
<1> DEFINE v == BytesAt(b, k)
           moved == Skip(b, k)
<1>3. /\ v \in Seq(Byte) /\ more = Stored(values, layout[n + 1].name, v)
      /\ SubSeq(moved.ptr, 1, moved.offset) = SubSeq(b.ptr, 1, b.offset) \o v
  BY <1>1, <1>2
<1> HIDE DEF v, moved
<1>4. more \in Values(layout) /\ ReadSoFar(layout, n + 1, more, moved)
  BY <1>3, OneFieldMore
<1> QED BY <1>4 DEF moved

(* A field is missing: it stays empty.                                     *)
LEMMA FieldMissing ==
  ASSUME NEW layout, NEW m, Readable(layout, m), NEW n \in 0..(m - 1),
         NEW values \in Values(layout), NEW b \in GoodBuffers,
         ReadSoFar(layout, n, values, b)
  PROVE  ReadSoFar(layout, n + 1, values, b)
<1> DEFINE more == Stored(values, layout[n + 1].name, <<>>)
<1>1. n + 1 \in (n + 1)..Len(layout) /\ n + 1 \in 1..m
  BY DEF Readable
<1>2. values[layout[n + 1].name] = <<>>
  BY <1>1 DEF ReadSoFar
<1>3. more = values
  BY <1>2 DEF Values, Stored
<1>4. SubSeq(b.ptr, 1, b.offset) \in Seq(Byte)
  <2>1. b.ptr \in Seq(Byte) /\ b.offset \in Nat /\ b.offset <= Len(b.ptr)
    BY DEF GoodBuffers
  <2>2. \A i \in 1..b.offset : b.ptr[i] \in Byte
    BY <2>1
  <2> QED BY <2>1, <2>2, SubSeqProperties
<1>5. SubSeq(b.ptr, 1, b.offset) = SubSeq(b.ptr, 1, b.offset) \o <<>>
  BY <1>4
<1>6. <<>> \in Seq(Byte)
  OBVIOUS
<1>7. ReadSoFar(layout, n + 1, more, b)
  <2>1. more = Stored(values, layout[n + 1].name, <<>>)
    OBVIOUS
  <2> HIDE DEF more
  <2> QED BY <1>5, <1>6, <2>1, OneFieldMore
<1> QED BY <1>3, <1>7

(* Nothing has been read.                                                  *)
LEMMA NothingRead ==
  ASSUME NEW layout, NEW m, Readable(layout, m), NEW b, b.offset = 0
  PROVE  /\ NoValues(layout) \in Values(layout)
         /\ ReadSoFar(layout, 0, NoValues(layout), b)
<1> DEFINE values == NoValues(layout)
<1>1. \A i \in 1..m : values[layout[i].name] = <<>>
  BY DEF Readable, NoValues
<1>2. values \in Values(layout)
  <2>1. <<>> \in Seq(Byte)
    OBVIOUS
  <2> QED BY <2>1 DEF NoValues, Values
<1> HIDE DEF values
<1>3. PartsOf(layout, 0, values) = <<>>
  BY DEF PartsOf
<1>4. WrittenAs(layout, 0, values, PartsOf(layout, 0, values)) /\ 0 \in Nat
  BY WrittenIs
<1>5. Written([i \in 1..0 |-> layout[i].name], values) = <<>>
  BY <1>3, <1>4, FlattenNothing DEF WrittenAs
<1>6. SubSeq(b.ptr, 1, b.offset) = <<>>
  BY SubSeqEmpty
<1>7. 0 + 1 = 1 /\ Len(layout) = m /\ m \in Nat
  BY DEF Readable
<1>8. ReadSoFar(layout, 0, values, b)
  BY <1>1, <1>5, <1>6, <1>7 DEF ReadSoFar
<1> QED BY <1>2, <1>8 DEF values

-----------------------------------------------------------------------------
(* The fields other definitions name.                                      *)
LEMMA NamedFields ==
  ASSUME NEW values \in Values(TxLayout)
  PROVE  /\ values.has_payload \in Seq(Byte) /\ "has_payload" \in DOMAIN values
         /\ values.has_hints \in Seq(Byte) /\ "has_hints" \in DOMAIN values
         /\ values.hints_type \in Seq(Byte) /\ "hints_type" \in DOMAIN values
         /\ values.hints_len \in Seq(Byte) /\ "hints_len" \in DOMAIN values
         /\ values.hints_data \in Seq(Byte) /\ "hints_data" \in DOMAIN values
<1>1. \A i \in 1..15 : /\ values[TxLayout[i].name] \in Seq(Byte)
                       /\ TxLayout[i].name \in DOMAIN values
  BY TxReadable, ValueType
<1>2. /\ 10 \in 1..15 /\ 12 \in 1..15 /\ 13 \in 1..15 /\ 14 \in 1..15 /\ 15 \in 1..15
      /\ TxFieldsInOrder[10] = "has_payload" /\ TxFieldsInOrder[12] = "has_hints"
      /\ TxFieldsInOrder[13] = "hints_type" /\ TxFieldsInOrder[14] = "hints_len"
      /\ TxFieldsInOrder[15] = "hints_data"
  BY DEF TxFieldsInOrder
<1>3. /\ TxLayout[10].name = "has_payload" /\ TxLayout[12].name = "has_hints"
      /\ TxLayout[13].name = "hints_type" /\ TxLayout[14].name = "hints_len"
      /\ TxLayout[15].name = "hints_data"
  BY <1>2, TxNames
<1> QED BY <1>1, <1>2, <1>3

(* Every request begins unread.                                            *)
LEMMA InitRequestInv == ASSUME Init PROVE RequestInv
<1>1. PICK r \in Requests : buf = Buffer(r.bytes, r.size)
  BY DEF Init
<1>2. /\ pc = "start" /\ at = 1 /\ hbuf = Buffer(<<>>, 0) /\ status = "none"
      /\ tx = NoValues(TxLayout) /\ jetton = NoValues(JettonLayout)
  BY DEF Init
<1>3. /\ r.bytes \in Seq(Byte) /\ r.size \in Nat /\ r.size <= Len(r.bytes) /\ r.size < SizeMod
  BY RequestsAssumption
<1>4. InData(buf) /\ buf.offset = 0
  BY <1>1, <1>3 DEF InData, Buffer
<1>5. InData(hbuf)
  BY <1>2, Sizes DEF InData, Buffer
<1>6. /\ tx \in Values(TxLayout) /\ ReadSoFar(TxLayout, 0, tx, buf)
      /\ jetton \in Values(JettonLayout)
  BY <1>2, <1>4, NothingRead, TxReadable, JettonReadable
<1>7. tx.hints_data = <<>> /\ tx.has_hints = <<>>
  BY <1>2, <1>6, NamedFields DEF NoValues
<1>8. TypeOK
  BY <1>2, <1>4, <1>5, <1>6, <1>7, Sizes DEF TypeOK
<1>9. ~Is(tx.has_hints)
  BY <1>7 DEF Is
<1>10. at \in 1..(Len(TxLayout) + 1) /\ at - 1 = 0
  BY <1>2, TxNames
<1> QED BY <1>2, <1>6, <1>8, <1>9, <1>10 DEF RequestInv, Accepted

(* A refusal leaves nothing to be said.                                    *)
LEMMA FailRequestInv ==
  ASSUME RequestInv, NEW error, error # "PARSING_OK", Fail(error), InData(buf)'
  PROVE  RequestInv'
<1>1. /\ pc' = "done" /\ status' = error
      /\ tx' = tx /\ jetton' = jetton /\ hbuf' = hbuf /\ at' = at
  BY DEF Fail
<1>2. TypeOK'
  BY <1>1 DEF RequestInv, TypeOK, InData
<1>3. ~Accepted'
  BY <1>1 DEF Accepted
<1>4. (Is(tx.has_hints) => Is(tx.has_payload))'
  BY <1>1 DEF RequestInv
<1> QED BY <1>1, <1>2, <1>3, <1>4 DEF RequestInv

(* No error is the status of success.                                      *)
LEMMA ErrorIsNotOk == ASSUME NEW name PROVE ErrorOf(name) # "PARSING_OK"
BY DEF ErrorOf

(* transaction_deserialize: the length.                                    *)
LEMMA CheckLengthRequestInv == ASSUME RequestInv, CheckLength PROVE RequestInv'
<1>1. CASE buf.size > MaxLen
  <2>1. Fail("WRONG_LENGTH_ERROR") /\ InData(buf)'
    BY <1>1 DEF CheckLength, RequestInv, TypeOK, InData
  <2> QED BY <2>1, FailRequestInv
<1>2. CASE ~(buf.size > MaxLen)
  <2>1. /\ pc = "start" /\ pc' = "tx"
        /\ UNCHANGED <<at, tx, hbuf, jetton, state, order, status, buf>>
    BY <1>2 DEF CheckLength
  <2>2. TypeOK'
    BY <2>1 DEF RequestInv, TypeOK, InData
  <2> QED BY <2>1, <2>2 DEF RequestInv, Accepted, ReadSoFar
<1> QED BY <1>1, <1>2

(* A field of the request is passed over.                                  *)
LEMMA MissingRequestInv ==
  ASSUME RequestInv, ReadTxField, Missing(TxLayout[at], tx)
  PROVE  RequestInv'
<1>1. /\ pc = "tx" /\ at <= Len(TxLayout) /\ at' = at + 1
      /\ UNCHANGED <<pc, buf, tx, hbuf, jetton, status>>
  BY DEF ReadTxField
<1>2. /\ TypeOK /\ tx \in Values(TxLayout) /\ buf \in GoodBuffers
      /\ at \in 1..16 /\ ReadSoFar(TxLayout, at - 1, tx, buf)
      /\ jetton = NoValues(JettonLayout) /\ (Is(tx.has_hints) => Is(tx.has_payload))
  BY <1>1, TxNames, DataIsGood DEF RequestInv, TypeOK
<1>3. at - 1 \in 0..(15 - 1) /\ (at - 1) + 1 = at'- 1 /\ at' \in 1..16
  BY <1>1, <1>2, TxNames
<1>4. ReadSoFar(TxLayout, (at - 1) + 1, tx, buf)
  BY <1>2, <1>3, TxReadable, FieldMissing
<1>5. ReadSoFar(TxLayout, at' - 1, tx', buf')
  BY <1>1, <1>3, <1>4
<1>6. TypeOK'
  BY <1>1, <1>2 DEF TypeOK, InData
<1> QED BY <1>1, <1>2, <1>3, <1>5, <1>6, TxNames DEF RequestInv, Accepted

(* A field of the request is read.                                         *)
LEMMA TakenRequestInv ==
  ASSUME RequestInv, ReadTxField, ~Missing(TxLayout[at], tx)
  PROVE  RequestInv'
<1> DEFINE f == TxLayout[at]
           n == IF f.name = "hints_data" THEN BytesNumber(tx.hints_len) ELSE f.n
           c == [kind |-> f.kind, n |-> n]
           r == ReadCall(buf, c)
<1>1. /\ pc = "tx" /\ at <= Len(TxLayout) /\ buf' = r.buf
      /\ IF r.ok /\ Allowed(f.name, r.value)
         THEN /\ at' = at + 1 /\ tx' = [tx EXCEPT ![f.name] = r.value]
              /\ UNCHANGED <<pc, hbuf, jetton, state, order, status>>
         ELSE Fail(ErrorOf(f.name))
  BY DEF ReadTxField
<1>2. /\ TypeOK /\ tx \in Values(TxLayout) /\ buf \in GoodBuffers /\ InData(hbuf)
      /\ jetton \in Values(JettonLayout) /\ Len(tx.hints_data) < SizeMod
      /\ at \in 1..16 /\ ReadSoFar(TxLayout, at - 1, tx, buf)
      /\ jetton = NoValues(JettonLayout) /\ (Is(tx.has_hints) => Is(tx.has_payload))
  BY <1>1, TxNames, DataIsGood DEF RequestInv, TypeOK
<1>3. at \in 1..15 /\ at - 1 \in 0..(15 - 1) /\ (at - 1) + 1 = at
  BY <1>1, <1>2, TxNames
<1>4. c.kind \in FieldKinds /\ c.n \in Nat
  <2>1. f.kind \in FieldKinds /\ f.n \in Nat
    BY <1>3, TxKinds
  <2>2. BytesNumber(tx.hints_len) \in Nat
    BY <1>2, NamedFields, NumberType
  <2> HIDE DEF f
  <2>3. n \in Nat
    BY <2>1, <2>2
  <2> HIDE DEF n
  <2> QED BY <2>1, <2>3
<1> HIDE DEF c
<1>5. Reads(buf, r)
  BY <1>2, <1>4, FieldReads
<1> HIDE DEF r
<1>6. CASE ~(r.ok /\ Allowed(f.name, r.value))
  <2>1. Fail(ErrorOf(f.name)) /\ buf' \in GoodBuffers
    BY <1>1, <1>2, <1>5, <1>6, ReadStaysInData
  <2>2. InData(buf)'
    BY <2>1, DataIsGood DEF InData, GoodBuffers
  <2> QED BY <2>1, <2>2, FailRequestInv, ErrorIsNotOk
<1>7. CASE r.ok /\ Allowed(f.name, r.value)
  <2>1. PICK k \in 0..BytesLeft(buf) : Took(buf, r, k)
    BY <1>2, <1>5, <1>7, ReadStaysInData
  <2>2. /\ pc' = "tx" /\ at' = at + 1 /\ hbuf' = hbuf /\ jetton' = jetton /\ status' = status
        /\ buf' = Skip(buf, k)
        /\ tx' = [tx EXCEPT ![TxLayout[(at - 1) + 1].name] = BytesAt(buf, k)]
    BY <1>1, <1>3, <1>7, <2>1 DEF Took
  <2>3. tx' \in Values(TxLayout) /\ ReadSoFar(TxLayout, (at - 1) + 1, tx', Skip(buf, k))
    <3> DEFINE read == at - 1
               more == Stored(tx, TxLayout[read + 1].name, BytesAt(buf, k))
    <3>1. more \in Values(TxLayout) /\ ReadSoFar(TxLayout, read + 1, more, Skip(buf, k))
      <4>1. read \in 0..(15 - 1) /\ ReadSoFar(TxLayout, read, tx, buf)
        BY <1>2, <1>3
      <4>2. more = Stored(tx, TxLayout[read + 1].name, BytesAt(buf, k))
        OBVIOUS
      <4> HIDE DEF read, more
      <4> QED BY <1>2, <4>1, <4>2, TxReadable, FieldTaken
    <3>2. tx' = more
      BY <2>2 DEF Stored
    <3> HIDE DEF more
    <3> QED BY <3>1, <3>2
  <2>4. at' - 1 = (at - 1) + 1 /\ at' \in 1..16
    BY <1>3, <2>2
  <2>5. ReadSoFar(TxLayout, at' - 1, tx', buf')
    BY <2>2, <2>3, <2>4
  <2>6. /\ f.name = TxFieldsInOrder[at] /\ tx' = [tx EXCEPT ![f.name] = r.value]
        /\ f.name \in DOMAIN tx
    BY <1>1, <1>2, <1>3, <1>7, TxNames, TxReadable, ValueType
  <2>7. Len(tx'.hints_data) < SizeMod
    <3>1. Len(r.value) < SizeMod
      <4>1. Len(BytesAt(buf, k)) = k /\ BytesLeft(buf) \in Nat /\ BytesLeft(buf) < SizeMod
        BY <1>2, BytesAtType, RemainingIsUnread
      <4> QED BY <2>1, <4>1, Sizes DEF Took
    <3> HIDE DEF f
    <3> QED BY <1>2, <2>6, <3>1, NamedFields
  <2>8. InData(buf') /\ InData(hbuf')
    BY <1>2, <2>2, SkipStaysGood, DataIsGood
  <2>9. TypeOK'
    BY <1>2, <2>2, <2>3, <2>7, <2>8 DEF TypeOK, InData
  <2>10. Is(tx'.has_hints) => Is(tx'.has_payload)
    <3>1. CASE f.name = "has_hints"
      <4>1. tx'.has_hints = r.value /\ tx'.has_payload = tx.has_payload
        BY <1>2, <2>6, <3>1, NamedFields
      <4>2. ~Is(r.value) \/ Is(tx.has_payload)
        <5> HIDE DEF f
        <5> QED BY <1>7, <3>1 DEF Allowed
      <4> QED BY <4>1, <4>2 DEF Is
    <3>2. CASE f.name = "has_payload"
      <4>1. at = 10
        <5>1. TxFieldsInOrder[at] = TxFieldsInOrder[10]
          BY <2>6, <3>2 DEF TxFieldsInOrder
        <5> QED BY <1>3, <5>1 DEF TxFieldsInOrder
      <4>2. 12 \in ((at - 1) + 1)..Len(TxLayout)
        BY <4>1, TxNames
      <4>3. tx[TxLayout[12].name] = <<>>
        BY <1>2, <4>2 DEF ReadSoFar
      <4>4. TxLayout[12].name = "has_hints"
        BY TxNames DEF TxFieldsInOrder
      <4>5. tx'.has_hints = tx.has_hints /\ tx.has_hints = <<>>
        BY <1>2, <2>6, <3>2, <4>3, <4>4, NamedFields
      <4>6. ~Is(<<>>)
        BY DEF Is
      <4>7. tx'.has_hints = <<>>
        BY <4>5
      <4> QED BY <4>6, <4>7, Zenon DEF Is
    <3>3. CASE f.name # "has_hints" /\ f.name # "has_payload"
      <4>1. tx'.has_hints = tx.has_hints /\ tx'.has_payload = tx.has_payload
        <5> HIDE DEF f
        <5> QED BY <1>2, <2>6, <3>3, NamedFields
      <4> QED BY <1>2, <4>1
    <3> QED BY <3>1, <3>2, <3>3
  <2> QED BY <1>2, <2>2, <2>4, <2>5, <2>9, <2>10, TxNames DEF RequestInv, Accepted
<1> QED BY <1>6, <1>7

(* transaction_deserialize: a field of the request.                        *)
LEMMA ReadTxFieldRequestInv == ASSUME RequestInv, ReadTxField PROVE RequestInv'
BY MissingRequestInv, TakenRequestInv

-----------------------------------------------------------------------------
(* process_hints begins when all fields have been read.                    *)
LEMMA ProcessHintsFacts ==
  ASSUME RequestInv, ProcessHints
  PROVE  /\ pc = "tx" /\ TypeOK /\ ReadSoFar(TxLayout, Len(TxLayout), tx, buf)
         /\ jetton = NoValues(JettonLayout) /\ (Is(tx.has_hints) => Is(tx.has_payload))
         /\ UNCHANGED <<buf, tx>>
<1>1. pc = "tx" /\ at > Len(TxLayout) /\ UNCHANGED <<buf, tx>>
  BY DEF ProcessHints
<1>2. at \in 1..(Len(TxLayout) + 1) /\ ReadSoFar(TxLayout, at - 1, tx, buf)
  BY <1>1 DEF RequestInv
<1>3. at - 1 = Len(TxLayout)
  BY <1>1, <1>2, TxNames
<1> QED BY <1>1, <1>2, <1>3 DEF RequestInv

(* What is read does not change with the rest of the state.                *)
LEMMA SameTypes ==
  ASSUME TypeOK, UNCHANGED <<buf, tx, hbuf, jetton>>,
         pc' \in {"start", "tx", "jetton", "compare", "end", "hash", "done"}
  PROVE  TypeOK'
BY DEF TypeOK, InData

(* The hints were no transfer, or there were none.                         *)
LEMMA NoTransferRequestInv ==
  ASSUME RequestInv, ProcessHints, UNCHANGED <<hbuf, jetton>>,
         pc' \in {"compare", "end"}, ~Transfer
  PROVE  RequestInv'
<1>1. /\ TypeOK /\ ReadSoFar(TxLayout, Len(TxLayout), tx, buf)
      /\ (Is(tx.has_hints) => Is(tx.has_payload)) /\ UNCHANGED <<buf, tx>>
  BY ProcessHintsFacts
<1>2. TypeOK'
  BY <1>1, SameTypes
<1>3. ~Transfer'
  BY <1>1 DEF Transfer
<1>4. ReadSoFar(TxLayout, Len(TxLayout), tx', buf')
  BY <1>1
<1> QED BY <1>1, <1>2, <1>3, <1>4 DEF RequestInv, Accepted

(* Nothing is read when there is no payload.                               *)
LEMMA NoPayloadRequestInv == ASSUME RequestInv, NoPayload PROVE RequestInv'
<1>1. ~Is(tx.has_payload) /\ ProcessHints /\ pc' = "end" /\ UNCHANGED <<hbuf, jetton>>
  BY DEF NoPayload, state
<1>2. ~Transfer
  BY <1>1, ProcessHintsFacts DEF Transfer
<1> QED BY <1>1, <1>2, NoTransferRequestInv

(* Nor when there are no hints.                                            *)
LEMMA PayloadWithoutHintsRequestInv ==
  ASSUME RequestInv, PayloadWithoutHints PROVE RequestInv'
<1>1. Fail("HINTS_PARSING_ERROR") /\ ProcessHints
  BY DEF PayloadWithoutHints
<1>2. InData(buf)'
  BY <1>1, ProcessHintsFacts DEF TypeOK, InData
<1> QED BY <1>1, <1>2, FailRequestInv

(* The ids of the hints.                                                   *)
LEMMA HintsAreNot ==
  ASSUME NEW T, HintsOfType(T), 1 \notin T
  PROVE  ProcessHints /\ ~Transfer
BY DEF HintsOfType, Transfer, TRANSACTION_TRANSFER_JETTON

(* The text of a comment is taken as a whole.                              *)
LEMMA CommentRequestInv == ASSUME RequestInv, Comment PROVE RequestInv'
<1>1. ProcessHints /\ ~Transfer
  BY HintsAreNot DEF Comment, TRANSACTION_COMMENT
<1>2. CASE Len(tx.hints_data) > MaxMemo \/ ~IsAscii(tx.hints_data)
  <2>1. Fail("HINTS_PARSING_ERROR")
    BY <1>2 DEF Comment
  <2>2. InData(buf)'
    BY <1>1, ProcessHintsFacts DEF TypeOK, InData
  <2> QED BY <2>1, <2>2, FailRequestInv
<1>3. CASE ~(Len(tx.hints_data) > MaxMemo \/ ~IsAscii(tx.hints_data))
  <2>1. pc' = "compare" /\ UNCHANGED <<hbuf, jetton>>
    BY <1>3 DEF Comment
  <2> QED BY <1>1, <2>1, NoTransferRequestInv
<1> QED BY <1>2, <1>3

(* Hints of an unknown type are not read.                                  *)
LEMMA UnknownHintsRequestInv == ASSUME RequestInv, UnknownHints PROVE RequestInv'
<1>1. ProcessHints /\ ~Transfer
  BY HintsAreNot DEF UnknownHints, TRANSACTION_COMMENT, TRANSACTION_TRANSFER_JETTON
<1>2. pc' = "compare" /\ UNCHANGED <<hbuf, jetton>>
  BY DEF UnknownHints
<1> QED BY <1>1, <1>2, NoTransferRequestInv

(* The fields of a transfer are read from the hints.                       *)
LEMMA StartJettonRequestInv == ASSUME RequestInv, StartJetton PROVE RequestInv'
<1>1. /\ ProcessHints /\ pc' = "jetton" /\ at' = 1 /\ jetton' = jetton
      /\ hbuf' = Buffer(tx.hints_data, Len(tx.hints_data))
  BY DEF StartJetton, HintsOfType
<1>2. /\ TypeOK /\ ReadSoFar(TxLayout, Len(TxLayout), tx, buf)
      /\ jetton = NoValues(JettonLayout)
      /\ (Is(tx.has_hints) => Is(tx.has_payload)) /\ UNCHANGED <<buf, tx>>
  BY <1>1, ProcessHintsFacts
<1>3. tx.hints_data \in Seq(Byte) /\ Len(tx.hints_data) < SizeMod
  BY <1>2, NamedFields DEF TypeOK
<1>4. /\ InData(hbuf') /\ hbuf'.offset = 0
      /\ hbuf'.ptr = tx'.hints_data /\ hbuf'.size = Len(tx'.hints_data)
  BY <1>1, <1>2, <1>3 DEF InData, Buffer
<1>5. TypeOK'
  BY <1>1, <1>2, <1>4 DEF TypeOK, InData
<1>6. ReadSoFar(JettonLayout, 0, jetton', hbuf')
  BY <1>1, <1>2, <1>4, JettonReadable, NothingRead
<1>7. ReadSoFar(TxLayout, Len(TxLayout), tx', buf')
  BY <1>2
<1>8. at' \in 1..(Len(JettonLayout) + 1) /\ at' - 1 = 0
  BY <1>1, JettonNames
<1> QED BY <1>1, <1>2, <1>4, <1>5, <1>6, <1>7, <1>8 DEF RequestInv, Accepted

(* Within a transfer.                                                      *)
LEMMA JettonFacts ==
  ASSUME RequestInv, pc = "jetton"
  PROVE  /\ TypeOK /\ jetton \in Values(JettonLayout) /\ hbuf \in GoodBuffers
         /\ InData(buf) /\ InData(hbuf)
         /\ at \in 1..11 /\ ReadSoFar(JettonLayout, at - 1, jetton, hbuf)
         /\ hbuf.ptr = tx.hints_data /\ hbuf.size = Len(tx.hints_data)
         /\ ReadSoFar(TxLayout, Len(TxLayout), tx, buf)
         /\ (Is(tx.has_hints) => Is(tx.has_payload))
BY JettonNames, DataIsGood DEF RequestInv, TypeOK

(* A field of the transfer has been passed over or read.                   *)
LEMMA JettonFieldRequestInv ==
  ASSUME RequestInv, pc = "jetton", pc' = "jetton", at' \in 1..11, UNCHANGED <<buf, tx>>,
         jetton' \in Values(JettonLayout), hbuf' \in GoodBuffers,
         hbuf'.ptr = hbuf.ptr, hbuf'.size = hbuf.size,
         ReadSoFar(JettonLayout, at' - 1, jetton', hbuf')
  PROVE  RequestInv'
<1>1. TypeOK'
  BY JettonFacts, DataIsGood DEF TypeOK, InData
<1>2. ReadSoFar(TxLayout, Len(TxLayout), tx', buf')
  BY JettonFacts
<1>3. hbuf'.ptr = tx'.hints_data /\ hbuf'.size = Len(tx'.hints_data)
  BY JettonFacts
<1>4. (Is(tx.has_hints) => Is(tx.has_payload))'
  BY JettonFacts
<1> QED BY <1>1, <1>2, <1>3, <1>4, JettonNames DEF RequestInv, Accepted

(* A field of the hints is read from hints_data alone.                     *)
LEMMA ReadJettonFieldRequestInv == ASSUME RequestInv, ReadJettonField PROVE RequestInv'
<1> DEFINE f == JettonLayout[at]
           c == [kind |-> f.kind, n |-> f.n]
           r == ReadCall(hbuf, c)
<1>1. /\ pc = "jetton" /\ at <= Len(JettonLayout) /\ UNCHANGED buf
      /\ IF Missing(f, jetton)
         THEN at' = at + 1 /\ UNCHANGED <<pc, hbuf, tx, jetton>>
         ELSE IF ~r.ok THEN Fail("HINTS_PARSING_ERROR")
         ELSE /\ hbuf' = r.buf /\ jetton' = [jetton EXCEPT ![f.name] = r.value]
              /\ at' = at + 1 /\ UNCHANGED <<pc, tx>>
  BY DEF ReadJettonField
<1>2. /\ TypeOK /\ jetton \in Values(JettonLayout) /\ hbuf \in GoodBuffers
      /\ at \in 1..11 /\ ReadSoFar(JettonLayout, at - 1, jetton, hbuf)
  BY <1>1, JettonFacts
<1>3. at \in 1..10 /\ at - 1 \in 0..(10 - 1) /\ (at - 1) + 1 = at /\ (at + 1) - 1 = at
      /\ at + 1 \in 1..11
  BY <1>1, <1>2, JettonNames
<1>4. c.kind \in FieldKinds /\ c.n \in Nat
  <2>1. f.kind \in FieldKinds /\ f.n \in Nat
    BY <1>3, JettonKinds
  <2> HIDE DEF f
  <2> QED BY <2>1
<1> HIDE DEF c
<1>5. Reads(hbuf, r)
  BY <1>2, <1>4, FieldReads
<1> HIDE DEF r
<1>6. CASE Missing(f, jetton)
  <2>1. ReadSoFar(JettonLayout, (at - 1) + 1, jetton, hbuf)
    BY <1>2, <1>3, JettonReadable, FieldMissing
  <2>2. at' = at + 1 /\ UNCHANGED <<pc, hbuf, tx, jetton>>
    BY <1>1, <1>6
  <2>3. ReadSoFar(JettonLayout, at' - 1, jetton', hbuf')
    BY <1>3, <2>1, <2>2
  <2> HIDE DEF f
  <2> QED BY <1>1, <1>2, <1>3, <2>2, <2>3, JettonFieldRequestInv
<1>7. CASE ~Missing(f, jetton) /\ ~r.ok
  <2>1. Fail("HINTS_PARSING_ERROR") /\ InData(buf)'
    BY <1>1, <1>7, JettonFacts DEF InData
  <2> QED BY <2>1, FailRequestInv
<1>8. CASE ~Missing(f, jetton) /\ r.ok
  <2>1. PICK k \in 0..BytesLeft(hbuf) : Took(hbuf, r, k)
    BY <1>2, <1>5, <1>8, ReadStaysInData
  <2>2. /\ at' = at + 1 /\ UNCHANGED <<pc, tx>> /\ hbuf' = Skip(hbuf, k)
        /\ jetton' = Stored(jetton, JettonLayout[(at - 1) + 1].name, BytesAt(hbuf, k))
    BY <1>1, <1>3, <1>8, <2>1 DEF Took, Stored
  <2>3. /\ jetton' \in Values(JettonLayout)
        /\ ReadSoFar(JettonLayout, (at - 1) + 1, jetton', Skip(hbuf, k))
    <3> DEFINE read == at - 1
    <3>1. read \in 0..(10 - 1) /\ ReadSoFar(JettonLayout, read, jetton, hbuf)
          /\ jetton' = Stored(jetton, JettonLayout[read + 1].name, BytesAt(hbuf, k))
      BY <1>2, <1>3, <2>2
    <3> HIDE DEF read
    <3>2. /\ jetton' \in Values(JettonLayout)
          /\ ReadSoFar(JettonLayout, read + 1, jetton', Skip(hbuf, k))
      BY <1>2, <3>1, JettonReadable, FieldTaken
    <3> QED BY <3>2 DEF read
  <2>4. ReadSoFar(JettonLayout, at' - 1, jetton', hbuf')
    BY <1>3, <2>2, <2>3
  <2>5. hbuf' \in GoodBuffers /\ hbuf'.ptr = hbuf.ptr /\ hbuf'.size = hbuf.size
    BY <1>2, <2>2, SkipStaysGood
  <2> HIDE DEF f
  <2> QED BY <1>1, <1>3, <2>2, <2>3, <2>4, <2>5, JettonFieldRequestInv
<1> QED BY <1>6, <1>7, <1>8

(* Its end is the end of the hints.                                        *)
LEMMA EndJettonRequestInv == ASSUME RequestInv, EndJetton PROVE RequestInv'
<1>1. pc = "jetton" /\ at > Len(JettonLayout) /\ UNCHANGED buf
  BY DEF EndJetton
<1>2. CASE hbuf.offset # hbuf.size
  <2>1. Fail("HINTS_PARSING_ERROR") /\ InData(buf)'
    BY <1>1, <1>2, JettonFacts DEF EndJetton, InData
  <2> QED BY <2>1, FailRequestInv
<1>3. CASE hbuf.offset = hbuf.size
  <2>1. pc' = "compare" /\ UNCHANGED <<tx, hbuf, jetton>>
    BY <1>3 DEF EndJetton
  <2>2. at - 1 = Len(JettonLayout)
    BY <1>1, JettonFacts, JettonNames
  <2>3. AllOf(JettonLayout, jetton', hbuf')
    BY <1>1, <1>3, <2>1, <2>2, JettonFacts DEF AllOf
  <2>4. TypeOK'
    BY <1>1, <2>1, JettonFacts, SameTypes
  <2>5. ReadSoFar(TxLayout, Len(TxLayout), tx', buf')
    BY <1>1, <2>1, JettonFacts
  <2>6. /\ hbuf'.ptr = tx'.hints_data /\ hbuf'.size = Len(tx'.hints_data)
        /\ (Is(tx.has_hints) => Is(tx.has_payload))'
    BY <1>1, <2>1, JettonFacts
  <2> QED BY <2>1, <2>3, <2>4, <2>5, <2>6 DEF RequestInv, Accepted
<1> QED BY <1>2, <1>3

-----------------------------------------------------------------------------
(* Once the hints are processed, nothing is read any more.                 *)
LEMMA KeptRequestInv ==
  ASSUME RequestInv, UNCHANGED <<buf, tx, hbuf, jetton>>,
         pc \in {"compare", "end", "hash"}, pc' \in {"end", "hash", "done"},
         pc' = "hash" \/ Accepted' => buf.offset = buf.size
  PROVE  RequestInv'
<1>1. TypeOK'
  BY SameTypes DEF RequestInv
<1>2. ReadSoFar(TxLayout, Len(TxLayout), tx', buf')
  BY DEF RequestInv
<1>3. Transfer' <=> Transfer
  BY DEF Transfer
<1>4. Transfer => /\ AllOf(JettonLayout, jetton', hbuf')
                  /\ hbuf'.ptr = tx'.hints_data /\ hbuf'.size = Len(tx'.hints_data)
  BY DEF RequestInv
<1>5. (Is(tx.has_hints) => Is(tx.has_payload))'
  BY DEF RequestInv
<1> QED BY <1>1, <1>2, <1>3, <1>4, <1>5 DEF RequestInv

(* Comparing the payload reads nothing.                                    *)
LEMMA ComparePayloadRequestInv == ASSUME RequestInv, ComparePayload PROVE RequestInv'
<1>1. pc = "compare" /\ UNCHANGED buf
  BY DEF ComparePayload
<1>2. CASE Fail("HINTS_PARSING_ERROR")
  <2>1. InData(buf)'
    BY <1>1 DEF RequestInv, TypeOK, InData
  <2> QED BY <1>2, <2>1, FailRequestInv
<1>3. CASE pc' = "end" /\ UNCHANGED <<tx, hbuf, jetton>>
  <2>1. ~Accepted'
    BY <1>3 DEF Accepted
  <2> QED BY <1>1, <1>3, <2>1, KeptRequestInv
<1> QED BY <1>2, <1>3 DEF ComparePayload

(* transaction_deserialize: nothing is left.                               *)
LEMMA CheckEndRequestInv == ASSUME RequestInv, CheckEnd PROVE RequestInv'
<1>1. pc = "end" /\ UNCHANGED buf
  BY DEF CheckEnd
<1>2. CASE buf.offset # buf.size
  <2>1. Fail("WRONG_LENGTH_ERROR") /\ InData(buf)'
    BY <1>1, <1>2 DEF CheckEnd, RequestInv, TypeOK, InData
  <2> QED BY <2>1, FailRequestInv
<1>3. CASE buf.offset = buf.size
  <2>1. pc' = "hash" /\ UNCHANGED <<tx, hbuf, jetton>>
    BY <1>3 DEF CheckEnd
  <2> QED BY <1>1, <1>3, <2>1, KeptRequestInv
<1> QED BY <1>2, <1>3

(* Nor does hashing.                                                       *)
LEMMA HashTxRequestInv == ASSUME RequestInv, HashTx PROVE RequestInv'
<1>1. pc = "hash" /\ pc' = "done" /\ UNCHANGED <<buf, tx, hbuf, jetton>>
  BY DEF HashTx
<1>2. buf.offset = buf.size
  BY <1>1 DEF RequestInv
<1> QED BY <1>1, <1>2, KeptRequestInv

(* Every step.                                                             *)
LEMMA NextRequestInv == ASSUME RequestInv, [Next]_vars PROVE RequestInv'
<1>1. CASE Next
  BY <1>1, CheckLengthRequestInv, ReadTxFieldRequestInv, CheckEndRequestInv,
     NoPayloadRequestInv, PayloadWithoutHintsRequestInv, CommentRequestInv,
     StartJettonRequestInv, UnknownHintsRequestInv, ReadJettonFieldRequestInv,
     EndJettonRequestInv, ComparePayloadRequestInv, HashTxRequestInv DEF Next
<1>2. CASE UNCHANGED vars
  BY <1>2 DEF vars, RequestInv, TypeOK, InData, Accepted, Transfer, AllOf, ReadSoFar
<1> QED BY <1>1, <1>2

-----------------------------------------------------------------------------
(* deserialize.c: where the parser is, what it has stored is what it has   *)
(* moved past.                                                             *)
THEOREM RequestInvariant == Spec => []RequestInv
<1> QED BY InitRequestInv, NextRequestInv, PTL DEF Spec

(* The names that WholeRequestRead lists for those of the layout.          *)
SameNames(names, layout, m) ==
  /\ m \in Nat /\ Len(names) = m /\ Len(layout) = m
  /\ \A i \in 1..m : layout[i].name = names[i]

(* What was stored by the names of the layout, by those of the properties. *)
LEMMA WrittenNames ==
  ASSUME NEW names, NEW layout, NEW m, SameNames(names, layout, m), NEW values, NEW b,
         ReadSoFar(layout, Len(layout), values, b)
  PROVE  Written(names, values) = SubSeq(b.ptr, 1, b.offset)
<1> DEFINE others == [i \in 1..m |-> layout[i].name]
<1>1. m \in Nat /\ Len(names) = m /\ Len(layout) = m
  BY DEF SameNames
<1>2. Len(others) = m /\ \A i \in 1..m : others[i] = names[i]
  BY <1>1 DEF SameNames
<1>3. Written(others, values) = SubSeq(b.ptr, 1, b.offset)
  BY <1>1 DEF ReadSoFar
<1> HIDE DEF others
<1>4. [i \in 1..Len(names) |-> values[names[i]]] = [i \in 1..Len(others) |-> values[others[i]]]
  BY <1>1, <1>2
<1>5. Written(names, values) = Written(others, values)
  BY <1>4, Zenon DEF Written
<1> QED BY <1>3, <1>5

(* deserialize.c: of an accepted request, and of the hints of a transfer,  *)
(* no byte is skipped, read twice or left unread, for any widths and       *)
(* limits and whatever is sent: what is shown and signed is all there was. *)
THEOREM AllIsRead == Spec => []WholeRequestRead
<1>1. ASSUME RequestInv, Accepted
      PROVE  Written(TxFieldsInOrder, tx) = SubSeq(buf.ptr, 1, buf.size)
  <2>1. ReadSoFar(TxLayout, Len(TxLayout), tx, buf) /\ buf.offset = buf.size
    BY <1>1 DEF RequestInv
  <2>2. SameNames(TxFieldsInOrder, TxLayout, 15)
    BY TxNames DEF SameNames
  <2> QED BY <2>1, <2>2, WrittenNames
<1>2. ASSUME RequestInv, Accepted, Transfer
      PROVE  Written(JettonFieldsInOrder, jetton) = tx.hints_data
  <2>1. /\ ReadSoFar(JettonLayout, Len(JettonLayout), jetton, hbuf) /\ hbuf.offset = hbuf.size
        /\ hbuf.ptr = tx.hints_data /\ hbuf.size = Len(tx.hints_data)
    BY <1>2 DEF RequestInv, AllOf
  <2>2. SameNames(JettonFieldsInOrder, JettonLayout, 10)
    BY JettonNames DEF SameNames
  <2>3. Written(JettonFieldsInOrder, jetton) = SubSeq(hbuf.ptr, 1, hbuf.offset)
    BY <2>1, <2>2, WrittenNames
  <2>4. tx.hints_data \in Seq(Byte)
    BY <1>2, NamedFields DEF RequestInv, TypeOK
  <2>5. SubSeq(tx.hints_data, 1, Len(tx.hints_data)) = tx.hints_data
    BY <2>4, SubSeqFull
  <2> QED BY <2>1, <2>3, <2>5
<1>3. RequestInv => WholeRequestRead
  BY <1>1, <1>2 DEF WholeRequestRead, Transfer, TRANSACTION_TRANSFER_JETTON
<1> QED BY <1>3, RequestInvariant, PTL

-----------------------------------------------------------------------------
(* The flag of a field comes before it.                                    *)
Optional(i) == TxLayout[i].when # ""

FlagOf(i) ==
  Optional(i) => \E k \in 1..(i - 1) : TxLayout[i].when = TxLayout[k].name

(* Each flag of the layout is a field in front of what it is about.        *)
LEMMA TxFlags == \A i \in 1..15 : FlagOf(i)
<1>1. \A i \in 1..15 : i \in {1, 2, 3, 4, 5, 6, 7, 8, 9, 10, 11, 12, 13, 14, 15}
  OBVIOUS
<1>2. /\ TxLayout[1].when = "" /\ TxLayout[2].when = "" /\ TxLayout[3].when = ""
      /\ TxLayout[4].when = "" /\ TxLayout[5].when = "" /\ TxLayout[6].when = ""
      /\ TxLayout[7].when = "" /\ TxLayout[8].when = "" /\ TxLayout[10].when = ""
      /\ TxLayout[12].when = ""
  BY DEF TxLayout, Field
<1>3. /\ TxLayout[9].when = TxLayout[8].name /\ TxLayout[11].when = TxLayout[10].name
      /\ TxLayout[13].when = TxLayout[12].name /\ TxLayout[14].when = TxLayout[12].name
      /\ TxLayout[15].when = TxLayout[12].name
  BY DEF TxLayout, Field
<1>4. /\ 8 \in 1..(9 - 1) /\ 10 \in 1..(11 - 1) /\ 12 \in 1..(13 - 1)
      /\ 12 \in 1..(14 - 1) /\ 12 \in 1..(15 - 1)
  OBVIOUS
<1>5. FlagOf(9) /\ FlagOf(11) /\ FlagOf(13) /\ FlagOf(14) /\ FlagOf(15)
  BY <1>3, <1>4, Zenon DEF FlagOf
<1>6. /\ FlagOf(1) /\ FlagOf(2) /\ FlagOf(3) /\ FlagOf(4) /\ FlagOf(5) /\ FlagOf(6)
      /\ FlagOf(7) /\ FlagOf(8) /\ FlagOf(10) /\ FlagOf(12)
  BY <1>2, Zenon DEF FlagOf, Optional
<1> QED BY <1>1, <1>5, <1>6

(* So the flag of a field has been read when the field is.                 *)
LEMMA FlagBefore ==
  ASSUME NEW i \in 1..15, NEW j \in i..15, Optional(i)
  PROVE  TxLayout[i].when # TxLayout[j].name
<1>1. PICK k \in 1..(i - 1) : TxLayout[i].when = TxLayout[k].name
  BY TxFlags DEF FlagOf
<1>2. k \in 1..15 /\ j \in 1..15 /\ k # j
  OBVIOUS
<1> QED BY <1>1, <1>2, TxReadable DEF Readable

(* No field is read at the start.                                          *)
LEMMA InitFieldsInForm == ASSUME Init PROVE FieldsInForm
BY DEF Init, FieldsInForm, Accepted

(* A refused request has no fields to speak of.                            *)
LEMMA FailFieldsInForm ==
  ASSUME NEW error, error # "PARSING_OK", Fail(error) PROVE FieldsInForm'
BY DEF Fail, FieldsInForm, Accepted

(* A field that is read has its form, and the earlier ones keep theirs.    *)
LEMMA ReadTxFieldFieldsInForm ==
  ASSUME RequestInv, FieldsInForm, ReadTxField PROVE FieldsInForm'
<1> DEFINE f == TxLayout[at]
           n == IF f.name = "hints_data" THEN BytesNumber(tx.hints_len) ELSE f.n
           r == ReadCall(buf, [kind |-> f.kind, n |-> n])
<1>1. /\ pc = "tx" /\ at \in 1..15
      /\ buf \in GoodBuffers /\ tx \in Values(TxLayout)
  BY TxNames, DataIsGood DEF ReadTxField, RequestInv, TypeOK
<1>2. CASE Missing(f, tx)
  <2>1. at' = at + 1 /\ UNCHANGED <<pc, tx, status>> /\ Missing(f, tx)
    BY <1>2 DEF ReadTxField
  <2> HIDE DEF f
  <2>2. ASSUME NEW i \in 1..15, ~Missing(TxLayout[i], tx), TxLayout[i].name # "hints_data",
               i < at'
        PROVE  InForm(TxLayout[i], tx[TxLayout[i].name])
    <3>1. i < at
      <4>1. i # at
        BY <2>1, <2>2 DEF f
      <4>2. at' = at + 1
        BY <2>1
      <4>3. at \in Int /\ i \in Int
        BY <1>1
      <4>4. i < at + 1
        BY <2>2, <4>2, Zenon
      <4> QED BY <4>1, <4>3, <4>4
    <3> QED BY <1>1, <2>2, <3>1, TxNames DEF FieldsInForm
  <2> QED BY <1>1, <2>1, <2>2, TxNames DEF FieldsInForm
<1>3. CASE ~Missing(f, tx) /\ ~(r.ok /\ Allowed(f.name, r.value))
  <2>1. Fail(ErrorOf(f.name))
    BY <1>3 DEF ReadTxField
  <2> QED BY <2>1, FailFieldsInForm, ErrorIsNotOk
<1>4. CASE ~Missing(f, tx) /\ r.ok /\ Allowed(f.name, r.value)
  <2>1. at' = at + 1 /\ tx' = [tx EXCEPT ![f.name] = r.value] /\ UNCHANGED <<pc, status>>
    BY <1>4 DEF ReadTxField
  <2>2. f.name # "hints_data" => InForm(f, r.value)
    <3>1. SUFFICES ASSUME f.name # "hints_data"
                   PROVE  InForm(f, r.value)
      OBVIOUS
    <3>2. n = f.n
      BY <3>1
    <3>3. f.kind \in FieldKinds /\ f.n \in Nat
      BY <1>1, TxKinds
    <3> HIDE DEF f, n
    <3> QED BY <1>1, <1>4, <3>2, <3>3, ReadInForm
  <2>3. f.name \in DOMAIN tx
    BY <1>1, TxReadable, ValueType
  <2> HIDE DEF r
  <2>4. ASSUME NEW i \in 1..15, ~Missing(TxLayout[i], tx'), TxLayout[i].name # "hints_data",
               i < at'
        PROVE  InForm(TxLayout[i], tx'[TxLayout[i].name])
    <3>1. CASE i = at
      <4>1. tx'[f.name] = r.value
        <5> HIDE DEF f
        <5> QED BY <2>1, <2>3
      <4> QED BY <2>2, <2>4, <3>1, <4>1
    <3>2. CASE i # at
      <4>1. i < at
        <5>1. at' = at + 1 /\ at \in Int /\ i \in Int
          BY <1>1, <2>1
        <5>2. i < at + 1
          BY <2>4, <5>1
        <5> QED BY <3>2, <5>1, <5>2
      <4>2. TxLayout[i].name # f.name
        BY <1>1, <3>2, TxReadable DEF Readable
      <4>3. tx'[TxLayout[i].name] = tx[TxLayout[i].name]
        <5> HIDE DEF f
        <5> QED BY <1>1, <2>1, <4>2, TxReadable, ValueType
      <4>4. InForm(TxLayout[i], tx[TxLayout[i].name])
        <5>1. at \in i..15
          BY <1>1, <4>1
        <5>2. Optional(i) => TxLayout[i].when # f.name
          BY <5>1, FlagBefore
        <5>3. Optional(i) => tx'[TxLayout[i].when] = tx[TxLayout[i].when]
          <6> HIDE DEF f
          <6>1. SUFFICES ASSUME Optional(i)
                         PROVE  tx'[TxLayout[i].when] = tx[TxLayout[i].when]
            OBVIOUS
          <6>2. PICK k \in 1..(i - 1) : TxLayout[i].when = TxLayout[k].name
            BY <6>1, TxFlags DEF FlagOf
          <6>3. k \in 1..15
            OBVIOUS
          <6>4. TxLayout[i].when \in DOMAIN tx
            BY <1>1, <6>2, <6>3, TxReadable, ValueType
          <6> QED BY <2>1, <5>2, <6>1, <6>4
        <5>4. ~Missing(TxLayout[i], tx)
          BY <2>4, <5>3, Zenon DEF Missing, Optional
        <5> QED BY <1>1, <2>4, <4>1, <5>4, TxNames DEF FieldsInForm
      <4> QED BY <4>3, <4>4, Zenon
    <3> QED BY <3>1, <3>2
  <2> QED BY <1>1, <2>1, <2>4, TxNames DEF FieldsInForm
<1> QED BY <1>2, <1>3, <1>4

(* The other steps read no field, or fail.                                 *)
LEMMA KeptFieldsInForm ==
  ASSUME RequestInv, FieldsInForm, tx' = tx, pc' # "tx", pc \notin {"start", "done"},
         pc = "tx" => at > Len(TxLayout)
  PROVE  FieldsInForm'
<1>1. Len(TxLayout) = 15
  BY TxNames
<1>2. pc = "tx" => at \in Nat /\ \A i \in 1..Len(TxLayout) : i < at
  BY <1>1 DEF RequestInv
<1>3. \A i \in 1..15 :
        ~Missing(TxLayout[i], tx) /\ TxLayout[i].name # "hints_data"
          => InForm(TxLayout[i], tx[TxLayout[i].name])
  BY <1>1, <1>2 DEF FieldsInForm
<1> QED BY <1>1, <1>3 DEF FieldsInForm

(* One case per action.                                                    *)
LEMMA NextFieldsInForm ==
  ASSUME RequestInv, FieldsInForm, [Next]_vars PROVE FieldsInForm'
<1>1. CASE CheckLength
  <2>1. CASE buf.size > MaxLen
    <3>1. Fail("WRONG_LENGTH_ERROR")
      BY <1>1, <2>1 DEF CheckLength
    <3> QED BY <3>1, FailFieldsInForm
  <2>2. CASE ~(buf.size > MaxLen)
    <3>1. pc' = "tx" /\ at' = 1
      BY <1>1, <2>2 DEF CheckLength, RequestInv
    <3>2. \A i \in 1..Len(TxLayout) : ~(i < 1)
      OBVIOUS
    <3> QED BY <3>1, <3>2 DEF FieldsInForm
  <2> QED BY <2>1, <2>2
<1>2. CASE ReadTxField
  BY <1>2, ReadTxFieldFieldsInForm
<1>3. CASE NoPayload \/ PayloadWithoutHints \/ Comment \/ StartJetton \/ UnknownHints
  <2>1. ProcessHints /\ tx' = tx /\ pc' # "tx"
    BY <1>3 DEF ProcessHints, NoPayload, PayloadWithoutHints, Comment, StartJetton,
                UnknownHints, HintsOfType, Fail
  <2> QED BY <2>1, KeptFieldsInForm DEF ProcessHints
<1>4. CASE ReadJettonField \/ EndJetton \/ ComparePayload \/ CheckEnd \/ HashTx
  <2>1. pc \in {"jetton", "compare", "end", "hash"} /\ tx' = tx /\ pc' # "tx"
    BY <1>4 DEF ReadJettonField, EndJetton, ComparePayload, CheckEnd, HashTx, Fail
  <2> QED BY <2>1, KeptFieldsInForm
<1>5. CASE UNCHANGED vars
  BY <1>5 DEF vars, FieldsInForm, Accepted
<1> QED BY <1>1, <1>2, <1>3, <1>4, <1>5 DEF Next

(* deserialize.c: the fields hash_tx copies have the lengths it relies on. *)
THEOREM FieldsInvariant == Spec => []FieldsInForm
<1>1. ASSUME RequestInv, FieldsInForm, [Next]_vars
      PROVE  FieldsInForm'
  BY <1>1, NextFieldsInForm
<1> QED BY <1>1, InitFieldsInForm, RequestInvariant, PTL DEF Spec

-----------------------------------------------------------------------------
(* What hash_tx takes from the request.                                    *)
GoodFields ==
  /\ tx.timeout \in Seq(Nat) /\ Len(tx.timeout) = WordLen
  /\ tx.seqno \in Seq(Nat) /\ Len(tx.seqno) = WordLen
  /\ tx.send_mode \in Seq(Nat) /\ Len(tx.send_mode) = 1
  /\ tx.to \in Seq(Nat) /\ Len(tx.to) = 1 + HashLen
  /\ tx.bounce \in {<<0>>, <<1>>}
  /\ Amount(tx.value) \in Seq(Nat) /\ Len(Amount(tx.value)) \in 0..MaxValueBytes
  /\ tx.state_init \in Seq(Nat) /\ tx.payload \in Seq(Nat)
  /\ Is(tx.has_state_init) => Len(tx.state_init) = ShortLen + HashLen
  /\ Is(tx.has_payload) => Len(tx.payload) = ShortLen + HashLen

(* The fields hash_tx takes as they are, and what the layout says of each. *)
TxKindsAre ==
  /\ TxLayout[2].kind = "BE" /\ TxLayout[2].n = WordLen /\ TxLayout[2].when = ""
  /\ TxLayout[3].kind = "BE" /\ TxLayout[3].n = WordLen /\ TxLayout[3].when = ""
  /\ TxLayout[4].kind = "varuint" /\ TxLayout[4].n = MaxValueBytes /\ TxLayout[4].when = ""
  /\ TxLayout[5].kind = "address" /\ TxLayout[5].when = ""
  /\ TxLayout[6].kind = "bool" /\ TxLayout[6].when = ""
  /\ TxLayout[7].kind = "bytes" /\ TxLayout[7].n = 1 /\ TxLayout[7].when = ""
  /\ TxLayout[9].kind = "cellref" /\ TxLayout[9].when = "has_state_init"
  /\ TxLayout[11].kind = "cellref" /\ TxLayout[11].when = "has_payload"

(* Each of them, from the layout.                                          *)
LEMMA TxLayoutSays == TxKindsAre
BY DEF TxKindsAre, TxLayout, Field

(* In an accepted request each of them has the form of its kind.           *)
LEMMA FormOf ==
  ASSUME TypeOK, FieldsInForm, Accepted, NEW i \in 1..15, NEW name,
         TxFieldsInOrder[i] = name, name # "hints_data"
  PROVE  /\ tx[name] \in Seq(Byte)
         /\ TxLayout[i].when = "" \/ Is(tx[TxLayout[i].when]) => InForm(TxLayout[i], tx[name])
<1>1. tx \in Values(TxLayout) /\ pc = "done"
  BY DEF TypeOK, Accepted
<1>2. TxLayout[i].name = name /\ i \in 1..Len(TxLayout)
  BY TxNames
<1>3. tx[TxLayout[i].name] \in Seq(Byte)
  BY <1>1, TxReadable, ValueType
<1>4. TxLayout[i].when = "" \/ Is(tx[TxLayout[i].when])
        => InForm(TxLayout[i], tx[TxLayout[i].name])
  BY <1>1, <1>2 DEF FieldsInForm, Missing
<1> QED BY <1>2, <1>3, <1>4

(* So hash_tx takes fields of the lengths it stores.                       *)
LEMMA FieldsAreGood == ASSUME TypeOK, FieldsInForm, Accepted PROVE GoodFields
<1>1. TxKindsAre
  BY TxLayoutSays
<1>2. /\ TxFieldsInOrder[2] = "seqno" /\ TxFieldsInOrder[3] = "timeout"
      /\ TxFieldsInOrder[4] = "value" /\ TxFieldsInOrder[5] = "to"
      /\ TxFieldsInOrder[6] = "bounce" /\ TxFieldsInOrder[7] = "send_mode"
      /\ TxFieldsInOrder[9] = "state_init" /\ TxFieldsInOrder[11] = "payload"
  BY DEF TxFieldsInOrder
<1>3. tx["seqno"] \in Seq(Byte) /\ InForm(TxLayout[2], tx["seqno"])
  <2>1. TxLayout[2].when = ""
    BY <1>1, Zenon DEF TxKindsAre
  <2>2. 2 \in 1..15
    OBVIOUS
  <2> QED BY <1>2, <2>1, <2>2, FormOf, Zenon
<1>4. tx["timeout"] \in Seq(Byte) /\ InForm(TxLayout[3], tx["timeout"])
  <2>1. TxLayout[3].when = ""
    BY <1>1, Zenon DEF TxKindsAre
  <2>2. 3 \in 1..15
    OBVIOUS
  <2> QED BY <1>2, <2>1, <2>2, FormOf, Zenon
<1>5. tx["value"] \in Seq(Byte) /\ InForm(TxLayout[4], tx["value"])
  <2>1. TxLayout[4].when = ""
    BY <1>1, Zenon DEF TxKindsAre
  <2>2. 4 \in 1..15
    OBVIOUS
  <2> QED BY <1>2, <2>1, <2>2, FormOf, Zenon
<1>6. tx["to"] \in Seq(Byte) /\ InForm(TxLayout[5], tx["to"])
  <2>1. TxLayout[5].when = ""
    BY <1>1, Zenon DEF TxKindsAre
  <2>2. 5 \in 1..15
    OBVIOUS
  <2> QED BY <1>2, <2>1, <2>2, FormOf, Zenon
<1>7. tx["bounce"] \in Seq(Byte) /\ InForm(TxLayout[6], tx["bounce"])
  <2>1. TxLayout[6].when = ""
    BY <1>1, Zenon DEF TxKindsAre
  <2>2. 6 \in 1..15
    OBVIOUS
  <2> QED BY <1>2, <2>1, <2>2, FormOf, Zenon
<1>8. tx["send_mode"] \in Seq(Byte) /\ InForm(TxLayout[7], tx["send_mode"])
  <2>1. TxLayout[7].when = ""
    BY <1>1, Zenon DEF TxKindsAre
  <2>2. 7 \in 1..15
    OBVIOUS
  <2> QED BY <1>2, <2>1, <2>2, FormOf, Zenon
<1>9. /\ tx["state_init"] \in Seq(Byte)
      /\ Is(tx["has_state_init"]) => Len(tx["state_init"]) = ShortLen + HashLen
  <2>1. TxLayout[9].when = "has_state_init" /\ TxLayout[9].kind = "cellref"
    BY <1>1, Zenon DEF TxKindsAre
  <2>2. 9 \in 1..15
    OBVIOUS
  <2>3. /\ tx["state_init"] \in Seq(Byte)
        /\ Is(tx["has_state_init"]) => InForm(TxLayout[9], tx["state_init"])
    BY <1>2, <2>1, <2>2, FormOf, Zenon
  <2> QED BY <2>1, <2>3 DEF InForm
<1>9a. /\ tx["payload"] \in Seq(Byte)
       /\ Is(tx["has_payload"]) => Len(tx["payload"]) = ShortLen + HashLen
  <2>1. TxLayout[11].when = "has_payload" /\ TxLayout[11].kind = "cellref"
    BY <1>1, Zenon DEF TxKindsAre
  <2>2. 11 \in 1..15
    OBVIOUS
  <2>3. /\ tx["payload"] \in Seq(Byte)
        /\ Is(tx["has_payload"]) => InForm(TxLayout[11], tx["payload"])
    BY <1>2, <2>1, <2>2, FormOf, Zenon
  <2> QED BY <2>1, <2>3 DEF InForm
<1>10. /\ tx.seqno \in Seq(Byte) /\ Len(tx.seqno) = WordLen
       /\ tx.timeout \in Seq(Byte) /\ Len(tx.timeout) = WordLen
       /\ tx.to \in Seq(Byte) /\ Len(tx.to) = 1 + HashLen
       /\ tx.bounce \in {<<0>>, <<1>>}
       /\ tx.send_mode \in Seq(Byte) /\ Len(tx.send_mode) = 1
  BY <1>1, <1>3, <1>4, <1>6, <1>7, <1>8 DEF InForm, TxKindsAre
<1>11. Amount(tx.value) \in Seq(Byte) /\ Len(Amount(tx.value)) \in 0..MaxValueBytes
  <2> DEFINE v == tx["value"]
  <2>1. v[1] \in 0..MaxValueBytes /\ Len(v) = 1 + v[1] /\ v \in Seq(Byte)
    BY <1>1, <1>5 DEF InForm, TxKindsAre
  <2> HIDE DEF v
  <2>2. v # <<>> /\ MaxValueBytes \in Nat
    BY <2>1, RequestsAssumption
  <2>3. Tail(v) \in Seq(Byte) /\ Len(Tail(v)) = Len(v) - 1
    BY <2>1, <2>2
  <2>4. Amount(v) = Tail(v)
    BY DEF Amount
  <2>5. Amount(v) \in Seq(Byte) /\ Len(Amount(v)) = v[1]
    BY <2>1, <2>3, <2>4
  <2>6. Len(Amount(v)) \in 0..MaxValueBytes
    BY <2>1, <2>5, Zenon
  <2> QED BY <2>5, <2>6 DEF v
<1> QED BY <1>9, <1>9a, <1>10, <1>11, BytesAreNumbers DEF GoodFields

(* The order is the hash of the fields, and the fields do not change.      *)
OrderHashed == Accepted => order = Representation(OrderBits, <<Message>>)

(* A request is accepted by hash_tx and by nothing else.                   *)
LEMMA OnlyHashTxAccepts == ASSUME Next, Accepted' PROVE HashTx
<1>1. CASE CheckLength
  BY <1>1 DEF CheckLength, Fail, Accepted
<1>2. CASE ReadTxField
  BY <1>2, ErrorIsNotOk DEF ReadTxField, Fail, Accepted
<1>3. CASE CheckEnd
  BY <1>3 DEF CheckEnd, Fail, Accepted
<1>4. CASE NoPayload \/ PayloadWithoutHints \/ Comment \/ StartJetton \/ UnknownHints
  BY <1>4 DEF NoPayload, PayloadWithoutHints, Comment, StartJetton, UnknownHints, Fail, Accepted
<1>5. CASE ReadJettonField \/ EndJetton
  BY <1>5 DEF ReadJettonField, EndJetton, Fail, Accepted
<1>6. CASE ComparePayload
  BY <1>6 DEF ComparePayload, Fail, Accepted
<1> QED BY <1>1, <1>2, <1>3, <1>4, <1>5, <1>6 DEF Next

(* The order of an accepted request is the one hash_tx has hashed.         *)
LEMMA OrderIsHashed == Spec => []OrderHashed
<1>1. ASSUME Init
      PROVE  OrderHashed
  BY <1>1 DEF Init, OrderHashed, Accepted
<1>2. ASSUME OrderHashed, [Next]_vars
      PROVE  OrderHashed'
  <2>1. CASE UNCHANGED vars
    <3>1. /\ pc' = pc /\ status' = status /\ order' = order /\ tx' = tx
      BY <2>1 DEF vars
    <3>2. OrderBits' = OrderBits /\ Message' = Message
      BY <3>1 DEF OrderBits, Message, MessageInfo, MessageFlags, MessageRefs
    <3> QED BY <1>2, <3>1, <3>2 DEF OrderHashed, Accepted
  <2>2. CASE Next
    <3>1. SUFFICES ASSUME Accepted'
                   PROVE  order' = Representation(OrderBits', <<Message'>>)
      BY DEF OrderHashed
    <3>2. HashTx
      BY <2>2, <3>1, OnlyHashTxAccepts
    <3>3. order' = Representation(OrderBits, <<Message>>) /\ tx' = tx
      BY <3>2 DEF HashTx
    <3>4. OrderBits' = OrderBits /\ Message' = Message
      BY <3>3 DEF OrderBits, Message, MessageInfo, MessageFlags, MessageRefs
    <3> QED BY <3>3, <3>4
  <2> QED BY <1>2, <2>1, <2>2
<1> QED BY <1>1, <1>2, PTL DEF Spec

-----------------------------------------------------------------------------
(* The message as a wallet is to read it, from each of its parts on.       *)
InitFlag == IF Is(tx.has_state_init) THEN <<1, 1>> ELSE <<0>>
BodyFlag == IF Is(tx.has_payload) THEN <<1>> ELSE <<0>>

FromBody      == BodyFlag \o <<>>
FromInit      == InitFlag \o FromBody
FromCreatedAt == UintBits(0, WordLen * ByteBits) \o FromInit
FromCreatedLt == UintBits(0, LongLen * ByteBits) \o FromCreatedAt
FromFwdFee    == UintBits(0, LengthBits) \o FromCreatedLt
FromIhrFee    == UintBits(0, LengthBits) \o FromFwdFee
FromOther     == <<0>> \o FromIhrFee
FromAmount    == BytesBits(Amount(tx.value)) \o FromOther
FromValue     == UintBits(Len(Amount(tx.value)), LengthBits) \o FromAmount
FromAccount   == BytesBits(tx.to) \o FromValue
FromDest      == <<1, 0, 0>> \o FromAccount
FromSrc       == <<0, 0>> \o FromDest
FromBounced   == <<0>> \o FromSrc
FromBounce    == tx.bounce \o FromBounced
FromIhr       == <<1>> \o FromBounce
FromInfo      == <<0>> \o FromIhr

(* The widths are numbers, and a byte has bits.                            *)
LEMMA WidthsAreNumbers ==
  /\ ByteBits \in Nat \ {0} /\ HashLen \in Nat /\ WordLen \in Nat /\ LongLen \in Nat
  /\ LengthBits \in Nat /\ Capacity \in Nat /\ MaxValueBytes \in Nat
  /\ WordLen * ByteBits \in Nat /\ LongLen * ByteBits \in Nat
<1>1. /\ ByteBits \in Nat \ {0} /\ HashLen \in Nat /\ WordLen \in Nat /\ LongLen \in Nat
      /\ LengthBits \in Nat /\ Capacity \in Nat /\ MaxValueBytes \in Nat
  BY WidthsAssumption, BitStringAssumption, RequestsAssumption
<1> QED BY <1>1

(* Each of them is of bits, and all of it fits.                            *)
MessageTypes ==
  /\ InitFlag \in Seq(Bit) /\ BodyFlag \in Seq(Bit) /\ tx.bounce \in Seq(Bit)
  /\ BytesBits(Amount(tx.value)) \in Seq(Bit) /\ BytesBits(tx.to) \in Seq(Bit)
  /\ FromBody \in Seq(Bit) /\ FromInit \in Seq(Bit) /\ FromCreatedAt \in Seq(Bit)
  /\ FromCreatedLt \in Seq(Bit) /\ FromFwdFee \in Seq(Bit) /\ FromIhrFee \in Seq(Bit)
  /\ FromOther \in Seq(Bit) /\ FromAmount \in Seq(Bit) /\ FromValue \in Seq(Bit)
  /\ FromAccount \in Seq(Bit) /\ FromDest \in Seq(Bit) /\ FromSrc \in Seq(Bit)
  /\ FromBounced \in Seq(Bit) /\ FromBounce \in Seq(Bit) /\ FromIhr \in Seq(Bit)
  /\ FromInfo \in Seq(Bit)

(* The longest message fits into a cell.                                   *)
LEMMA MessageFits ==
  ASSUME GoodFields
  PROVE  MessageTypes /\ Len(FromInfo) <= Room
<1> DEFINE amount == Len(Amount(tx.value))
           W == WordLen * ByteBits
           L == LongLen * ByteBits
<1>1. /\ tx.to \in Seq(Nat) /\ Len(tx.to) = 1 + HashLen
      /\ tx.bounce \in {<<0>>, <<1>>}
      /\ Amount(tx.value) \in Seq(Nat) /\ amount \in 0..MaxValueBytes
  BY DEF GoodFields
<1>2. /\ InitFlag \in Seq(Bit) /\ BodyFlag \in Seq(Bit) /\ tx.bounce \in Seq(Bit)
      /\ Len(InitFlag) <= 2 /\ Len(BodyFlag) = 1 /\ Len(tx.bounce) = 1
  <2>1. InitFlag \in {<<1, 1>>, <<0>>} /\ BodyFlag \in {<<1>>, <<0>>}
    BY DEF InitFlag, BodyFlag
  <2>2. InitFlag \in Seq(Bit) /\ BodyFlag \in Seq(Bit) /\ tx.bounce \in Seq(Bit)
    BY <1>1, <2>1, FewBits, Zenon
  <2>3. InitFlag = <<1, 1>> => Len(InitFlag) = 2
    BY FewBits, Zenon
  <2>4. InitFlag = <<0>> => Len(InitFlag) = 1
    BY FewBits, Zenon
  <2>5. Len(BodyFlag) = 1 /\ Len(tx.bounce) = 1
    BY <1>1, <2>1, FewBits, Zenon
  <2>6. Len(InitFlag) = 1 \/ Len(InitFlag) = 2
    BY <2>1, <2>3, <2>4, Zenon
  <2>7. Len(InitFlag) <= 2
    <3> DEFINE n == Len(InitFlag)
    <3>1. n \in Nat /\ (n = 1 \/ n = 2)
      BY <2>2, <2>6
    <3> HIDE DEF n
    <3>2. n <= 2
      BY <3>1
    <3> QED BY <3>2 DEF n
  <2> QED BY <2>2, <2>5, <2>7, Zenon
<1>3. /\ BytesBits(Amount(tx.value)) \in Seq(Bit)
      /\ Len(BytesBits(Amount(tx.value))) = ByteBits * amount
      /\ BytesBits(tx.to) \in Seq(Bit)
      /\ Len(BytesBits(tx.to)) = ByteBits * Len(tx.to)
  BY <1>1, BytesBitsType
<1>4. /\ UintBits(0, W) \in Seq(Bit) /\ Len(UintBits(0, W)) = W
      /\ UintBits(0, L) \in Seq(Bit) /\ Len(UintBits(0, L)) = L
      /\ UintBits(0, LengthBits) \in Seq(Bit)
      /\ Len(UintBits(0, LengthBits)) = LengthBits
      /\ UintBits(amount, LengthBits) \in Seq(Bit)
      /\ Len(UintBits(amount, LengthBits)) = LengthBits
  <2>1. 0 \in Nat /\ amount \in Nat /\ W \in Nat /\ L \in Nat /\ LengthBits \in Nat
    BY <1>1, WidthsAreNumbers
  <2> HIDE DEF amount, W, L
  <2> QED BY <2>1, UintBitsType
<1>5. FromBody \in Seq(Bit) /\ Len(FromBody) = 1
  BY <1>2, FewBits, Joined DEF FromBody
<1>6. FromInit \in Seq(Bit) /\ Len(FromInit) <= 3
  <2>1. FromInit \in Seq(Bit) /\ Len(FromInit) = Len(InitFlag) + Len(FromBody)
    BY <1>2, <1>5, Joined DEF FromInit
  <2>2. Len(InitFlag) \in Nat
    BY <1>2
  <2> QED BY <1>2, <1>5, <2>1, <2>2
<1>7. FromCreatedAt \in Seq(Bit) /\ Len(FromCreatedAt) = W + Len(FromInit)
  <2> DEFINE x == UintBits(0, W)
  <2>1. FromCreatedAt = x \o FromInit
    BY DEF FromCreatedAt
  <2>2. x \in Seq(Bit) /\ Len(x) = W
    BY <1>4
  <2> HIDE DEF W, L, x
  <2> QED BY <1>6, <2>1, <2>2, JoinedAs
<1>8. FromCreatedLt \in Seq(Bit) /\ Len(FromCreatedLt) = L + Len(FromCreatedAt)
  <2> DEFINE x == UintBits(0, L)
  <2>1. FromCreatedLt = x \o FromCreatedAt
    BY DEF FromCreatedLt
  <2>2. x \in Seq(Bit) /\ Len(x) = L
    BY <1>4
  <2> HIDE DEF W, L, x
  <2> QED BY <1>7, <2>1, <2>2, JoinedAs, ZenonT(60)
<1>9. FromFwdFee \in Seq(Bit) /\ Len(FromFwdFee) = LengthBits + Len(FromCreatedLt)
  BY <1>4, <1>8, Joined, ZenonT(60) DEF FromFwdFee
<1>10. FromIhrFee \in Seq(Bit) /\ Len(FromIhrFee) = LengthBits + Len(FromFwdFee)
  BY <1>4, <1>9, Joined, ZenonT(60) DEF FromIhrFee
<1>11. FromOther \in Seq(Bit) /\ Len(FromOther) = 1 + Len(FromIhrFee)
  BY FewBits, <1>10, Joined DEF FromOther
<1>12. FromAmount \in Seq(Bit) /\ Len(FromAmount) = ByteBits * amount + Len(FromOther)
  BY <1>3, <1>11, Joined DEF FromAmount
<1>13. FromValue \in Seq(Bit) /\ Len(FromValue) = LengthBits + Len(FromAmount)
  BY <1>4, <1>12, Joined DEF FromValue
<1>14. FromAccount \in Seq(Bit) /\ Len(FromAccount) = ByteBits * Len(tx.to) + Len(FromValue)
  BY <1>3, <1>13, Joined DEF FromAccount
<1>15. FromDest \in Seq(Bit) /\ Len(FromDest) = 3 + Len(FromAccount)
  BY FewBits, <1>14, Joined DEF FromDest
<1>16. FromSrc \in Seq(Bit) /\ Len(FromSrc) = 2 + Len(FromDest)
  BY FewBits, <1>15, Joined DEF FromSrc
<1>17. FromBounced \in Seq(Bit) /\ Len(FromBounced) = 1 + Len(FromSrc)
  BY FewBits, <1>16, Joined DEF FromBounced
<1>18. FromBounce \in Seq(Bit) /\ Len(FromBounce) = 1 + Len(FromBounced)
  BY <1>2, <1>17, Joined DEF FromBounce
<1>19. FromIhr \in Seq(Bit) /\ Len(FromIhr) = 1 + Len(FromBounce)
  BY FewBits, <1>18, Joined DEF FromIhr
<1>20. FromInfo \in Seq(Bit) /\ Len(FromInfo) = 1 + Len(FromIhr)
  BY FewBits, <1>19, Joined DEF FromInfo
<1>21. Len(FromInfo) <= Room
  <2> DEFINE A == ByteBits * amount
             T == ByteBits * Len(tx.to)
             M == ByteBits * MaxValueBytes
             H == ByteBits * (1 + HashLen)
             F == Len(FromInit)
  <2>1. T = H
    BY <1>1
  <2>2. A <= M /\ A \in Nat /\ M \in Nat
    <3>1. amount \in Nat /\ amount <= MaxValueBytes /\ MaxValueBytes \in Nat /\ ByteBits \in Nat
      BY <1>1, WidthsAreNumbers
    <3> HIDE DEF amount
    <3>2. MaxValueBytes - amount \in Nat /\ ByteBits * (MaxValueBytes - amount) \in Nat
      BY <3>1
    <3>3. M = A + ByteBits * (MaxValueBytes - amount)
      BY <3>1
    <3>4. A \in Nat /\ M \in Nat
      BY <3>1
    <3> HIDE DEF A, M
    <3> QED BY <3>2, <3>3, <3>4
  <2>3. F <= 3 /\ F \in Nat
    BY <1>6
  <2>4. H \in Nat /\ W \in Nat /\ L \in Nat /\ LengthBits \in Nat
    BY WidthsAreNumbers
  <2>5. (1 + HashLen + MaxValueBytes + LongLen + WordLen) * ByteBits = H + M + L + W
    BY WidthsAreNumbers
  <2>6. 13 + (1 + HashLen + MaxValueBytes + LongLen + WordLen) * ByteBits + 3 * LengthBits
          <= Room
    BY OrderAssumption DEF Room
  <2>7. Room \in Nat
    BY WidthsAreNumbers DEF Room
  <2>8. Len(FromInfo) = 9 + H + LengthBits + A + 1 + LengthBits + LengthBits + L + W + F
    <3> HIDE DEF W, L, A, T, H, F
    <3>1. Len(FromOther) = 1 + (LengthBits + (LengthBits + (L + (W + F))))
      BY <1>7, <1>8, <1>9, <1>10, <1>11, <2>4, <2>3 DEF F
    <3>2. Len(FromAccount) = H + (LengthBits + (A + Len(FromOther)))
      BY <1>12, <1>13, <1>14, <2>1 DEF A, T
    <3>3. Len(FromAccount) \in Nat
      BY <1>14
    <3>4. Len(FromInfo) = 9 + Len(FromAccount)
      BY <1>15, <1>16, <1>17, <1>18, <1>19, <1>20, <3>3
    <3> QED BY <2>2, <2>3, <2>4, <3>1, <3>2, <3>4
  <2> HIDE DEF W, L, A, T, M, H, F
  <2> QED BY <2>2, <2>3, <2>4, <2>5, <2>6, <2>7, <2>8
<1> QED BY <1>2, <1>3, <1>5, <1>6, <1>7, <1>8, <1>9, <1>10, <1>11, <1>12, <1>13, <1>14, <1>15,
           <1>16, <1>17, <1>18, <1>19, <1>20, <1>21 DEF MessageTypes

(* A bit in front of others.                                               *)
LEMMA OneBefore ==
  ASSUME NEW a \in Bit, NEW x \in Seq(Bit)
  PROVE  /\ <<a>> \o x \in Seq(Bit) /\ Len(<<a>> \o x) = 1 + Len(x)
         /\ (<<a>> \o x)[1] = a
         /\ \A i \in 1..Len(x) : (<<a>> \o x)[i + 1] = x[i]
         /\ \A w \in Seq(Bit) : (<<a>> \o x) \o w = <<a>> \o (x \o w)
<1>1. <<a>> \in Seq(Bit) /\ Len(<<a>>) = 1
  OBVIOUS
<1>2. \A w \in Seq(Bit) : (<<a>> \o x) \o w = <<a>> \o (x \o w)
  BY <1>1, ConcatAssociative
<1>3. /\ <<a>> \o x \in Seq(Bit) /\ Len(<<a>> \o x) = 1 + Len(x)
      /\ (<<a>> \o x)[1] = a
  BY <1>1
<1>4. ASSUME NEW i \in 1..Len(x)
      PROVE  (<<a>> \o x)[i + 1] = x[i]
  BY <1>1
<1> QED BY <1>2, <1>3, <1>4

(* The first four bits are stored at once.                                 *)
LEMMA FourBits ==
  ASSUME NEW v \in Bit, NEW w \in Seq(Bit)
  PROVE  <<0, 1, v, 0>> \o w = <<0>> \o (<<1>> \o (<<v>> \o (<<0>> \o w)))
<1> DEFINE d == <<0>>
           c == <<v>> \o d
           b == <<1>> \o c
           a == <<0>> \o b
<1>1. 0 \in Bit /\ 1 \in Bit
  BY DEF Bit
<1>2. d \in Seq(Bit) /\ Len(d) = 1 /\ d[1] = 0
  BY <1>1
<1> HIDE DEF d
<1>3. /\ c \in Seq(Bit) /\ Len(c) = 2 /\ c[1] = v /\ c[2] = 0
      /\ c \o w = <<v>> \o (d \o w)
  <2>1. Len(c) = 1 + Len(d) /\ \A i \in 1..Len(d) : c[i + 1] = d[i]
    BY <1>2, OneBefore
  <2>2. c[1 + 1] = d[1]
    BY <1>2, <2>1
  <2>3. c \in Seq(Bit) /\ c[1] = v /\ c \o w = <<v>> \o (d \o w)
    BY <1>2, OneBefore
  <2> HIDE DEF c
  <2> QED BY <1>2, <2>1, <2>2, <2>3
<1> HIDE DEF c
<1>4. /\ b \in Seq(Bit) /\ Len(b) = 3 /\ b[1] = 1 /\ b[2] = v /\ b[3] = 0
      /\ b \o w = <<1>> \o (c \o w)
  <2>1. Len(b) = 1 + Len(c) /\ \A i \in 1..Len(c) : b[i + 1] = c[i]
    BY <1>1, <1>3, OneBefore
  <2>2. b[1 + 1] = c[1] /\ b[2 + 1] = c[2]
    BY <1>3, <2>1
  <2>3. b \in Seq(Bit) /\ b[1] = 1 /\ b \o w = <<1>> \o (c \o w)
    BY <1>1, <1>3, OneBefore, ZenonT(60)
  <2> HIDE DEF b
  <2> QED BY <1>3, <2>1, <2>2, <2>3
<1> HIDE DEF b
<1>5. /\ a \in Seq(Bit) /\ Len(a) = 4 /\ a[1] = 0 /\ a[2] = 1 /\ a[3] = v /\ a[4] = 0
      /\ a \o w = <<0>> \o (b \o w)
  <2>1. Len(a) = 1 + Len(b) /\ \A i \in 1..Len(b) : a[i + 1] = b[i]
    BY <1>1, <1>4, OneBefore
  <2>2. a[1 + 1] = b[1] /\ a[2 + 1] = b[2] /\ a[3 + 1] = b[3]
    BY <1>4, <2>1
  <2>3. a \in Seq(Bit) /\ a[1] = 0 /\ a \o w = <<0>> \o (b \o w)
    BY <1>1, <1>4, OneBefore, ZenonT(60)
  <2> HIDE DEF a
  <2> QED BY <1>4, <2>1, <2>2, <2>3
<1> HIDE DEF a
<1>6. a = <<0, 1, v, 0>>
  BY <1>5
<1> QED BY <1>3, <1>4, <1>5, <1>6, Zenon DEF d

(* The stores of hash_tx make the message as it is to be read.             *)
LEMMA MessageBuilt ==
  ASSUME GoodFields
  PROVE  Holds(StoreBits(MessageInfo, MessageFlags), FromInfo)
<1> DEFINE bounce == IF Is(tx.bounce) THEN 1 ELSE 0
           header == StoreBits(NoBits, <<0, 1, bounce, 0>>)
           src    == StoreAddressNull(header)
           dest   == StoreAddress(src, tx.to)
           coins  == StoreCoinsBuf(dest, Amount(tx.value))
           value  == StoreBit(coins, 0)
           ihr    == StoreCoins(value, 0)
           fees   == StoreCoins(ihr, 0)
           lt     == StoreUint(fees, 0, LongLen * ByteBits)
           info   == StoreUint(lt, 0, WordLen * ByteBits)
<1>1. MessageInfo = info
  BY DEF MessageInfo
<1>2. MessageTypes /\ Len(FromInfo) <= Room
  BY MessageFits
<1>3. /\ tx.to \in Seq(Nat) /\ Amount(tx.value) \in Seq(Nat)
      /\ bounce \in Bit /\ tx.bounce = <<bounce>>
  BY DEF GoodFields, Is, Bit
<1>4. Building(NoBits, FromInfo, FromInfo)
  BY <1>2, NothingBuilt DEF MessageTypes
<1>5. Building(header, FromSrc, FromInfo)
  <2>1. 0 \in Bit /\ 1 \in Bit /\ <<0, 1, bounce, 0>> \in Seq(Bit)
    BY <1>3 DEF Bit
  <2> HIDE DEF bounce
  <2>2. <<0, 1, bounce, 0>> \o FromSrc = FromInfo
    <3>1. FromInfo = <<0>> \o (<<1>> \o (<<bounce>> \o (<<0>> \o FromSrc)))
      BY <1>3, Zenon DEF FromInfo, FromIhr, FromBounce, FromBounced
    <3>2. FromSrc \in Seq(Bit)
      BY <1>2 DEF MessageTypes
    <3>3. 0 \in Bit /\ 1 \in Bit /\ bounce \in Bit
      BY <1>3, <2>1
    <3>4. <<0, 1, bounce, 0>> \o FromSrc = <<0>> \o (<<1>> \o (<<bounce>> \o (<<0>> \o FromSrc)))
      BY <3>2, <3>3, FourBits
    <3> QED BY <3>1, <3>4, Zenon
  <2> QED BY <1>2, <1>4, <2>1, <2>2, StoreBitsBuilds DEF MessageTypes
<1> HIDE DEF header
<1>6. Building(src, FromDest, FromInfo)
  BY <1>2, <1>5, StoreAddressNullBuilds DEF MessageTypes, FromSrc
<1> HIDE DEF src
<1>7. Building(dest, FromValue, FromInfo)
  BY <1>2, <1>3, <1>6, StoreAddressBuilds DEF MessageTypes, FromDest, FromAccount
<1> HIDE DEF dest
<1>8. Building(coins, FromOther, FromInfo)
  BY <1>2, <1>3, <1>7, StoreCoinsBufBuilds DEF MessageTypes, FromValue, FromAmount
<1> HIDE DEF coins
<1>9. Building(value, FromIhrFee, FromInfo)
  <2>1. 0 \in Bit
    BY DEF Bit
  <2> QED BY <1>2, <1>8, <2>1, StoreBitBuilds DEF MessageTypes, FromOther
<1> HIDE DEF value
<1>10. Building(ihr, FromFwdFee, FromInfo)
  BY <1>2, <1>9, StoreNoCoinsBuilds DEF MessageTypes, FromIhrFee
<1> HIDE DEF ihr
<1>11. Building(fees, FromCreatedLt, FromInfo)
  BY <1>2, <1>10, StoreNoCoinsBuilds DEF MessageTypes, FromFwdFee
<1> HIDE DEF fees
<1>12. Building(lt, FromCreatedAt, FromInfo)
  BY <1>2, <1>11, StoreUintBuilds, WidthsAreNumbers DEF MessageTypes, FromCreatedLt
<1> HIDE DEF lt
<1>13. Building(info, FromInit, FromInfo)
  BY <1>2, <1>12, StoreUintBuilds, WidthsAreNumbers DEF MessageTypes, FromCreatedAt
<1> HIDE DEF info
<1>14. Building(StoreBits(info, MessageFlags), <<>>, FromInfo)
  <2>1. MessageFlags = InitFlag \o BodyFlag
    BY DEF MessageFlags, InitFlag, BodyFlag
  <2>2. MessageFlags \in Seq(Bit) /\ <<>> \in Seq(Bit)
    BY <1>2, <2>1, Joined, FewBits DEF MessageTypes
  <2>3. FromInit = MessageFlags \o <<>>
    <3>1. /\ BodyFlag \o <<>> = BodyFlag
          /\ (InitFlag \o BodyFlag) \o <<>> = InitFlag \o BodyFlag
      BY <1>2, <2>1, <2>2 DEF MessageTypes
    <3> QED BY <2>1, <3>1 DEF FromInit, FromBody
  <2> QED BY <1>13, <2>2, <2>3, StoreBitsBuilds
<1> QED BY <1>1, <1>14, AllBuilt

-----------------------------------------------------------------------------
(* The order as a wallet is to read it, from each of its parts on.         *)
FromMode    == BytesBits(tx.send_mode) \o <<>>
FromOp      == UintBits(0, ByteBits) \o FromMode
FromSeqno   == BytesBits(tx.seqno) \o FromOp
FromTimeout == BytesBits(tx.timeout) \o FromSeqno
FromWallet  == UintBits(Wallet, WordLen * ByteBits) \o FromTimeout

OrderTypes ==
  /\ BytesBits(tx.send_mode) \in Seq(Bit) /\ Len(BytesBits(tx.send_mode)) = ByteBits
  /\ BytesBits(tx.seqno) \in Seq(Bit) /\ Len(BytesBits(tx.seqno)) = WordLen * ByteBits
  /\ BytesBits(tx.timeout) \in Seq(Bit) /\ Len(BytesBits(tx.timeout)) = WordLen * ByteBits
  /\ UintBits(Wallet, WordLen * ByteBits) \in Seq(Bit)
  /\ Len(UintBits(Wallet, WordLen * ByteBits)) = WordLen * ByteBits
  /\ UintBits(0, ByteBits) \in Seq(Bit)
  /\ FromMode \in Seq(Bit) /\ FromOp \in Seq(Bit) /\ FromSeqno \in Seq(Bit)
  /\ FromTimeout \in Seq(Bit) /\ FromWallet \in Seq(Bit)

(* The longest order fits into a cell.                                     *)
LEMMA OrderFits ==
  ASSUME GoodFields
  PROVE  OrderTypes /\ Len(FromWallet) <= Room
<1> DEFINE W == WordLen * ByteBits
           wallet == UintBits(Wallet, W)
           op     == UintBits(0, ByteBits)
           times  == BytesBits(tx.timeout)
           seqs   == BytesBits(tx.seqno)
           mode   == BytesBits(tx.send_mode)
<1>1. W \in Nat /\ ByteBits \in Nat /\ Wallet \in Nat /\ WordLen \in Nat
  BY WidthsAreNumbers, OrderAssumption
<1>2. /\ tx.timeout \in Seq(Nat) /\ Len(tx.timeout) = WordLen
      /\ tx.seqno \in Seq(Nat) /\ Len(tx.seqno) = WordLen
      /\ tx.send_mode \in Seq(Nat) /\ Len(tx.send_mode) = 1
  BY DEF GoodFields
<1>3. ByteBits * WordLen = W /\ ByteBits * 1 = ByteBits
  BY <1>1
<1>4. /\ mode \in Seq(Bit) /\ Len(mode) = ByteBits
      /\ seqs \in Seq(Bit) /\ Len(seqs) = W /\ times \in Seq(Bit) /\ Len(times) = W
  BY <1>2, <1>3, BytesBitsType
<1>5. wallet \in Seq(Bit) /\ Len(wallet) = W /\ op \in Seq(Bit) /\ Len(op) = ByteBits
  <2> HIDE DEF W
  <2> QED BY <1>1, UintBitsType
<1>6. /\ FromMode = mode \o <<>> /\ FromOp = op \o FromMode /\ FromSeqno = seqs \o FromOp
      /\ FromTimeout = times \o FromSeqno /\ FromWallet = wallet \o FromTimeout
  BY DEF FromMode, FromOp, FromSeqno, FromTimeout, FromWallet
<1>7. OrderTypes <=> /\ mode \in Seq(Bit) /\ Len(mode) = ByteBits
                     /\ seqs \in Seq(Bit) /\ Len(seqs) = W
                     /\ times \in Seq(Bit) /\ Len(times) = W
                     /\ wallet \in Seq(Bit) /\ Len(wallet) = W /\ op \in Seq(Bit)
                     /\ FromMode \in Seq(Bit) /\ FromOp \in Seq(Bit) /\ FromSeqno \in Seq(Bit)
                     /\ FromTimeout \in Seq(Bit) /\ FromWallet \in Seq(Bit)
  BY DEF OrderTypes
<1>8. (3 * WordLen + 2) * ByteBits = 3 * W + 2 * ByteBits
  BY <1>1
<1>9. 3 * W + 2 * ByteBits <= Room
  BY <1>8, OrderAssumption DEF Room
<1> HIDE DEF W, wallet, op, times, seqs, mode
<1>10. FromMode \in Seq(Bit) /\ Len(FromMode) = ByteBits + 0
  BY <1>4, <1>6, FewBits, JoinedAs
<1>11. FromOp \in Seq(Bit) /\ Len(FromOp) = ByteBits + Len(FromMode)
  <2>1. op \o FromMode \in Seq(Bit) /\ Len(op \o FromMode) = Len(op) + Len(FromMode)
    BY <1>5, <1>10, Joined
  <2> QED BY <1>5, <1>6, <2>1, Zenon
<1>12. FromSeqno \in Seq(Bit) /\ Len(FromSeqno) = W + Len(FromOp)
  <2>1. seqs \o FromOp \in Seq(Bit) /\ Len(seqs \o FromOp) = Len(seqs) + Len(FromOp)
    BY <1>4, <1>11, Joined
  <2> QED BY <1>4, <1>6, <2>1, Zenon
<1>13. FromTimeout \in Seq(Bit) /\ Len(FromTimeout) = W + Len(FromSeqno)
  <2>1. times \o FromSeqno \in Seq(Bit) /\ Len(times \o FromSeqno) = Len(times) + Len(FromSeqno)
    BY <1>4, <1>12, Joined
  <2> QED BY <1>4, <1>6, <2>1, Zenon
<1>14. FromWallet \in Seq(Bit) /\ Len(FromWallet) = W + Len(FromTimeout)
  <2>1. wallet \o FromTimeout \in Seq(Bit) /\ Len(wallet \o FromTimeout) = Len(wallet) + Len(FromTimeout)
    BY <1>5, <1>13, Joined
  <2> QED BY <1>5, <1>6, <2>1, Zenon
<1>15. Len(FromWallet) = 3 * W + 2 * ByteBits
  BY <1>1, <1>10, <1>11, <1>12, <1>13, <1>14
<1> QED BY <1>4, <1>5, <1>7, <1>9, <1>10, <1>11, <1>12, <1>13, <1>14, <1>15

(* The stores of hash_tx make the order as it is to be read.               *)
LEMMA OrderBuilt ==
  ASSUME GoodFields
  PROVE  Holds(OrderBits, FromWallet)
<1> DEFINE wallet == StoreUint(NoBits, Wallet, WordLen * ByteBits)
           times  == StoreBuffer(wallet, tx.timeout)
           limits == StoreBuffer(times, tx.seqno)
           op     == StoreUint(limits, 0, ByteBits)
           all    == StoreBuffer(op, tx.send_mode)
<1>1. OrderBits = all
  BY DEF OrderBits
<1>2. OrderTypes /\ Len(FromWallet) <= Room
  BY OrderFits
<1>3. tx.timeout \in Seq(Nat) /\ tx.seqno \in Seq(Nat) /\ tx.send_mode \in Seq(Nat)
  BY DEF GoodFields
<1>4. 0 \in Nat /\ Wallet \in Nat /\ ByteBits \in Nat /\ WordLen * ByteBits \in Nat
      /\ <<>> \in Seq(Bit)
  BY WidthsAreNumbers, OrderAssumption
<1>5. Building(NoBits, FromWallet, FromWallet)
  BY <1>2, NothingBuilt DEF OrderTypes
<1>6. Building(wallet, FromTimeout, FromWallet)
  BY <1>2, <1>4, <1>5, StoreUintBuilds DEF OrderTypes, FromWallet
<1> HIDE DEF wallet
<1>7. Building(times, FromSeqno, FromWallet)
  BY <1>2, <1>3, <1>6, StoreBufferBuilds DEF OrderTypes, FromTimeout
<1> HIDE DEF times
<1>8. Building(limits, FromOp, FromWallet)
  BY <1>2, <1>3, <1>7, StoreBufferBuilds DEF OrderTypes, FromSeqno
<1> HIDE DEF limits
<1>9. Building(op, FromMode, FromWallet)
  BY <1>2, <1>4, <1>8, StoreUintBuilds DEF OrderTypes, FromOp
<1> HIDE DEF op
<1>10. Building(all, <<>>, FromWallet)
  BY <1>3, <1>4, <1>9, StoreBufferBuilds DEF FromMode
<1> QED BY <1>1, <1>10, AllBuilt

InitRefs == IF Is(tx.has_state_init) THEN <<CellRef(tx.state_init)>> ELSE <<>>
BodyRefs == IF Is(tx.has_payload) THEN <<CellRef(tx.payload)>> ELSE <<>>

(* The references of the message are the state-init's and the payload's.   *)
LEMMA MessageRefsAre ==
  ASSUME GoodFields
  PROVE  /\ InitRefs \in Seq(References) /\ BodyRefs \in Seq(References)
         /\ MessageRefs = InitRefs \o BodyRefs /\ MessageRefs \in Seq(References)
<1>1. /\ Is(tx.has_state_init) => CellRef(tx.state_init) \in References
      /\ Is(tx.has_payload) => CellRef(tx.payload) \in References
  BY CellRefType DEF GoodFields
<1>2. InitRefs \in Seq(References) /\ BodyRefs \in Seq(References)
  BY <1>1 DEF InitRefs, BodyRefs
<1>3. MessageRefs = InitRefs \o BodyRefs
  BY DEF MessageRefs, InitRefs, BodyRefs
<1> QED BY <1>1, <1>2, <1>3

(* What the cells of hash_tx hold, read back.                              *)
LEMMA MessageCell ==
  ASSUME GoodFields
  PROVE  CellOf(Message.hash) = [bits |-> FromInfo, refs |-> MessageRefs]
<1>1. Message.hash = Representation(StoreBits(MessageInfo, MessageFlags), MessageRefs)
  BY DEF Message, HashCell, Ref
<1>2. Holds(StoreBits(MessageInfo, MessageFlags), FromInfo)
  BY MessageBuilt
<1>3. MessageRefs \in Seq([max_depth : Nat, hash : Seq(Nat)])
  BY MessageRefsAre DEF References
<1> HIDE DEF Message
<1> QED BY <1>1, <1>2, <1>3, CellReadsBack

(* The order is read back from the bytes that are hashed.                  *)
LEMMA OrderCell ==
  ASSUME GoodFields
  PROVE  CellOf(Representation(OrderBits, <<Message>>)) =
           [bits |-> FromWallet, refs |-> <<Message>>]
<1> DEFINE H == {Message.hash}
<1>1. CellDepth(MessageRefs) \in Nat
  BY MessageRefsAre, CellDepthIs
<1>2. Message \in [max_depth : Nat, hash : H]
  BY <1>1 DEF Message, HashCell, Ref
<1>3. <<Message>> \in Seq([max_depth : Nat, hash : H])
  BY <1>2
<1>4. Holds(OrderBits, FromWallet)
  BY OrderBuilt
<1> HIDE DEF H
<1> QED BY <1>3, <1>4, CellReadsBack

(* A schema is a sequence, whatever its parts are.                         *)
LEMMA OrderParts ==
  /\ Len(OrderSchema) = 6
  /\ OrderSchema[1] = Part("wallet", "uint", WordLen * ByteBits)
  /\ OrderSchema[2] = Part("timeout", "uint", WordLen * ByteBits)
  /\ OrderSchema[3] = Part("seqno", "uint", WordLen * ByteBits)
  /\ OrderSchema[4] = Part("op", "tag", UintBits(0, ByteBits))
  /\ OrderSchema[5] = Part("send_mode", "uint", ByteBits)
  /\ OrderSchema[6] = Part("message", "^", 0)
  /\ \E P : OrderSchema \in Seq(P)
<1> DEFINE p1 == Part("wallet", "uint", WordLen * ByteBits)
           p2 == Part("timeout", "uint", WordLen * ByteBits)
           p3 == Part("seqno", "uint", WordLen * ByteBits)
           p4 == Part("op", "tag", UintBits(0, ByteBits))
           p5 == Part("send_mode", "uint", ByteBits)
           p6 == Part("message", "^", 0)
           P  == {p1, p2, p3, p4, p5, p6}
<1>1. OrderSchema = <<p1, p2, p3, p4, p5, p6>>
  BY DEF OrderSchema
<1> HIDE DEF p1, p2, p3, p4, p5, p6
<1>2. OrderSchema \in Seq(P)
  BY <1>1
<1>3. /\ Len(OrderSchema) = 6
      /\ OrderSchema[1] = p1 /\ OrderSchema[2] = p2 /\ OrderSchema[3] = p3
      /\ OrderSchema[4] = p4 /\ OrderSchema[5] = p5 /\ OrderSchema[6] = p6
  BY <1>1
<1> QED BY <1>2, <1>3 DEF p1, p2, p3, p4, p5, p6

(* The same of the schema of the message.                                  *)
LEMMA MessageParts ==
  /\ Len(MessageSchema) = 14
  /\ MessageSchema[1] = Part("int_msg_info", "tag", <<0>>)
  /\ MessageSchema[2] = Part("ihr_disabled", "uint", 1)
  /\ MessageSchema[3] = Part("bounce", "uint", 1)
  /\ MessageSchema[4] = Part("bounced", "tag", <<0>>)
  /\ MessageSchema[5] = Part("src", "tag", <<0, 0>>)
  /\ MessageSchema[6] = Part("dest", "address", <<1, 0, 0>>)
  /\ MessageSchema[7] = Part("value", "amount", 0)
  /\ MessageSchema[8] = Part("other", "tag", <<0>>)
  /\ MessageSchema[9] = Part("ihr_fee", "amount", 0)
  /\ MessageSchema[10] = Part("fwd_fee", "amount", 0)
  /\ MessageSchema[11] = Part("created_lt", "uint", LongLen * ByteBits)
  /\ MessageSchema[12] = Part("created_at", "uint", WordLen * ByteBits)
  /\ MessageSchema[13] = Part("init", "maybe^", <<1, 1>>)
  /\ MessageSchema[14] = Part("body", "maybe^", <<1>>)
  /\ \E P : MessageSchema \in Seq(P)
<1> DEFINE p1 == Part("int_msg_info", "tag", <<0>>)
           p2 == Part("ihr_disabled", "uint", 1)
           p3 == Part("bounce", "uint", 1)
           p4 == Part("bounced", "tag", <<0>>)
           p5 == Part("src", "tag", <<0, 0>>)
           p6 == Part("dest", "address", <<1, 0, 0>>)
           p7 == Part("value", "amount", 0)
           p8 == Part("other", "tag", <<0>>)
           p9 == Part("ihr_fee", "amount", 0)
           p10 == Part("fwd_fee", "amount", 0)
           p11 == Part("created_lt", "uint", LongLen * ByteBits)
           p12 == Part("created_at", "uint", WordLen * ByteBits)
           p13 == Part("init", "maybe^", <<1, 1>>)
           p14 == Part("body", "maybe^", <<1>>)
           P == {p1, p2, p3, p4, p5, p6, p7, p8, p9, p10, p11, p12, p13, p14}
<1>1. MessageSchema = <<p1, p2, p3, p4, p5, p6, p7, p8, p9, p10, p11, p12, p13, p14>>
  BY DEF MessageSchema
<1> HIDE DEF p1, p2, p3, p4, p5, p6, p7, p8, p9, p10, p11, p12, p13, p14
<1>2. MessageSchema \in Seq(P)
  BY <1>1
<1>3. Len(MessageSchema) = 14
  BY <1>1
<1>4. /\ MessageSchema[1] = p1 /\ MessageSchema[2] = p2 /\ MessageSchema[3] = p3
      /\ MessageSchema[4] = p4 /\ MessageSchema[5] = p5 /\ MessageSchema[6] = p6
      /\ MessageSchema[7] = p7 /\ MessageSchema[8] = p8 /\ MessageSchema[9] = p9
      /\ MessageSchema[10] = p10 /\ MessageSchema[11] = p11 /\ MessageSchema[12] = p12
      /\ MessageSchema[13] = p13 /\ MessageSchema[14] = p14
  BY <1>1
<1> QED BY <1>2, <1>3, <1>4 DEF p1, p2, p3, p4, p5, p6, p7, p8, p9, p10, p11, p12, p13, p14

(* The init and the body: there is a reference if the flag says so.        *)
LEMMA ReadInit ==
  ASSUME GoodFields, NEW r, NEW vals, At(r, FromInit, MessageRefs, vals)
  PROVE  At(ReadPart(r, Part("init", "maybe^", <<1, 1>>)), FromBody, BodyRefs,
            Holding(vals, "init", OptionalRef(tx.has_state_init, tx.state_init)))
<1>1. FromBody \in Seq(Bit) /\ <<1, 1>> \in Seq(Bit) /\ Len(<<1, 1>>) > 0 /\ <<1, 1>>[1] = 1
  BY MessageFits, FewBits DEF MessageTypes
<1>2. /\ InitRefs \in Seq(References) /\ BodyRefs \in Seq(References)
      /\ MessageRefs = InitRefs \o BodyRefs /\ MessageRefs \in Seq(References)
  BY MessageRefsAre
<1>3. CASE Is(tx.has_state_init)
  <2> DEFINE ref == CellRef(tx.state_init)
  <2>1. /\ InitRefs = <<ref>> /\ FromInit = <<1, 1>> \o FromBody
        /\ OptionalRef(tx.has_state_init, tx.state_init) = ref
    BY <1>3 DEF InitRefs, FromInit, InitFlag, OptionalRef
  <2> HIDE DEF ref
  <2>2. ref \in References
    BY <1>2, <2>1
  <2>3. MessageRefs = <<ref>> \o BodyRefs
    BY <1>2, <2>1
  <2>4. /\ MessageRefs # <<>> /\ MessageRefs[1] = ref /\ Tail(MessageRefs) = BodyRefs
    BY <1>2, <2>2, <2>3
  <2>5. At(r, <<1, 1>> \o FromBody, MessageRefs, vals)
    BY <2>1
  <2> QED BY <1>1, <1>2, <2>1, <2>4, <2>5, ReadMaybePresent
<1>4. CASE ~Is(tx.has_state_init)
  <2>1. /\ InitRefs = <<>> /\ FromInit = <<0>> \o FromBody
        /\ OptionalRef(tx.has_state_init, tx.state_init) = <<>>
    BY <1>4 DEF InitRefs, FromInit, InitFlag, OptionalRef
  <2>2. MessageRefs = BodyRefs
    BY <1>2, <2>1
  <2>3. At(r, <<0>> \o FromBody, BodyRefs, vals)
    BY <2>1, <2>2
  <2> QED BY <1>1, <2>1, <2>3, ReadMaybeAbsent
<1> QED BY <1>3, <1>4

(* The body in the same way.                                               *)
LEMMA ReadBody ==
  ASSUME GoodFields, NEW r, NEW vals, At(r, FromBody, BodyRefs, vals)
  PROVE  At(ReadPart(r, Part("body", "maybe^", <<1>>)), <<>>, <<>>,
            Holding(vals, "body", OptionalRef(tx.has_payload, tx.payload)))
<1>1. <<>> \in Seq(Bit) /\ <<1>> \in Seq(Bit) /\ Len(<<1>>) > 0 /\ <<1>>[1] = 1
  BY FewBits
<1>2. BodyRefs \in Seq(References)
  BY MessageRefsAre
<1>3. CASE Is(tx.has_payload)
  <2> DEFINE ref == CellRef(tx.payload)
  <2>1. /\ BodyRefs = <<ref>> /\ FromBody = <<1>> \o <<>>
        /\ OptionalRef(tx.has_payload, tx.payload) = ref
    BY <1>3 DEF BodyRefs, FromBody, BodyFlag, OptionalRef
  <2> HIDE DEF ref
  <2>2. /\ BodyRefs # <<>> /\ BodyRefs[1] = ref /\ Tail(BodyRefs) = <<>>
    BY <1>2, <2>1
  <2>3. At(r, <<1>> \o <<>>, BodyRefs, vals)
    BY <2>1
  <2> QED BY <1>1, <1>2, <2>1, <2>2, <2>3, ReadMaybePresent
<1>4. CASE ~Is(tx.has_payload)
  <2>1. /\ BodyRefs = <<>> /\ FromBody = <<0>> \o <<>>
        /\ OptionalRef(tx.has_payload, tx.payload) = <<>>
    BY <1>4 DEF BodyRefs, FromBody, BodyFlag, OptionalRef
  <2>2. At(r, <<0>> \o <<>>, <<>>, vals)
    BY <2>1
  <2> QED BY <1>1, <2>1, <2>2, ReadMaybeAbsent
<1> QED BY <1>3, <1>4

(* What a wallet reads in the message.                                     *)
LEMMA MessageRead ==
  ASSUME GoodFields, NEW m, m = ReadBy(MessageSchema, [bits |-> FromInfo, refs |-> MessageRefs])
  PROVE  /\ m.ok
         /\ m.values.bounce = tx.bounce
         /\ m.values.dest = BytesBits(tx.to)
         /\ m.values.value = BytesBits(Amount(tx.value))
         /\ m.values.init = OptionalRef(tx.has_state_init, tx.state_init)
         /\ m.values.body = OptionalRef(tx.has_payload, tx.payload)
<1> DEFINE cell == [bits |-> FromInfo, refs |-> MessageRefs]
           R  == MessageRefs
           v2 == Holding(<<>>, "ihr_disabled", <<1>>)
           v3 == Holding(v2, "bounce", tx.bounce)
           v6 == Holding(v3, "dest", BytesBits(tx.to))
           v7 == Holding(v6, "value", BytesBits(Amount(tx.value)))
           v9 == Holding(v7, "ihr_fee", <<>>)
           v10 == Holding(v9, "fwd_fee", <<>>)
           v11 == Holding(v10, "created_lt", UintBits(0, LongLen * ByteBits))
           v12 == Holding(v11, "created_at", UintBits(0, WordLen * ByteBits))
           v13 == Holding(v12, "init", OptionalRef(tx.has_state_init, tx.state_init))
           v14 == Holding(v13, "body", OptionalRef(tx.has_payload, tx.payload))
<1>1. PICK P : MessageSchema \in Seq(P)
  BY MessageParts
<1>2. PICK run : /\ ReadRun(run, cell, MessageSchema)
                 /\ FoldLeft(ReadPart, Unread(cell), MessageSchema) = run[Len(MessageSchema)]
  BY <1>1, ReadByRuns
<1>3. run[0] = Unread(cell) /\ FoldLeft(ReadPart, Unread(cell), MessageSchema) = run[14]
  BY <1>2, MessageParts DEF ReadRun
<1>4. \A i \in 1..14 : run[i] = ReadPart(run[i - 1], MessageSchema[i])
  BY <1>2, MessageParts DEF ReadRun
<1>5. At(run[0], FromInfo, R, <<>>)
  BY <1>3, StartsUnread
<1> HIDE DEF cell, v2, v3, v6, v7, v9, v10, v11, v12, v13, v14, R
<1>6. MessageTypes
  BY MessageFits
<1>7. /\ <<0>> \in Seq(Bit) /\ <<0, 0>> \in Seq(Bit) /\ <<1, 0, 0>> \in Seq(Bit)
      /\ <<1>> \in Seq(Bit) /\ <<>> \in Seq(Bit) /\ Len(<<1>>) = 1 /\ Len(<<>>) = 0
  BY FewBits
<1>8. At(run[1], FromIhr, R, <<>>)
  <2>1. run[1] = ReadPart(run[0], Part("int_msg_info", "tag", <<0>>))
    <3>1. 1 \in 1..14 /\ 1 - 1 = 0
      OBVIOUS
    <3>2. run[1] = ReadPart(run[1 - 1], MessageSchema[1])
      BY <1>4, <3>1
    <3> QED BY <3>1, <3>2, MessageParts, Zenon
  <2>2. At(run[0], <<0>> \o FromIhr, R, <<>>)
    BY <1>5 DEF FromInfo
  <2>3. <<0>> \in Seq(Bit) /\ FromIhr \in Seq(Bit)
    BY <1>6, <1>7 DEF MessageTypes
  <2> QED BY <2>1, <2>2, <2>3, ReadTagPart
<1>9. At(run[2], FromBounce, R, v2)
  <2>1. run[2] = ReadPart(run[1], Part("ihr_disabled", "uint", 1))
    <3>1. 2 \in 1..14 /\ 2 - 1 = 1
      OBVIOUS
    <3>2. run[2] = ReadPart(run[2 - 1], MessageSchema[2])
      BY <1>4, <3>1
    <3> QED BY <3>1, <3>2, MessageParts, Zenon
  <2>2. At(run[1], <<1>> \o FromBounce, R, <<>>)
    BY <1>8 DEF FromIhr
  <2> QED BY <1>6, <1>7, <2>1, <2>2, ReadUintPart, ZenonT(60) DEF MessageTypes, v2
<1>10. At(run[3], FromBounced, R, v3)
  <2>1. run[3] = ReadPart(run[2], Part("bounce", "uint", 1))
    <3>1. 3 \in 1..14 /\ 3 - 1 = 2
      OBVIOUS
    <3>2. run[3] = ReadPart(run[3 - 1], MessageSchema[3])
      BY <1>4, <3>1
    <3> QED BY <3>1, <3>2, MessageParts, Zenon
  <2>2. At(run[2], tx.bounce \o FromBounced, R, v2)
    BY <1>9 DEF FromBounce
  <2>3. tx.bounce \in Seq(Bit) /\ 1 = Len(tx.bounce)
    BY FewBits, Zenon DEF GoodFields
  <2> QED BY <1>6, <2>1, <2>2, <2>3, ReadUintPart DEF MessageTypes, v3
<1>11. At(run[4], FromSrc, R, v3)
  <2>1. run[4] = ReadPart(run[3], Part("bounced", "tag", <<0>>))
    <3>1. 4 \in 1..14 /\ 4 - 1 = 3
      OBVIOUS
    <3>2. run[4] = ReadPart(run[4 - 1], MessageSchema[4])
      BY <1>4, <3>1
    <3> QED BY <3>1, <3>2, MessageParts, Zenon
  <2>2. At(run[3], <<0>> \o FromSrc, R, v3)
    BY <1>10 DEF FromBounced
  <2>3. <<0>> \in Seq(Bit) /\ FromSrc \in Seq(Bit)
    BY <1>6, <1>7 DEF MessageTypes
  <2> QED BY <2>1, <2>2, <2>3, ReadTagPart
<1>12. At(run[5], FromDest, R, v3)
  <2>1. run[5] = ReadPart(run[4], Part("src", "tag", <<0, 0>>))
    <3>1. 5 \in 1..14 /\ 5 - 1 = 4
      OBVIOUS
    <3>2. run[5] = ReadPart(run[5 - 1], MessageSchema[5])
      BY <1>4, <3>1
    <3> QED BY <3>1, <3>2, MessageParts, Zenon
  <2>2. At(run[4], <<0, 0>> \o FromDest, R, v3)
    BY <1>11 DEF FromSrc
  <2>3. <<0, 0>> \in Seq(Bit) /\ FromDest \in Seq(Bit)
    BY <1>6, <1>7 DEF MessageTypes
  <2> QED BY <2>1, <2>2, <2>3, ReadTagPart
<1>13. At(run[6], FromValue, R, v6)
  <2>1. run[6] = ReadPart(run[5], Part("dest", "address", <<1, 0, 0>>))
    <3>1. 6 \in 1..14 /\ 6 - 1 = 5
      OBVIOUS
    <3>2. run[6] = ReadPart(run[6 - 1], MessageSchema[6])
      BY <1>4, <3>1
    <3> QED BY <3>1, <3>2, MessageParts, Zenon
  <2>2. At(run[5], <<1, 0, 0>> \o (BytesBits(tx.to) \o FromValue), R, v3)
    BY <1>12 DEF FromDest, FromAccount
  <2>3. BytesBits(tx.to) \in Seq(Bit) /\ Len(BytesBits(tx.to)) = ByteBits * (1 + HashLen)
    BY BytesBitsType DEF GoodFields
  <2>4. FromValue \in Seq(Bit) /\ v6 = Holding(v3, "dest", BytesBits(tx.to))
    BY <1>6 DEF MessageTypes, v6
  <2> DEFINE x == BytesBits(tx.to)
  <2> HIDE DEF x
  <2>5. /\ At(run[5], <<1, 0, 0>> \o (x \o FromValue), R, v3)
        /\ x \in Seq(Bit) /\ Len(x) = ByteBits * (1 + HashLen)
        /\ v6 = Holding(v3, "dest", x)
    BY <2>2, <2>3, <2>4 DEF x
  <2>6. <<1, 0, 0>> \in Seq(Bit)
    BY <1>7
  <2> QED BY <2>1, <2>4, <2>5, <2>6, ReadAddressPart
<1>14. At(run[7], FromOther, R, v7)
  <2>1. run[7] = ReadPart(run[6], Part("value", "amount", 0))
    <3>1. 7 \in 1..14 /\ 7 - 1 = 6
      OBVIOUS
    <3>2. run[7] = ReadPart(run[7 - 1], MessageSchema[7])
      BY <1>4, <3>1
    <3> QED BY <3>1, <3>2, MessageParts, Zenon
  <2> DEFINE amount == Amount(tx.value)
             k == Len(amount)
  <2>2. At(run[6], UintBits(k, LengthBits) \o (BytesBits(amount) \o FromOther), R, v6)
    BY <1>13 DEF FromValue, FromAmount
  <2>3. k \in Nat /\ k < 2^LengthBits
    <3>1. amount \in Seq(Nat) /\ k \in 0..MaxValueBytes
      BY DEF GoodFields
    <3>2. MaxValueBytes \in Nat /\ MaxValueBytes < 2^LengthBits /\ 2^LengthBits \in Nat
      BY WidthsAreNumbers, OrderAssumption, TwoPower
    <3> HIDE DEF k
    <3> QED BY <3>1, <3>2
  <2>4. BytesBits(amount) \in Seq(Bit) /\ Len(BytesBits(amount)) = ByteBits * k
    BY BytesBitsType DEF GoodFields
  <2>5. FromOther \in Seq(Bit) /\ v7 = Holding(v6, "value", BytesBits(amount))
    BY <1>6 DEF MessageTypes, v7
  <2> HIDE DEF amount, k
  <2> QED BY <2>1, <2>2, <2>3, <2>4, <2>5, ReadAmountPart
<1>15. At(run[8], FromIhrFee, R, v7)
  <2>1. run[8] = ReadPart(run[7], Part("other", "tag", <<0>>))
    <3>1. 8 \in 1..14 /\ 8 - 1 = 7
      OBVIOUS
    <3>2. run[8] = ReadPart(run[8 - 1], MessageSchema[8])
      BY <1>4, <3>1
    <3> QED BY <3>1, <3>2, MessageParts, Zenon
  <2>2. At(run[7], <<0>> \o FromIhrFee, R, v7)
    BY <1>14 DEF FromOther
  <2>3. <<0>> \in Seq(Bit) /\ FromIhrFee \in Seq(Bit)
    BY <1>6, <1>7 DEF MessageTypes
  <2> QED BY <2>1, <2>2, <2>3, ReadTagPart
<1>16. At(run[9], FromFwdFee, R, v9)
  <2>1. run[9] = ReadPart(run[8], Part("ihr_fee", "amount", 0))
    <3>1. 9 \in 1..14 /\ 9 - 1 = 8
      OBVIOUS
    <3>2. run[9] = ReadPart(run[9 - 1], MessageSchema[9])
      BY <1>4, <3>1
    <3> QED BY <3>1, <3>2, MessageParts, Zenon
  <2>2. At(run[8], UintBits(0, LengthBits) \o (<<>> \o FromFwdFee), R, v7)
    <3>1. FromFwdFee \in Seq(Bit)
      BY <1>6 DEF MessageTypes
    <3>2. <<>> \o FromFwdFee = FromFwdFee
      BY <3>1, NothingBefore
    <3> QED BY <1>15, <3>2 DEF FromIhrFee
  <2>3. 0 \in Nat /\ 0 < 2^LengthBits
    <3>1. 2^LengthBits \in Nat \ {0}
      BY WidthsAreNumbers, TwoPower
    <3> QED BY <3>1
  <2>4. ByteBits * 0 = 0
    BY WidthsAreNumbers
  <2>5. FromFwdFee \in Seq(Bit) /\ v9 = Holding(v7, "ihr_fee", <<>>)
    BY <1>6 DEF MessageTypes, v9
  <2> QED BY <1>7, <2>1, <2>2, <2>3, <2>4, <2>5, ReadAmountPart, ZenonT(60)
<1>17. At(run[10], FromCreatedLt, R, v10)
  <2>1. run[10] = ReadPart(run[9], Part("fwd_fee", "amount", 0))
    <3>1. 10 \in 1..14 /\ 10 - 1 = 9
      OBVIOUS
    <3>2. run[10] = ReadPart(run[10 - 1], MessageSchema[10])
      BY <1>4, <3>1
    <3> QED BY <3>1, <3>2, MessageParts, Zenon
  <2>2. At(run[9], UintBits(0, LengthBits) \o (<<>> \o FromCreatedLt), R, v9)
    <3>1. FromCreatedLt \in Seq(Bit)
      BY <1>6 DEF MessageTypes
    <3>2. <<>> \o FromCreatedLt = FromCreatedLt
      BY <3>1, NothingBefore
    <3> QED BY <1>16, <3>2 DEF FromFwdFee
  <2>3. 0 \in Nat /\ 0 < 2^LengthBits
    <3>1. 2^LengthBits \in Nat \ {0}
      BY WidthsAreNumbers, TwoPower
    <3> QED BY <3>1
  <2>4. ByteBits * 0 = 0
    BY WidthsAreNumbers
  <2>5. FromCreatedLt \in Seq(Bit) /\ v10 = Holding(v9, "fwd_fee", <<>>)
    BY <1>6 DEF MessageTypes, v10
  <2> QED BY <1>7, <2>1, <2>2, <2>3, <2>4, <2>5, ReadAmountPart, ZenonT(60)
<1>18. At(run[11], FromCreatedAt, R, v11)
  <2>1. run[11] = ReadPart(run[10], Part("created_lt", "uint", LongLen * ByteBits))
    <3>1. 11 \in 1..14 /\ 11 - 1 = 10
      OBVIOUS
    <3>2. run[11] = ReadPart(run[11 - 1], MessageSchema[11])
      BY <1>4, <3>1
    <3> QED BY <3>1, <3>2, MessageParts, Zenon
  <2>2. At(run[10], UintBits(0, LongLen * ByteBits) \o FromCreatedAt, R, v10)
    BY <1>17 DEF FromCreatedLt
  <2> DEFINE n == LongLen * ByteBits
             x == UintBits(0, n)
  <2>3. n \in Nat
    BY WidthsAreNumbers
  <2>4. x \in Seq(Bit) /\ n = Len(x)
    <3> HIDE DEF n
    <3> QED BY <2>3, UintBitsType
  <2>5. v11 = Holding(v10, "created_lt", x)
    BY DEF v11
  <2>6. FromCreatedAt \in Seq(Bit)
    BY <1>6 DEF MessageTypes
  <2> HIDE DEF n, x
  <2> QED BY <2>1, <2>2, <2>4, <2>5, <2>6, ReadUintPart DEF n, x
<1>19. At(run[12], FromInit, R, v12)
  <2>1. run[12] = ReadPart(run[11], Part("created_at", "uint", WordLen * ByteBits))
    <3>1. 12 \in 1..14 /\ 12 - 1 = 11
      OBVIOUS
    <3>2. run[12] = ReadPart(run[12 - 1], MessageSchema[12])
      BY <1>4, <3>1
    <3> QED BY <3>1, <3>2, MessageParts, Zenon
  <2>2. At(run[11], UintBits(0, WordLen * ByteBits) \o FromInit, R, v11)
    BY <1>18 DEF FromCreatedAt
  <2> DEFINE n == WordLen * ByteBits
             x == UintBits(0, n)
  <2>3. n \in Nat
    BY WidthsAreNumbers
  <2>4. x \in Seq(Bit) /\ n = Len(x)
    <3> HIDE DEF n
    <3> QED BY <2>3, UintBitsType
  <2>5. v12 = Holding(v11, "created_at", x)
    BY DEF v12
  <2>6. FromInit \in Seq(Bit)
    BY <1>6 DEF MessageTypes
  <2> HIDE DEF n, x
  <2> QED BY <2>1, <2>2, <2>4, <2>5, <2>6, ReadUintPart DEF n, x
<1>20. At(run[13], FromBody, BodyRefs, v13)
  <2>1. run[13] = ReadPart(run[12], Part("init", "maybe^", <<1, 1>>))
    <3>1. 13 \in 1..14 /\ 13 - 1 = 12
      OBVIOUS
    <3>2. run[13] = ReadPart(run[13 - 1], MessageSchema[13])
      BY <1>4, <3>1
    <3> QED BY <3>1, <3>2, MessageParts, Zenon
  <2> QED BY <1>19, <2>1, ReadInit DEF R, v13
<1>21. At(run[14], <<>>, <<>>, v14)
  <2>1. run[14] = ReadPart(run[13], Part("body", "maybe^", <<1>>))
    <3>1. 14 \in 1..14 /\ 14 - 1 = 13
      OBVIOUS
    <3>2. run[14] = ReadPart(run[14 - 1], MessageSchema[14])
      BY <1>4, <3>1
    <3> QED BY <3>1, <3>2, MessageParts, Zenon
  <2> QED BY <1>20, <2>1, ReadBody DEF v14
<1>22. m.ok /\ m.values = v14
  BY <1>3, <1>21, ReadToTheEnd DEF cell
<1>23. Has(v14, "bounce", tx.bounce)
  <2>1. Has(v3, "bounce", tx.bounce)
    BY HasNew DEF v3
  <2>2. Has(v6, "bounce", tx.bounce)
    BY <2>1, HasStill DEF v6
  <2>3. Has(v7, "bounce", tx.bounce)
    BY <2>2, HasStill DEF v7
  <2>4. Has(v9, "bounce", tx.bounce)
    BY <2>3, HasStill DEF v9
  <2>5. Has(v10, "bounce", tx.bounce)
    BY <2>4, HasStill DEF v10
  <2>6. Has(v11, "bounce", tx.bounce)
    BY <2>5, HasStill DEF v11
  <2>7. Has(v12, "bounce", tx.bounce)
    BY <2>6, HasStill DEF v12
  <2>8. Has(v13, "bounce", tx.bounce)
    BY <2>7, HasStill DEF v13
  <2>9. Has(v14, "bounce", tx.bounce)
    BY <2>8, HasStill DEF v14
  <2> QED BY <2>9
<1>24. Has(v14, "dest", BytesBits(tx.to))
  <2>1. Has(v6, "dest", BytesBits(tx.to))
    BY HasNew DEF v6
  <2>2. Has(v7, "dest", BytesBits(tx.to))
    BY <2>1, HasStill DEF v7
  <2>3. Has(v9, "dest", BytesBits(tx.to))
    BY <2>2, HasStill DEF v9
  <2>4. Has(v10, "dest", BytesBits(tx.to))
    BY <2>3, HasStill DEF v10
  <2>5. Has(v11, "dest", BytesBits(tx.to))
    BY <2>4, HasStill DEF v11
  <2>6. Has(v12, "dest", BytesBits(tx.to))
    BY <2>5, HasStill DEF v12
  <2>7. Has(v13, "dest", BytesBits(tx.to))
    BY <2>6, HasStill DEF v13
  <2>8. Has(v14, "dest", BytesBits(tx.to))
    BY <2>7, HasStill DEF v14
  <2> QED BY <2>8
<1>25. Has(v14, "value", BytesBits(Amount(tx.value)))
  <2>1. Has(v7, "value", BytesBits(Amount(tx.value)))
    BY HasNew DEF v7
  <2>2. Has(v9, "value", BytesBits(Amount(tx.value)))
    BY <2>1, HasStill DEF v9
  <2>3. Has(v10, "value", BytesBits(Amount(tx.value)))
    BY <2>2, HasStill DEF v10
  <2>4. Has(v11, "value", BytesBits(Amount(tx.value)))
    BY <2>3, HasStill DEF v11
  <2>5. Has(v12, "value", BytesBits(Amount(tx.value)))
    BY <2>4, HasStill DEF v12
  <2>6. Has(v13, "value", BytesBits(Amount(tx.value)))
    BY <2>5, HasStill DEF v13
  <2>7. Has(v14, "value", BytesBits(Amount(tx.value)))
    BY <2>6, HasStill DEF v14
  <2> QED BY <2>7
<1>26. Has(v14, "init", OptionalRef(tx.has_state_init, tx.state_init))
  <2>1. Has(v13, "init", OptionalRef(tx.has_state_init, tx.state_init))
    BY HasNew DEF v13
  <2>2. Has(v14, "init", OptionalRef(tx.has_state_init, tx.state_init))
    BY <2>1, HasStill DEF v14
  <2> QED BY <2>2
<1>27. Has(v14, "body", OptionalRef(tx.has_payload, tx.payload))
  <2>1. Has(v14, "body", OptionalRef(tx.has_payload, tx.payload))
    BY HasNew DEF v14
  <2> QED BY <2>1
<1> QED BY <1>22, <1>23, <1>24, <1>25, <1>26, <1>27 DEF Has

(* What a wallet reads in the order.                                       *)
LEMMA OrderRead ==
  ASSUME GoodFields, NEW message, NEW R, message \in R,
         NEW o, o = ReadBy(OrderSchema, [bits |-> FromWallet, refs |-> <<message>>])
  PROVE  /\ o.ok
         /\ o.values.wallet = UintBits(Wallet, WordLen * ByteBits)
         /\ o.values.timeout = BytesBits(tx.timeout)
         /\ o.values.seqno = BytesBits(tx.seqno)
         /\ o.values.send_mode = BytesBits(tx.send_mode)
         /\ o.values.message = message
<1> DEFINE cell == [bits |-> FromWallet, refs |-> <<message>>]
           W  == WordLen * ByteBits
           wallet == UintBits(Wallet, W)
           op == UintBits(0, ByteBits)
           v1 == Holding(<<>>, "wallet", wallet)
           v2 == Holding(v1, "timeout", BytesBits(tx.timeout))
           v3 == Holding(v2, "seqno", BytesBits(tx.seqno))
           v5 == Holding(v3, "send_mode", BytesBits(tx.send_mode))
           v6 == Holding(v5, "message", message)
<1>1. PICK P : OrderSchema \in Seq(P)
  BY OrderParts
<1>2. PICK run : /\ ReadRun(run, cell, OrderSchema)
                 /\ FoldLeft(ReadPart, Unread(cell), OrderSchema) = run[Len(OrderSchema)]
  BY <1>1, ReadByRuns
<1>3. run[0] = Unread(cell) /\ FoldLeft(ReadPart, Unread(cell), OrderSchema) = run[6]
  BY <1>2, OrderParts DEF ReadRun
<1>4. \A i \in 1..6 : run[i] = ReadPart(run[i - 1], OrderSchema[i])
  BY <1>2, OrderParts DEF ReadRun
<1>5. At(run[0], FromWallet, <<message>>, <<>>)
  BY <1>3, StartsUnread
<1>6. /\ 1 \in 1..6 /\ 2 \in 1..6 /\ 3 \in 1..6 /\ 4 \in 1..6 /\ 5 \in 1..6 /\ 6 \in 1..6
      /\ 1 - 1 = 0 /\ 2 - 1 = 1 /\ 3 - 1 = 2 /\ 4 - 1 = 3 /\ 5 - 1 = 4 /\ 6 - 1 = 5
  OBVIOUS
<1>7. /\ BytesBits(tx.send_mode) \in Seq(Bit) /\ Len(BytesBits(tx.send_mode)) = ByteBits
      /\ BytesBits(tx.seqno) \in Seq(Bit) /\ Len(BytesBits(tx.seqno)) = W
      /\ BytesBits(tx.timeout) \in Seq(Bit) /\ Len(BytesBits(tx.timeout)) = W
      /\ wallet \in Seq(Bit) /\ Len(wallet) = W /\ op \in Seq(Bit)
      /\ FromMode \in Seq(Bit) /\ FromOp \in Seq(Bit) /\ FromSeqno \in Seq(Bit)
      /\ FromTimeout \in Seq(Bit)
  BY OrderFits DEF OrderTypes
<1>8. /\ FromMode = BytesBits(tx.send_mode) \o <<>> /\ FromOp = op \o FromMode
      /\ FromSeqno = BytesBits(tx.seqno) \o FromOp
      /\ FromTimeout = BytesBits(tx.timeout) \o FromSeqno /\ FromWallet = wallet \o FromTimeout
  BY DEF FromMode, FromOp, FromSeqno, FromTimeout, FromWallet
<1>9. /\ OrderSchema[1] = Part("wallet", "uint", W)
      /\ OrderSchema[2] = Part("timeout", "uint", W) /\ OrderSchema[3] = Part("seqno", "uint", W)
      /\ OrderSchema[4] = Part("op", "tag", op)
      /\ OrderSchema[5] = Part("send_mode", "uint", ByteBits)
      /\ OrderSchema[6] = Part("message", "^", 0)
  BY OrderParts
<1> DEFINE t == BytesBits(tx.timeout)
           s == BytesBits(tx.seqno)
           d == BytesBits(tx.send_mode)
<1> HIDE DEF cell, v1, v2, v3, v5, v6, W, wallet, op, t, s, d
<1>10. At(run[1], FromTimeout, <<message>>, v1)
  <2>1. run[1] = ReadPart(run[0], Part("wallet", "uint", W))
    BY <1>4, <1>6, <1>9, Zenon
  <2>2. At(run[0], wallet \o FromTimeout, <<message>>, <<>>)
    BY <1>5, <1>8
  <2> QED BY <1>7, <2>1, <2>2, ReadUintPart DEF v1
<1>11. At(run[2], FromSeqno, <<message>>, v2)
  <2>1. run[2] = ReadPart(run[1], Part("timeout", "uint", W))
    BY <1>4, <1>6, <1>9, Zenon
  <2>2. At(run[1], t \o FromSeqno, <<message>>, v1)
    BY <1>8, <1>10 DEF t
  <2>3. t \in Seq(Bit) /\ W = Len(t) /\ FromSeqno \in Seq(Bit) /\ v2 = Holding(v1, "timeout", t)
    BY <1>7 DEF t, v2
  <2> QED BY <2>1, <2>2, <2>3, ReadUintPart
<1>12. At(run[3], FromOp, <<message>>, v3)
  <2>1. run[3] = ReadPart(run[2], Part("seqno", "uint", W))
    BY <1>4, <1>6, <1>9, Zenon
  <2>2. At(run[2], s \o FromOp, <<message>>, v2)
    BY <1>8, <1>11 DEF s
  <2>3. s \in Seq(Bit) /\ W = Len(s) /\ FromOp \in Seq(Bit) /\ v3 = Holding(v2, "seqno", s)
    BY <1>7 DEF s, v3
  <2> QED BY <2>1, <2>2, <2>3, ReadUintPart
<1>13. At(run[4], FromMode, <<message>>, v3)
  <2>1. run[4] = ReadPart(run[3], Part("op", "tag", op))
    BY <1>4, <1>6, <1>9, Zenon
  <2>2. At(run[3], op \o FromMode, <<message>>, v3)
    BY <1>8, <1>12
  <2> QED BY <1>7, <2>1, <2>2, ReadTagPart
<1>14. At(run[5], <<>>, <<message>>, v5)
  <2>1. run[5] = ReadPart(run[4], Part("send_mode", "uint", ByteBits))
    BY <1>4, <1>6, <1>9, Zenon
  <2>2. At(run[4], d \o <<>>, <<message>>, v3)
    BY <1>8, <1>13 DEF d
  <2>3. d \in Seq(Bit) /\ ByteBits = Len(d) /\ <<>> \in Seq(Bit)
        /\ v5 = Holding(v3, "send_mode", d)
    BY <1>7, FewBits DEF d, v5
  <2> QED BY <2>1, <2>2, <2>3, ReadUintPart
<1>15. At(run[6], <<>>, <<>>, v6)
  <2>1. run[6] = ReadPart(run[5], Part("message", "^", 0))
    BY <1>4, <1>6, <1>9, Zenon
  <2> DEFINE links == <<message>>
  <2>2. links \in Seq(R) /\ links # <<>> /\ links[1] = message /\ Tail(links) = <<>>
    OBVIOUS
  <2>3. At(run[5], <<>>, links, v5) /\ v6 = Holding(v5, "message", message)
    BY <1>14 DEF v6
  <2> HIDE DEF links
  <2> QED BY <2>1, <2>2, <2>3, ReadRefPart
<1>16. o.ok /\ o.values = v6
  BY <1>3, <1>15, ReadToTheEnd DEF cell
<1>17. Has(v6, "wallet", UintBits(Wallet, WordLen * ByteBits))
  <2>1. Has(v1, "wallet", UintBits(Wallet, WordLen * ByteBits))
    BY HasNew DEF v1, wallet, W
  <2>2. Has(v2, "wallet", UintBits(Wallet, WordLen * ByteBits))
    BY <2>1, HasStill DEF v2
  <2>3. Has(v3, "wallet", UintBits(Wallet, WordLen * ByteBits))
    BY <2>2, HasStill DEF v3
  <2>4. Has(v5, "wallet", UintBits(Wallet, WordLen * ByteBits))
    BY <2>3, HasStill DEF v5
  <2>5. Has(v6, "wallet", UintBits(Wallet, WordLen * ByteBits))
    BY <2>4, HasStill DEF v6
  <2> QED BY <2>5
<1>18. Has(v6, "timeout", BytesBits(tx.timeout))
  <2>1. Has(v2, "timeout", BytesBits(tx.timeout))
    BY HasNew DEF v2
  <2>2. Has(v3, "timeout", BytesBits(tx.timeout))
    BY <2>1, HasStill DEF v3
  <2>3. Has(v5, "timeout", BytesBits(tx.timeout))
    BY <2>2, HasStill DEF v5
  <2>4. Has(v6, "timeout", BytesBits(tx.timeout))
    BY <2>3, HasStill DEF v6
  <2> QED BY <2>4
<1>19. Has(v6, "seqno", BytesBits(tx.seqno))
  <2>1. Has(v3, "seqno", BytesBits(tx.seqno))
    BY HasNew DEF v3
  <2>2. Has(v5, "seqno", BytesBits(tx.seqno))
    BY <2>1, HasStill DEF v5
  <2>3. Has(v6, "seqno", BytesBits(tx.seqno))
    BY <2>2, HasStill DEF v6
  <2> QED BY <2>3
<1>20. Has(v6, "send_mode", BytesBits(tx.send_mode))
  <2>1. Has(v5, "send_mode", BytesBits(tx.send_mode))
    BY HasNew DEF v5
  <2>2. Has(v6, "send_mode", BytesBits(tx.send_mode))
    BY <2>1, HasStill DEF v6
  <2> QED BY <2>2
<1>21. Has(v6, "message", message)
  <2>1. Has(v6, "message", message)
    BY HasNew DEF v6
  <2> QED BY <2>1
<1> QED BY <1>16, <1>17, <1>18, <1>19, <1>20, <1>21 DEF Has

-----------------------------------------------------------------------------
(* What the wallet reads in the order is what the request said.            *)
LEMMA AcceptedOrder ==
  ASSUME TypeOK, FieldsInForm, OrderHashed, Accepted,
         NEW o, o = ReadBy(OrderSchema, CellOf(order)),
         NEW m, m = ReadBy(MessageSchema, CellOf(o.values.message.hash))
  PROVE  /\ GoodFields /\ o.values.message = Message
         /\ CellOf(o.values.message.hash) = [bits |-> FromInfo, refs |-> MessageRefs]
<1>1. GoodFields /\ order = Representation(OrderBits, <<Message>>)
  BY FieldsAreGood DEF OrderHashed
<1>2. CellOf(order) = [bits |-> FromWallet, refs |-> <<Message>>]
  BY <1>1, OrderCell
<1>3. Message \in {Message}
  OBVIOUS
<1> HIDE DEF Message
<1>4. o = ReadBy(OrderSchema, [bits |-> FromWallet, refs |-> <<Message>>])
  BY <1>2
<1>5. o.values.message = Message
  BY <1>1, <1>3, <1>4, OrderRead
<1> QED BY <1>1, <1>5, MessageCell

(* hash.c: the signed order says what the request said.                    *)
THEOREM OrderIsReadBack == Spec => []OrderReadsBack
<1>1. ASSUME TypeOK, FieldsInForm, OrderHashed
      PROVE  OrderReadsBack
  <2>1. SUFFICES
          ASSUME Accepted,
                 NEW o, o = ReadBy(OrderSchema, CellOf(order)),
                 NEW m, m = ReadBy(MessageSchema, CellOf(o.values.message.hash))
          PROVE  /\ o.ok /\ m.ok
                 /\ o.values.wallet = UintBits(Wallet, WordLen * ByteBits)
                 /\ o.values.timeout = BytesBits(tx.timeout)
                 /\ o.values.seqno = BytesBits(tx.seqno)
                 /\ o.values.send_mode = BytesBits(tx.send_mode)
                 /\ m.values.bounce = tx.bounce
                 /\ m.values.dest = BytesBits(tx.to)
                 /\ m.values.value = BytesBits(Amount(tx.value))
                 /\ m.values.init = OptionalRef(tx.has_state_init, tx.state_init)
                 /\ m.values.body = OptionalRef(tx.has_payload, tx.payload)
    BY DEF OrderReadsBack
  <2>2. /\ GoodFields
        /\ CellOf(o.values.message.hash) = [bits |-> FromInfo, refs |-> MessageRefs]
    BY <1>1, <2>1, AcceptedOrder
  <2>3. CellOf(order) = [bits |-> FromWallet, refs |-> <<Message>>]
    BY <1>1, <2>1, <2>2, OrderCell DEF OrderHashed
  <2>4. Message \in {Message}
    OBVIOUS
  <2>5. /\ o.ok /\ o.values.wallet = UintBits(Wallet, WordLen * ByteBits)
        /\ o.values.timeout = BytesBits(tx.timeout)
        /\ o.values.seqno = BytesBits(tx.seqno)
        /\ o.values.send_mode = BytesBits(tx.send_mode)
    <3>1. o = ReadBy(OrderSchema, [bits |-> FromWallet, refs |-> <<Message>>])
      BY <2>1, <2>3
    <3> QED BY <2>2, <2>4, <3>1, OrderRead, Zenon
  <2>6. m = ReadBy(MessageSchema, [bits |-> FromInfo, refs |-> MessageRefs])
    BY <2>1, <2>2
  <2> QED BY <2>2, <2>5, <2>6, MessageRead
<1> QED BY <1>1, RequestInvariant, FieldsInvariant, OrderIsHashed, PTL DEF RequestInv

(* cell.c: the depth of the message is above those of what it refers to.   *)
THEOREM DepthIsAbove == Spec => []DepthAboveReferences
<1>1. ASSUME TypeOK, FieldsInForm, OrderHashed
      PROVE  DepthAboveReferences
  <2>1. SUFFICES
          ASSUME Accepted,
                 NEW o, o = ReadBy(OrderSchema, CellOf(order)),
                 NEW inner, inner = ToSet(CellOf(o.values.message.hash).refs),
                 \A ref \in inner : ref.max_depth < DepthByte * DepthByte - 1,
                 NEW ref \in inner
          PROVE  o.values.message.max_depth > ref.max_depth
    BY DEF DepthAboveReferences
  <2>2. /\ GoodFields /\ o.values.message = Message
        /\ CellOf(o.values.message.hash) = [bits |-> FromInfo, refs |-> MessageRefs]
    BY <1>1, <2>1, AcceptedOrder
  <2>3. inner = ToSet(MessageRefs) /\ MessageRefs \in Seq(References)
    BY <2>1, <2>2, MessageRefsAre
  <2>4. PICK i \in 1..Len(MessageRefs) : ref = MessageRefs[i]
    <3>1. DOMAIN MessageRefs = 1..Len(MessageRefs)
      BY <2>3
    <3> QED BY <2>1, <2>3, <3>1 DEF ToSet
  <2>5. MessageRefs # <<>>
    BY <2>3, <2>4
  <2>6. PICK k \in 1..Len(MessageRefs) :
          /\ \A j \in 1..Len(MessageRefs) : MessageRefs[j].max_depth <= MessageRefs[k].max_depth
          /\ CellDepth(MessageRefs) =
               (MessageRefs[k].max_depth + 1) % (DepthByte * DepthByte)
    BY <2>3, <2>5, CellDepthIs
  <2>7. Message.max_depth = CellDepth(MessageRefs)
    BY DEF Message, HashCell, Ref
  <2> DEFINE D == DepthByte * DepthByte
             deepest == MessageRefs[k].max_depth
             depth == MessageRefs[i].max_depth
  <2>8. deepest \in Nat /\ depth \in Nat /\ depth <= deepest
    <3>1. MessageRefs[i] \in References /\ MessageRefs[k] \in References
      BY <2>3
    <3>2. MessageRefs[i].max_depth \in Nat /\ MessageRefs[k].max_depth \in Nat
      BY <3>1 DEF References
    <3>3. MessageRefs[i].max_depth <= MessageRefs[k].max_depth
      BY <2>6
    <3> QED BY <3>2, <3>3
  <2>9. MessageRefs[k] \in inner
    BY <2>3 DEF ToSet
  <2>10. deepest < D - 1 /\ D \in Nat \ {0}
    BY <2>1, <2>9, DepthRange
  <2>11. CellDepth(MessageRefs) = (deepest + 1) % D
    BY <2>6
  <2> HIDE DEF D, deepest
  <2>12. (deepest + 1) % D = deepest + 1
    <3>1. deepest + 1 \in 0..(D - 1) /\ 0 \in Nat
      BY <2>8, <2>10
    <3>2. (D * 0 + (deepest + 1)) % D = deepest + 1
      BY <2>10, <3>1, Quotient
    <3>3. D * 0 + (deepest + 1) = deepest + 1
      BY <2>8, <2>10
    <3> QED BY <3>2, <3>3
  <2> QED BY <2>2, <2>4, <2>7, <2>8, <2>11, <2>12
<1> QED BY <1>1, RequestInvariant, FieldsInvariant, OrderIsHashed, PTL DEF RequestInv
=============================================================================
