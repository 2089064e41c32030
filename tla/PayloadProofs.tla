--------------------------- MODULE PayloadProofs ---------------------------
(***************************************************************************)
(* The cell that TxParser makes of the hints and compares with the payload *)
(* is the comment or the transfer that the lines of the review show, read  *)
(* back from its bits and references by a reader that knows the schemas    *)
(* alone, for any widths, limits and requests.                             *)
(***************************************************************************)
EXTENDS TxParserProofs

-----------------------------------------------------------------------------
(***************************************************************************)
(* The cell the hints describe.  h[i] is what there is after the first i   *)
(* fields of a transfer with these values.                                 *)
(***************************************************************************)
LinesOf(f, value, e) ==
  IF f.name \in DOMAIN JettonLine /\ (JettonLine[f.name].expert => e)
  THEN <<[item |-> JettonLine[f.name].item, body |-> JettonBody(f, value)]>>
  ELSE <<>>

AfterField(f, vals, e, c) ==
  LET absent == Missing(f, vals)
      v == IF absent THEN <<>> ELSE vals[f.name]
  IN  [bits  |-> JettonStored(c.bits, f, v, absent),
       refs  |-> IF absent \/ f.kind # "cellref" THEN c.refs ELSE Append(c.refs, CellRef(v)),
       lines |-> IF absent THEN c.lines ELSE c.lines \o LinesOf(f, v, e)]

NoFields ==
  [bits |-> StoreUint(NoBits, JettonOp, WordLen * ByteBits), refs |-> <<>>, lines |-> <<>>]

Made(n, vals, e, h) ==
  /\ h[0] = NoFields
  /\ \A i \in 1..n : h[i] = AfterField(JettonLayout[i], vals, e, h[i - 1])

Described == [bits |-> bits, refs |-> refs, lines |-> lines]

FieldInForm(f, vals) == Missing(f, vals) \/ InForm(f, vals[f.name])

TransferInForm(n) == \A i \in 1..n : FieldInForm(JettonLayout[i], jetton)

TransferMade(n) == TransferInForm(n) /\ \E h : Made(n, jetton, expert, h) /\ h[n] = Described

CommentMade ==
  /\ Len(tx.hints_data) <= MaxMemo
  /\ bits = StoreBuffer(StoreUint(NoBits, 0, WordLen * ByteBits), tx.hints_data)
  /\ refs = <<>> /\ lines = <<[item |-> "Comment", body |-> tx.hints_data]>>

HintsType == BytesNumber(tx.hints_type)
PayloadHash == CellRef(tx.payload).hash

PayloadMade ==
  /\ HintsType = TRANSACTION_COMMENT => CommentMade
  /\ HintsType = TRANSACTION_TRANSFER_JETTON => TransferMade(10)

PayloadCompared ==
  HintsType \in {TRANSACTION_COMMENT, TRANSACTION_TRANSFER_JETTON}
    => cells[PayloadHash] = Representation(bits, refs)

(* transaction_hints.c: within a transfer the cell is what the fields read *)
(* so far say, and so are the lines; once the hints are processed they are *)
(* the comment's or the whole transfer's; behind the comparison the        *)
(* payload is the hash of that cell.                                       *)
PayloadInv ==
  /\ pc = "jetton" => HintsType = TRANSACTION_TRANSFER_JETTON /\ TransferMade(at - 1)
  /\ pc = "compare" => PayloadMade
  /\ (pc \in {"end", "hash"} \/ Accepted) /\ Is(tx.has_payload)
       => PayloadMade /\ PayloadCompared

(* Each flag of a transfer is a field in front of what it is about.        *)
JettonFlagOf(i) ==
  JettonLayout[i].when # ""
    => \E k \in 1..(i - 1) : JettonLayout[i].when = JettonLayout[k].name

(* They are.                                                               *)
LEMMA JettonFlags == \A i \in 1..10 : JettonFlagOf(i)
<1>1. \A i \in 1..10 : i \in {1, 2, 3, 4, 5, 6, 7, 8, 9, 10}
  OBVIOUS
<1>2. /\ JettonLayout[1].when = "" /\ JettonLayout[3].when = "" /\ JettonLayout[4].when = ""
      /\ JettonLayout[5].when = "" /\ JettonLayout[6].when = "" /\ JettonLayout[8].when = ""
      /\ JettonLayout[9].when = ""
  BY DEF JettonLayout, Field
<1>3. /\ JettonLayout[2].when = JettonLayout[1].name
      /\ JettonLayout[7].when = JettonLayout[6].name
      /\ JettonLayout[10].when = JettonLayout[9].name
  BY DEF JettonLayout, Field
<1>4. 1 \in 1..(2 - 1) /\ 6 \in 1..(7 - 1) /\ 9 \in 1..(10 - 1)
  OBVIOUS
<1>5. JettonFlagOf(2) /\ JettonFlagOf(7) /\ JettonFlagOf(10)
  BY <1>3, <1>4, Zenon DEF JettonFlagOf
<1>6. /\ JettonFlagOf(1) /\ JettonFlagOf(3) /\ JettonFlagOf(4) /\ JettonFlagOf(5)
      /\ JettonFlagOf(6) /\ JettonFlagOf(8) /\ JettonFlagOf(9)
  BY <1>2, Zenon DEF JettonFlagOf
<1> QED BY <1>1, <1>5, <1>6

SameField(f, more, vals) ==
  more[f.name] = vals[f.name] /\ (Missing(f, more) <=> Missing(f, vals))

(* Storing a field leaves those before it and their flags.                 *)
LEMMA EarlierFields ==
  ASSUME NEW vals \in Values(JettonLayout), NEW n \in 1..10, NEW v,
         NEW more, more = Stored(vals, JettonLayout[n].name, v), NEW i \in 1..10, i < n
  PROVE  SameField(JettonLayout[i], more, vals)
<1>1. ASSUME NEW k \in 1..10, k < n
      PROVE  more[JettonLayout[k].name] = vals[JettonLayout[k].name]
  <2>1. JettonLayout[k].name # JettonLayout[n].name
    BY <1>1, JettonReadable DEF Readable
  <2>2. JettonLayout[k].name \in DOMAIN vals
    BY JettonReadable, ValueType
  <2> QED BY <2>1, <2>2 DEF Stored
<1>2. ASSUME JettonLayout[i].when # ""
      PROVE  more[JettonLayout[i].when] = vals[JettonLayout[i].when]
  <2>1. PICK k \in 1..(i - 1) : JettonLayout[i].when = JettonLayout[k].name
    BY <1>2, JettonFlags DEF JettonFlagOf
  <2>2. k \in 1..10 /\ k < n
    OBVIOUS
  <2> QED BY <1>1, <2>1, <2>2
<1> QED BY <1>1, <1>2, Zenon DEF Missing, SameField

(* So what they have made stays made.                                      *)
LEMMA MadeStill ==
  ASSUME NEW n \in 0..10, NEW vals, NEW more, NEW e, NEW h,
         \A i \in 1..n : SameField(JettonLayout[i], more, vals),
         Made(n, vals, e, h)
  PROVE  Made(n, more, e, h)
<1>1. ASSUME NEW i \in 1..n, NEW c
      PROVE  AfterField(JettonLayout[i], more, e, c) = AfterField(JettonLayout[i], vals, e, c)
  <2>1. CASE Missing(JettonLayout[i], vals)
    <3>1. Missing(JettonLayout[i], more)
      BY <2>1, Zenon DEF SameField
    <3> QED BY <2>1, <3>1 DEF AfterField, Missing
  <2>2. CASE ~Missing(JettonLayout[i], vals)
    <3>1. ~Missing(JettonLayout[i], more)
      BY <2>2, Zenon DEF SameField
    <3>2. more[JettonLayout[i].name] = vals[JettonLayout[i].name]
      BY Zenon DEF SameField
    <3> QED BY <2>2, <3>1, <3>2 DEF AfterField, Missing
  <2> QED BY <2>1, <2>2
<1> QED BY <1>1, Zenon DEF Made

(* The next field is one more.                                             *)
LEMMA MadeOneMore ==
  ASSUME NEW n \in 0..9, NEW vals, NEW e, NEW h, Made(n, vals, e, h), NEW c,
         c = AfterField(JettonLayout[n + 1], vals, e, h[n])
  PROVE  \E g : Made(n + 1, vals, e, g) /\ g[n + 1] = c
<1> DEFINE g == [i \in 0..(n + 1) |-> IF i = n + 1 THEN c ELSE h[i]]
<1>1. g[n + 1] = c /\ \A i \in 0..n : g[i] = h[i]
  OBVIOUS
<1> HIDE DEF g
<1>2. ASSUME NEW i \in 1..(n + 1)
      PROVE  g[i] = AfterField(JettonLayout[i], vals, e, g[i - 1])
  <2>1. CASE i = n + 1
    <3>1. i - 1 = n /\ n \in 0..n
      BY <2>1
    <3> QED BY <1>1, <2>1, <3>1, Zenon
  <2>2. CASE i # n + 1
    <3>1. i \in 1..n /\ i \in 0..n /\ i - 1 \in 0..n
      BY <2>2
    <3> QED BY <1>1, <3>1, Zenon DEF Made
  <2> QED BY <2>1, <2>2
<1>3. g[0] = NoFields
  <2>1. 0 \in 0..n
    OBVIOUS
  <2> QED BY <1>1, <2>1, Zenon DEF Made
<1> QED BY <1>1, <1>2, <1>3 DEF Made

(* The lines of a field are those of its title under the setting.          *)
LEMMA LinesAre == ASSUME NEW f, NEW v PROVE JettonLines(f, v) = LinesOf(f, v, expert)
BY DEF JettonLines, LinesOf

(* A step within a transfer: one more field is in the cell and the lines.  *)
LEMMA FieldMade ==
  ASSUME PayloadInv, pc = "jetton", at \in 1..10, jetton \in Values(JettonLayout),
         UNCHANGED <<pc, tx, expert>>, at' = at + 1,
         jetton' \in Values(JettonLayout),
         NEW v, jetton' = jetton \/ jetton' = Stored(jetton, JettonLayout[at].name, v),
         FieldInForm(JettonLayout[at], jetton'),
         Described' = AfterField(JettonLayout[at], jetton', expert, Described)
  PROVE  PayloadInv'
<1> DEFINE n == at - 1
<1>1. n \in 0..9 /\ n + 1 = at /\ at' - 1 = at
  OBVIOUS
<1>2. TransferInForm(n) /\ HintsType = TRANSACTION_TRANSFER_JETTON
  BY DEF PayloadInv, TransferMade
<1>3. PICK h : Made(n, jetton, expert, h) /\ h[n] = Described
  BY DEF PayloadInv, TransferMade
<1> HIDE DEF n
<1>4. ASSUME NEW i \in 1..10, i < at
      PROVE  SameField(JettonLayout[i], jetton', jetton)
  <2>1. CASE jetton' = jetton
    BY <2>1, Zenon DEF SameField
  <2>2. CASE jetton' = Stored(jetton, JettonLayout[at].name, v)
    BY <1>4, <2>2, EarlierFields
  <2> QED BY <2>1, <2>2
<1>5. Made(n, jetton', expert, h)
  <2>1. n \in 0..10 /\ \A i \in 1..n : i \in 1..10 /\ i < at
    BY <1>1
  <2>2. \A i \in 1..n : SameField(JettonLayout[i], jetton', jetton)
    BY <1>4, <2>1, Zenon
  <2> QED BY <1>3, <2>1, <2>2, MadeStill, Zenon
<1>6. \E g : Made(at, jetton', expert, g) /\ g[at] = Described'
  <2>1. Described' = AfterField(JettonLayout[n + 1], jetton', expert, h[n])
    BY <1>1, <1>3, Zenon
  <2>2. \E g : Made(n + 1, jetton', expert, g) /\ g[n + 1] = Described'
    BY <1>1, <1>5, <2>1, MadeOneMore
  <2> QED BY <1>1, <2>2, Zenon
<1>7. ASSUME NEW i \in 1..at
      PROVE  FieldInForm(JettonLayout[i], jetton')
  <2>1. CASE i = at
    BY <2>1, Zenon
  <2>2. CASE i # at
    <3>1. i \in 1..10 /\ i < at /\ i \in 1..n
      BY <1>1, <2>2
    <3> QED BY <1>2, <1>4, <3>1, Zenon DEF TransferInForm, FieldInForm, SameField
  <2> QED BY <2>1, <2>2
<1>8. TransferMade(at - 1)'
  <2>1. TransferInForm(at - 1)'
    BY <1>1, <1>7 DEF TransferInForm
  <2>2. \E g : Made(at' - 1, jetton', expert', g) /\ g[at' - 1] = Described'
    BY <1>1, <1>6
  <2> QED BY <2>1, <2>2, Zenon DEF TransferMade
<1>9. pc' = "jetton" /\ HintsType' = TRANSACTION_TRANSFER_JETTON
  BY <1>2 DEF HintsType
<1> QED BY <1>8, <1>9 DEF PayloadInv, Accepted

-----------------------------------------------------------------------------
(* Reading a field does not take its own flag away.                        *)
LEMMA StillThere ==
  ASSUME NEW vals \in Values(JettonLayout), NEW n \in 1..10, NEW v,
         NEW more, more = Stored(vals, JettonLayout[n].name, v),
         ~Missing(JettonLayout[n], vals)
  PROVE  ~Missing(JettonLayout[n], more) /\ more[JettonLayout[n].name] = v
<1>1. ASSUME JettonLayout[n].when # ""
      PROVE  more[JettonLayout[n].when] = vals[JettonLayout[n].when]
  <2>1. PICK k \in 1..(n - 1) : JettonLayout[n].when = JettonLayout[k].name
    BY <1>1, JettonFlags DEF JettonFlagOf
  <2>2. k \in 1..10 /\ k < n
    OBVIOUS
  <2>3. JettonLayout[k].name # JettonLayout[n].name
    BY <2>2, JettonReadable DEF Readable
  <2>4. JettonLayout[k].name \in DOMAIN vals
    BY <2>2, JettonReadable, ValueType
  <2> QED BY <2>1, <2>3, <2>4 DEF Stored
<1>2. more[JettonLayout[n].name] = v
  <2>1. JettonLayout[n].name \in DOMAIN vals
    BY JettonReadable, ValueType
  <2> QED BY <2>1 DEF Stored
<1> QED BY <1>1, <1>2, Zenon DEF Missing

(* A field that is there.                                                  *)
WithField(f, v, e, c) ==
  [bits  |-> JettonStored(c.bits, f, v, FALSE),
   refs  |-> IF f.kind = "cellref" THEN Append(c.refs, CellRef(v)) ELSE c.refs,
   lines |-> c.lines \o LinesOf(f, v, e)]

(* It is stored, with its reference and its line.                          *)
LEMMA AfterPresent ==
  ASSUME NEW f, NEW vals, ~Missing(f, vals), NEW e, NEW c
  PROVE  AfterField(f, vals, e, c) = WithField(f, vals[f.name], e, c)
<1> DEFINE v == vals[f.name]
<1>1. Missing(f, vals) = FALSE
  BY Zenon DEF Missing
<1>2. (IF Missing(f, vals) THEN <<>> ELSE vals[f.name]) = v
  BY Zenon
<1>3. (IF Missing(f, vals) \/ f.kind # "cellref" THEN c.refs ELSE Append(c.refs, CellRef(v)))
        = IF f.kind = "cellref" THEN Append(c.refs, CellRef(v)) ELSE c.refs
  BY Zenon
<1>4. (IF Missing(f, vals) THEN c.lines ELSE c.lines \o LinesOf(f, v, e)) = c.lines \o LinesOf(f, v, e)
  BY Zenon
<1> QED BY <1>1, <1>2, <1>3, <1>4, Zenon DEF AfterField, WithField

(* What a refusal leaves.                                                  *)
LEMMA FailPayloadInv == ASSUME Fail("HINTS_PARSING_ERROR") PROVE PayloadInv'
BY DEF Fail, PayloadInv, Accepted

(* transaction_hints.c: a field of a transfer.                             *)
LEMMA ReadJettonFieldPayloadInv ==
  ASSUME RequestInv, PayloadInv, ReadJettonField PROVE PayloadInv'
<1> DEFINE f == JettonLayout[at]
           c == [kind |-> f.kind, n |-> f.n]
           r == ReadCall(hbuf, c)
<1>1. /\ pc = "jetton" /\ UNCHANGED expert
      /\ jetton \in Values(JettonLayout) /\ hbuf \in GoodBuffers
      /\ at \in 1..10
  BY JettonFacts, JettonNames DEF ReadJettonField
<1>2. jetton' \in Values(JettonLayout)
  BY ReadJettonFieldRequestInv DEF RequestInv, TypeOK
<1>3. f.kind \in FieldKinds /\ f.n \in Nat
  BY <1>1, JettonKinds
<1>4. CASE Missing(f, jetton)
  <2>1. /\ at' = at + 1 /\ UNCHANGED <<pc, tx, jetton, refs, lines>>
        /\ bits' = JettonStored(bits, f, <<>>, TRUE)
    BY <1>4 DEF ReadJettonField
  <2>2. FieldInForm(f, jetton')
    BY <1>4, <2>1 DEF FieldInForm
  <2>3. Described' = AfterField(f, jetton', expert, Described)
    <3>1. Missing(f, jetton')
      BY <1>4, <2>1
    <3> HIDE DEF f
    <3> QED BY <2>1, <3>1 DEF AfterField, Described
  <2>4. UNCHANGED <<pc, tx, expert>> /\ jetton' = jetton
    BY <1>1, <2>1
  <2> QED BY <1>1, <1>2, <2>1, <2>2, <2>3, <2>4, FieldMade
<1>5. CASE ~Missing(f, jetton) /\ ~r.ok
  <2>1. Fail("HINTS_PARSING_ERROR")
    BY <1>5 DEF ReadJettonField
  <2> QED BY <2>1, FailPayloadInv
<1>6. CASE ~Missing(f, jetton) /\ r.ok
  <2>1. /\ at' = at + 1 /\ UNCHANGED <<pc, tx>>
        /\ jetton' = [jetton EXCEPT ![f.name] = r.value]
        /\ bits' = JettonStored(bits, f, r.value, FALSE)
        /\ refs' = IF f.kind = "cellref" THEN Append(refs, CellRef(r.value)) ELSE refs
        /\ lines' = lines \o JettonLines(f, r.value)
    BY <1>6 DEF ReadJettonField
  <2>2. InForm(f, r.value)
    <3> HIDE DEF f
    <3> QED BY <1>1, <1>3, <1>6, ReadInForm
  <2> HIDE DEF r
  <2>3. jetton' = Stored(jetton, JettonLayout[at].name, r.value)
    BY <2>1 DEF Stored
  <2>4. ~Missing(f, jetton') /\ jetton'[f.name] = r.value
    <3> DEFINE more == jetton'
    <3>1. more = Stored(jetton, JettonLayout[at].name, r.value)
      BY <2>3
    <3> HIDE DEF more
    <3>2. ~Missing(JettonLayout[at], more) /\ more[JettonLayout[at].name] = r.value
      BY <1>1, <1>6, <3>1, StillThere
    <3> QED BY <3>2 DEF more
  <2>5. FieldInForm(f, jetton')
    <3>1. InForm(f, jetton'[f.name])
      <4> HIDE DEF f
      <4> QED BY <2>2, <2>4
    <3> HIDE DEF f
    <3> QED BY <3>1, Zenon DEF FieldInForm
  <2>6. Described' = AfterField(f, jetton', expert, Described)
    <3>1. lines' = lines \o LinesOf(f, r.value, expert)
      BY <2>1, LinesAre, Zenon
    <3> DEFINE more == jetton'
    <3>2. ~Missing(f, more) /\ more[f.name] = r.value
      BY <2>4
    <3> HIDE DEF f, more
    <3>3. AfterField(f, more, expert, Described) = WithField(f, more[f.name], expert, Described)
      BY <3>2, AfterPresent, Zenon
    <3>4. Described' = AfterField(f, more, expert, Described)
      <4>1. Described' = WithField(f, r.value, expert, Described)
        BY <2>1, <3>1 DEF Described, WithField
      <4> QED BY <3>2, <3>3, <4>1, Zenon
    <3> QED BY <3>4 DEF more
  <2>7. UNCHANGED <<pc, tx, expert>>
    BY <1>1, <2>1
  <2> QED BY <1>1, <1>2, <2>1, <2>3, <2>5, <2>6, <2>7, FieldMade
<1> QED BY <1>4, <1>5, <1>6

(* The comment is its cell and its line.                                   *)
LEMMA CommentPayloadInv == ASSUME RequestInv, PayloadInv, Comment PROVE PayloadInv'
<1>1. CASE Len(tx.hints_data) > MaxMemo \/ ~IsAscii(tx.hints_data)
  <2>1. Fail("HINTS_PARSING_ERROR")
    BY <1>1 DEF Comment
  <2> QED BY <2>1, FailPayloadInv
<1>2. CASE ~(Len(tx.hints_data) > MaxMemo \/ ~IsAscii(tx.hints_data))
  <2>1. /\ bits' = StoreBuffer(StoreUint(NoBits, 0, WordLen * ByteBits), tx.hints_data)
        /\ refs' = <<>> /\ lines' = <<[item |-> "Comment", body |-> tx.hints_data]>>
        /\ pc' = "compare" /\ tx' = tx /\ HintsType = TRANSACTION_COMMENT
    BY <1>2 DEF Comment, HintsOfType, ProcessHints, HintsType
  <2>2. tx.hints_data \in Seq(Byte) /\ MaxMemo \in Nat
    BY NamedFields, PayloadAssumption DEF RequestInv, TypeOK
  <2>3. Len(tx.hints_data) <= MaxMemo
    BY <1>2, <2>2
  <2>4. CommentMade' /\ HintsType' = TRANSACTION_COMMENT
    BY <2>1, <2>3 DEF CommentMade, HintsType
  <2> QED BY <2>1, <2>4
          DEF PayloadInv, PayloadMade, Accepted, TRANSACTION_COMMENT, TRANSACTION_TRANSFER_JETTON
<1> QED BY <1>1, <1>2

(* A transfer starts with its operation and nothing else.                  *)
LEMMA StartJettonPayloadInv == ASSUME StartJetton PROVE PayloadInv'
<1>1. /\ bits' = StoreUint(NoBits, JettonOp, WordLen * ByteBits)
      /\ refs' = <<>> /\ lines' = <<>> /\ pc' = "jetton" /\ at' = 1
      /\ tx' = tx /\ HintsType = TRANSACTION_TRANSFER_JETTON
  BY DEF StartJetton, HintsOfType, ProcessHints, HintsType
<1>2. TransferMade(0)'
  <2> DEFINE h == [i \in {0} |-> NoFields]
  <2>1. Made(0, jetton', expert', h) /\ h[0] = Described'
    BY <1>1 DEF Made, Described, NoFields
  <2> HIDE DEF h
  <2>2. TransferInForm(0)'
    BY DEF TransferInForm
  <2> QED BY <2>1, <2>2, Zenon DEF TransferMade
<1>3. TransferMade(at - 1)'
  <2>1. at' - 1 = 0
    BY <1>1
  <2> QED BY <1>2, <2>1, Zenon DEF TransferMade, TransferInForm
<1>4. HintsType' = TRANSACTION_TRANSFER_JETTON
  BY <1>1 DEF HintsType
<1> QED BY <1>1, <1>3, <1>4 DEF PayloadInv, Accepted

(* Hints of no known type describe nothing.                                *)
LEMMA UnknownHintsPayloadInv == ASSUME UnknownHints PROVE PayloadInv'
<1>1. /\ pc' = "compare" /\ tx' = tx
      /\ HintsType \notin {TRANSACTION_COMMENT, TRANSACTION_TRANSFER_JETTON}
  BY DEF UnknownHints, HintsOfType, ProcessHints, HintsType
<1>2. HintsType' = HintsType
  BY <1>1 DEF HintsType
<1>3. PayloadMade'
  BY <1>1, <1>2 DEF PayloadMade
<1> QED BY <1>1, <1>3 DEF PayloadInv, Accepted

(* The last field of a transfer is behind it.                              *)
LEMMA EndJettonPayloadInv == ASSUME RequestInv, PayloadInv, EndJetton PROVE PayloadInv'
<1>1. CASE hbuf.offset # hbuf.size
  <2>1. Fail("HINTS_PARSING_ERROR")
    BY <1>1 DEF EndJetton
  <2> QED BY <2>1, FailPayloadInv
<1>2. CASE hbuf.offset = hbuf.size
  <2>1. pc = "jetton" /\ pc' = "compare" /\ UNCHANGED <<at, tx, jetton, expert, bits, refs, lines>>
    BY <1>2 DEF EndJetton, state
  <2>2. at - 1 = 10
    BY <2>1, JettonFacts, JettonNames DEF EndJetton
  <2>3. HintsType = TRANSACTION_TRANSFER_JETTON /\ TransferMade(10)
    BY <2>1, <2>2 DEF PayloadInv
  <2>4. TransferMade(10)'
    BY <2>1, <2>3 DEF TransferMade, TransferInForm, Described
  <2>5. HintsType' = HintsType
    BY <2>1 DEF HintsType
  <2>6. PayloadMade'
    BY <2>3, <2>4, <2>5 DEF PayloadMade, TRANSACTION_COMMENT, TRANSACTION_TRANSFER_JETTON
  <2> QED BY <2>1, <2>6 DEF PayloadInv, Accepted
<1> QED BY <1>1, <1>2

(* What is described stays so as long as these variables do.               *)
LEMMA PayloadMadeStays ==
  ASSUME UNCHANGED <<cells, tx, jetton, expert, bits, refs, lines>>
  PROVE  PayloadMade' = PayloadMade /\ PayloadCompared' = PayloadCompared
BY DEF PayloadMade, PayloadCompared, CommentMade, TransferMade, TransferInForm, Described,
       HintsType, PayloadHash

(* What is compared is the hash of the cell that is described.             *)
LEMMA ComparePayloadPayloadInv ==
  ASSUME RequestInv, PayloadInv, ComparePayload PROVE PayloadInv'
<1>1. PICK same \in IF BytesNumber(tx.hints_type) <= TRANSACTION_TRANSFER_JETTON
                    THEN {Describes(CellRef(tx.payload))} ELSE BOOLEAN :
        IF same THEN /\ pc' = "end"
                     /\ UNCHANGED <<at, tx, hbuf, jetton, state, order, status>>
        ELSE Fail("HINTS_PARSING_ERROR")
  BY DEF ComparePayload
<1>2. CASE ~same
  BY <1>1, <1>2, FailPayloadInv
<1>3. CASE same
  <2>1. pc = "compare" /\ pc' = "end" /\ UNCHANGED <<cells, tx, jetton, expert, bits, refs, lines>>
    BY <1>1, <1>3 DEF ComparePayload, state
  <2>2. PayloadMade
    BY <2>1 DEF PayloadInv
  <2>3. PayloadCompared
    <3>1. SUFFICES ASSUME HintsType \in {TRANSACTION_COMMENT, TRANSACTION_TRANSFER_JETTON}
                   PROVE  cells[PayloadHash] = Representation(bits, refs)
      BY DEF PayloadCompared
    <3>2. BytesNumber(tx.hints_type) <= TRANSACTION_TRANSFER_JETTON
      BY <3>1 DEF HintsType, TRANSACTION_COMMENT, TRANSACTION_TRANSFER_JETTON
    <3>3. Describes(CellRef(tx.payload))
      BY <1>1, <1>3, <3>2
    <3> QED BY <3>3 DEF Describes, PayloadHash
  <2> QED BY <2>1, <2>2, <2>3, PayloadMadeStays DEF PayloadInv, Accepted
<1> QED BY <1>2, <1>3

(* One case per action.                                                    *)
LEMMA NextPayloadInv == ASSUME RequestInv, PayloadInv, [Next]_vars PROVE PayloadInv'
<1>1. CASE CheckLength
  BY <1>1 DEF CheckLength, Fail, PayloadInv, Accepted
<1>2. CASE ReadTxField
  BY <1>2, ErrorIsNotOk DEF ReadTxField, Fail, PayloadInv, Accepted
<1>3. CASE NoPayload
  BY <1>3 DEF NoPayload, ProcessHints, PayloadInv, Accepted
<1>4. CASE PayloadWithoutHints
  BY <1>4, FailPayloadInv DEF PayloadWithoutHints
<1>5. CASE CheckEnd
  <2>1. CASE buf.offset # buf.size
    BY <1>5, <2>1 DEF CheckEnd, Fail, PayloadInv, Accepted
  <2>2. CASE buf.offset = buf.size
    <3>1. pc = "end" /\ pc' = "hash" /\ UNCHANGED <<cells, tx, jetton, expert, bits, refs, lines>>
      BY <1>5, <2>2 DEF CheckEnd, state
    <3> QED BY <3>1, PayloadMadeStays DEF PayloadInv, Accepted
  <2> QED BY <2>1, <2>2
<1>6. CASE HashTx
  <2>1. pc = "hash" /\ pc' = "done" /\ UNCHANGED <<cells, tx, jetton, expert, bits, refs, lines>>
    BY <1>6 DEF HashTx, state
  <2> QED BY <2>1, PayloadMadeStays DEF PayloadInv, Accepted
<1>7. CASE UNCHANGED vars
  <2>1. UNCHANGED <<cells, tx, jetton, expert, bits, refs, lines>> /\ UNCHANGED <<pc, at, status>>
    BY <1>7 DEF vars, state
  <2>2. TransferMade(at - 1)' = TransferMade(at - 1) /\ HintsType' = HintsType
    BY <2>1 DEF TransferMade, TransferInForm, Described, HintsType
  <2> QED BY <2>1, <2>2, PayloadMadeStays DEF PayloadInv, Accepted
<1> QED BY <1>1, <1>2, <1>3, <1>4, <1>5, <1>6, <1>7, CommentPayloadInv, StartJettonPayloadInv,
           UnknownHintsPayloadInv, ReadJettonFieldPayloadInv, EndJettonPayloadInv,
           ComparePayloadPayloadInv DEF Next

(* The cell and the lines are always those of what has been read.          *)
LEMMA PayloadInvariant == Spec => []PayloadInv
<1>1. ASSUME Init
      PROVE  PayloadInv
  BY <1>1 DEF Init, PayloadInv, Accepted
<1>2. ASSUME RequestInv, PayloadInv, [Next]_vars
      PROVE  PayloadInv'
  BY <1>2, NextPayloadInv
<1> QED BY <1>1, <1>2, RequestInvariant, PTL DEF Spec

GoodTransfer(t) ==
  /\ t.query_id \in Seq(Bit) /\ Len(t.query_id) = LongLen * ByteBits
  /\ t.amount \in Seq(Nat) /\ Len(t.amount) \in 0..MaxValueBytes
  /\ t.destination \in Seq(Nat) /\ Len(t.destination) = 1 + HashLen
  /\ t.response \in Seq(Nat) /\ Len(t.response) = 1 + HashLen
  /\ t.custom \in OneOrNone
  /\ t.forward_amount \in Seq(Nat) /\ Len(t.forward_amount) \in 0..MaxValueBytes
  /\ t.forward \in OneOrNone

(* Its cell, from each of its parts on.                                    *)
FromForward(t)     == FlagOfRef(t.forward) \o <<>>
FromSent(t)        == BytesBits(t.forward_amount) \o FromForward(t)
FromSentLen(t)     == UintBits(Len(t.forward_amount), LengthBits) \o FromSent(t)
FromCustom(t)      == FlagOfRef(t.custom) \o FromSentLen(t)
FromExcess(t)      == BytesBits(t.response) \o FromCustom(t)
FromResponse(t)    == <<1, 0, 0>> \o FromExcess(t)
FromOwner(t)       == BytesBits(t.destination) \o FromResponse(t)
FromDestination(t) == <<1, 0, 0>> \o FromOwner(t)
FromUnits(t)       == BytesBits(t.amount) \o FromDestination(t)
FromUnitsLen(t)    == UintBits(Len(t.amount), LengthBits) \o FromUnits(t)
FromQuery(t)       == t.query_id \o FromUnitsLen(t)
FromTransfer(t)    == UintBits(JettonOp, WordLen * ByteBits) \o FromQuery(t)

TransferTypes(t) ==
  /\ FlagOfRef(t.forward) \in Seq(Bit) /\ FlagOfRef(t.custom) \in Seq(Bit)
  /\ BytesBits(t.amount) \in Seq(Bit) /\ BytesBits(t.forward_amount) \in Seq(Bit)
  /\ BytesBits(t.destination) \in Seq(Bit) /\ BytesBits(t.response) \in Seq(Bit)
  /\ FromForward(t) \in Seq(Bit) /\ FromSent(t) \in Seq(Bit) /\ FromSentLen(t) \in Seq(Bit)
  /\ FromCustom(t) \in Seq(Bit) /\ FromExcess(t) \in Seq(Bit) /\ FromResponse(t) \in Seq(Bit)
  /\ FromOwner(t) \in Seq(Bit) /\ FromDestination(t) \in Seq(Bit) /\ FromUnits(t) \in Seq(Bit)
  /\ FromUnitsLen(t) \in Seq(Bit) /\ FromQuery(t) \in Seq(Bit) /\ FromTransfer(t) \in Seq(Bit)

(* An amount within its limit takes no more bits than the limit.           *)
LEMMA AmountWithin ==
  ASSUME NEW k \in 0..MaxValueBytes
  PROVE  /\ ByteBits * k \in Nat /\ ByteBits * MaxValueBytes \in Nat
         /\ ByteBits * k <= ByteBits * MaxValueBytes
<1>1. k \in Nat /\ k <= MaxValueBytes /\ MaxValueBytes \in Nat /\ ByteBits \in Nat
  BY WidthsAreNumbers
<1>2. MaxValueBytes - k \in Nat /\ ByteBits * (MaxValueBytes - k) \in Nat
  BY <1>1
<1>3. ByteBits * MaxValueBytes = ByteBits * k + ByteBits * (MaxValueBytes - k)
  BY <1>1
<1>4. ByteBits * k \in Nat /\ ByteBits * MaxValueBytes \in Nat
  BY <1>1
<1> QED BY <1>2, <1>3, <1>4

(* Its parts are bits.                                                     *)
LEMMA TransferPieces ==
  ASSUME NEW t, GoodTransfer(t)
  PROVE  /\ FlagOfRef(t.forward) \in Seq(Bit) /\ Len(FlagOfRef(t.forward)) = 1
         /\ FlagOfRef(t.custom) \in Seq(Bit) /\ Len(FlagOfRef(t.custom)) = 1
         /\ BytesBits(t.amount) \in Seq(Bit)
         /\ Len(BytesBits(t.amount)) = ByteBits * Len(t.amount)
         /\ BytesBits(t.forward_amount) \in Seq(Bit)
         /\ Len(BytesBits(t.forward_amount)) = ByteBits * Len(t.forward_amount)
         /\ BytesBits(t.destination) \in Seq(Bit)
         /\ Len(BytesBits(t.destination)) = ByteBits * (1 + HashLen)
         /\ BytesBits(t.response) \in Seq(Bit)
         /\ Len(BytesBits(t.response)) = ByteBits * (1 + HashLen)
         /\ UintBits(Len(t.amount), LengthBits) \in Seq(Bit)
         /\ Len(UintBits(Len(t.amount), LengthBits)) = LengthBits
         /\ UintBits(Len(t.forward_amount), LengthBits) \in Seq(Bit)
         /\ Len(UintBits(Len(t.forward_amount), LengthBits)) = LengthBits
         /\ UintBits(JettonOp, WordLen * ByteBits) \in Seq(Bit)
         /\ Len(UintBits(JettonOp, WordLen * ByteBits)) = WordLen * ByteBits
         /\ t.query_id \in Seq(Bit) /\ Len(t.query_id) = LongLen * ByteBits
<1>1. /\ t.amount \in Seq(Nat) /\ t.forward_amount \in Seq(Nat)
      /\ t.destination \in Seq(Nat) /\ Len(t.destination) = 1 + HashLen
      /\ t.response \in Seq(Nat) /\ Len(t.response) = 1 + HashLen
      /\ t.query_id \in Seq(Bit) /\ Len(t.query_id) = LongLen * ByteBits
  BY DEF GoodTransfer
<1>2. \A r : FlagOfRef(r) \in Seq(Bit) /\ Len(FlagOfRef(r)) = 1
  BY FewBits, Zenon DEF FlagOfRef
<1>3. /\ BytesBits(t.amount) \in Seq(Bit)
      /\ Len(BytesBits(t.amount)) = ByteBits * Len(t.amount)
      /\ BytesBits(t.forward_amount) \in Seq(Bit)
      /\ Len(BytesBits(t.forward_amount)) = ByteBits * Len(t.forward_amount)
  BY <1>1, BytesBitsType
<1>4. /\ BytesBits(t.destination) \in Seq(Bit)
      /\ Len(BytesBits(t.destination)) = ByteBits * (1 + HashLen)
      /\ BytesBits(t.response) \in Seq(Bit)
      /\ Len(BytesBits(t.response)) = ByteBits * (1 + HashLen)
  BY <1>1, BytesBitsType
<1>5. Len(t.amount) \in Nat /\ Len(t.forward_amount) \in Nat
  BY <1>1
<1>6. /\ UintBits(Len(t.amount), LengthBits) \in Seq(Bit)
      /\ Len(UintBits(Len(t.amount), LengthBits)) = LengthBits
      /\ UintBits(Len(t.forward_amount), LengthBits) \in Seq(Bit)
      /\ Len(UintBits(Len(t.forward_amount), LengthBits)) = LengthBits
  BY <1>5, WidthsAreNumbers, UintBitsType
<1>7. /\ UintBits(JettonOp, WordLen * ByteBits) \in Seq(Bit)
      /\ Len(UintBits(JettonOp, WordLen * ByteBits)) = WordLen * ByteBits
  <2>1. JettonOp \in Nat /\ WordLen * ByteBits \in Nat
    BY PayloadAssumption, WidthsAreNumbers
  <2> QED BY <2>1, UintBitsType
<1> QED BY <1>1, <1>2, <1>3, <1>4, <1>6, <1>7

(* The longest transfer fits into a cell.                                  *)
LEMMA TransferFits ==
  ASSUME NEW t, GoodTransfer(t)
  PROVE  TransferTypes(t) /\ Len(FromTransfer(t)) <= Room
<1> DEFINE k == Len(t.amount)
           s == Len(t.forward_amount)
           A == ByteBits * k
           S == ByteBits * s
           H == ByteBits * (1 + HashLen)
           M == ByteBits * MaxValueBytes
           W == WordLen * ByteBits
           L == LongLen * ByteBits
<1>1. k \in 0..MaxValueBytes /\ s \in 0..MaxValueBytes
  BY DEF GoodTransfer
<1>2. A \in Nat /\ S \in Nat /\ M \in Nat /\ A <= M /\ S <= M
  <2> HIDE DEF k, s
  <2> QED BY <1>1, AmountWithin
<1> DEFINE f == FlagOfRef(t.forward)
           c == FlagOfRef(t.custom)
           a1 == UintBits(k, LengthBits)
           a2 == BytesBits(t.amount)
           s1 == UintBits(s, LengthBits)
           s2 == BytesBits(t.forward_amount)
           d == BytesBits(t.destination)
           e == BytesBits(t.response)
           o == UintBits(JettonOp, W)
           q == t.query_id
           z == <<1, 0, 0>>
<1>3. /\ f \in Seq(Bit) /\ Len(f) = 1 /\ c \in Seq(Bit) /\ Len(c) = 1
      /\ a1 \in Seq(Bit) /\ Len(a1) = LengthBits /\ a2 \in Seq(Bit) /\ Len(a2) = A
      /\ s1 \in Seq(Bit) /\ Len(s1) = LengthBits /\ s2 \in Seq(Bit) /\ Len(s2) = S
      /\ d \in Seq(Bit) /\ Len(d) = H /\ e \in Seq(Bit) /\ Len(e) = H
      /\ o \in Seq(Bit) /\ Len(o) = W /\ q \in Seq(Bit) /\ Len(q) = L
      /\ z \in Seq(Bit) /\ Len(z) = 3 /\ <<>> \in Seq(Bit) /\ Len(<<>>) = 0
  BY TransferPieces, FewBits, Zenon
<1>3a. /\ FromForward(t) = f \o <<>> /\ FromSent(t) = s2 \o FromForward(t)
       /\ FromSentLen(t) = s1 \o FromSent(t) /\ FromCustom(t) = c \o FromSentLen(t)
       /\ FromExcess(t) = e \o FromCustom(t) /\ FromResponse(t) = z \o FromExcess(t)
       /\ FromOwner(t) = d \o FromResponse(t) /\ FromDestination(t) = z \o FromOwner(t)
       /\ FromUnits(t) = a2 \o FromDestination(t) /\ FromUnitsLen(t) = a1 \o FromUnits(t)
       /\ FromQuery(t) = q \o FromUnitsLen(t) /\ FromTransfer(t) = o \o FromQuery(t)
  BY Zenon DEF FromForward, FromSent, FromSentLen, FromCustom, FromExcess, FromResponse, FromOwner,
               FromDestination, FromUnits, FromUnitsLen, FromQuery, FromTransfer
<1> HIDE DEF f, c, a1, a2, s1, s2, d, e, o, q, z, k, s, A, S, H, M, W, L
<1>4. FromForward(t) \in Seq(Bit) /\ Len(FromForward(t)) = 1 + Len(<<>>)
  <2>1. f \in Seq(Bit) /\ Len(f) = 1 /\ <<>> \in Seq(Bit)
    BY <1>3
  <2>2. FromForward(t) = f \o <<>>
    BY <1>3a
  <2> QED BY <2>1, <2>2, JoinedAs
<1>5. FromSent(t) \in Seq(Bit) /\ Len(FromSent(t)) = S + Len(FromForward(t))
  <2>1. s2 \in Seq(Bit) /\ Len(s2) = S /\ FromForward(t) \in Seq(Bit)
    BY <1>3, <1>4
  <2>2. FromSent(t) = s2 \o FromForward(t)
    BY <1>3a
  <2> QED BY <2>1, <2>2, JoinedAs
<1>6. FromSentLen(t) \in Seq(Bit) /\ Len(FromSentLen(t)) = LengthBits + Len(FromSent(t))
  <2>1. s1 \in Seq(Bit) /\ Len(s1) = LengthBits /\ FromSent(t) \in Seq(Bit)
    BY <1>3, <1>5
  <2>2. FromSentLen(t) = s1 \o FromSent(t)
    BY <1>3a
  <2> QED BY <2>1, <2>2, JoinedAs
<1>7. FromCustom(t) \in Seq(Bit) /\ Len(FromCustom(t)) = 1 + Len(FromSentLen(t))
  <2>1. c \in Seq(Bit) /\ Len(c) = 1 /\ FromSentLen(t) \in Seq(Bit)
    BY <1>3, <1>6
  <2>2. FromCustom(t) = c \o FromSentLen(t)
    BY <1>3a
  <2> QED BY <2>1, <2>2, Joined
<1>8. FromExcess(t) \in Seq(Bit) /\ Len(FromExcess(t)) = H + Len(FromCustom(t))
  <2>1. e \in Seq(Bit) /\ Len(e) = H /\ FromCustom(t) \in Seq(Bit)
    BY <1>3, <1>7
  <2>2. FromExcess(t) = e \o FromCustom(t)
    BY <1>3a
  <2> QED BY <2>1, <2>2, JoinedAs
<1>9. FromResponse(t) \in Seq(Bit) /\ Len(FromResponse(t)) = 3 + Len(FromExcess(t))
  <2>1. z \in Seq(Bit) /\ Len(z) = 3 /\ FromExcess(t) \in Seq(Bit)
    BY <1>3, <1>8
  <2>2. FromResponse(t) = z \o FromExcess(t)
    BY <1>3a
  <2> QED BY <2>1, <2>2, Joined
<1>10. FromOwner(t) \in Seq(Bit) /\ Len(FromOwner(t)) = H + Len(FromResponse(t))
  <2>1. d \in Seq(Bit) /\ Len(d) = H /\ FromResponse(t) \in Seq(Bit)
    BY <1>3, <1>9
  <2>2. FromOwner(t) = d \o FromResponse(t)
    BY <1>3a
  <2> QED BY <2>1, <2>2, JoinedAs
<1>11. FromDestination(t) \in Seq(Bit) /\ Len(FromDestination(t)) = 3 + Len(FromOwner(t))
  <2>1. z \in Seq(Bit) /\ Len(z) = 3 /\ FromOwner(t) \in Seq(Bit)
    BY <1>3, <1>10
  <2>2. FromDestination(t) = z \o FromOwner(t)
    BY <1>3a
  <2> QED BY <2>1, <2>2, Joined
<1>12. FromUnits(t) \in Seq(Bit) /\ Len(FromUnits(t)) = A + Len(FromDestination(t))
  <2>1. a2 \in Seq(Bit) /\ Len(a2) = A /\ FromDestination(t) \in Seq(Bit)
    BY <1>3, <1>11
  <2>2. FromUnits(t) = a2 \o FromDestination(t)
    BY <1>3a
  <2> QED BY <2>1, <2>2, JoinedAs
<1>13. FromUnitsLen(t) \in Seq(Bit) /\ Len(FromUnitsLen(t)) = LengthBits + Len(FromUnits(t))
  <2>1. a1 \in Seq(Bit) /\ Len(a1) = LengthBits /\ FromUnits(t) \in Seq(Bit)
    BY <1>3, <1>12
  <2>2. FromUnitsLen(t) = a1 \o FromUnits(t)
    BY <1>3a
  <2> QED BY <2>1, <2>2, JoinedAs
<1>14. FromQuery(t) \in Seq(Bit) /\ Len(FromQuery(t)) = L + Len(FromUnitsLen(t))
  <2>1. q \in Seq(Bit) /\ Len(q) = L /\ FromUnitsLen(t) \in Seq(Bit)
    BY <1>3, <1>13
  <2>2. FromQuery(t) = q \o FromUnitsLen(t)
    BY <1>3a
  <2> QED BY <2>1, <2>2, JoinedAs
<1>15. FromTransfer(t) \in Seq(Bit) /\ Len(FromTransfer(t)) = W + Len(FromQuery(t))
  <2>1. o \in Seq(Bit) /\ Len(o) = W /\ FromQuery(t) \in Seq(Bit)
    BY <1>3, <1>14
  <2>2. FromTransfer(t) = o \o FromQuery(t)
    BY <1>3a
  <2> QED BY <2>1, <2>2, JoinedAs
<1>16. /\ Len(FromForward(t)) \in Nat /\ Len(FromSent(t)) \in Nat /\ Len(FromSentLen(t)) \in Nat
       /\ Len(FromCustom(t)) \in Nat /\ Len(FromExcess(t)) \in Nat /\ Len(FromResponse(t)) \in Nat
       /\ Len(FromOwner(t)) \in Nat /\ Len(FromDestination(t)) \in Nat
       /\ Len(FromUnits(t)) \in Nat /\ Len(FromUnitsLen(t)) \in Nat /\ Len(FromQuery(t)) \in Nat
  <2>1. \A u \in Seq(Bit) : Len(u) \in Nat
    OBVIOUS
  <2> QED BY <2>1, <1>4, <1>5, <1>6, <1>7, <1>8, <1>9, <1>10, <1>11, <1>12, <1>13, <1>14, Zenon
<1>17. H \in Nat /\ W \in Nat /\ L \in Nat /\ LengthBits \in Nat
  BY WidthsAreNumbers DEF H, W, L
<1>18. Len(FromTransfer(t)) <= Room
  <2>1. (WordLen + LongLen + 2 * (1 + HashLen + MaxValueBytes)) * ByteBits = W + L + 2 * H + 2 * M
    BY WidthsAreNumbers DEF H, W, L, M
  <2>2. 8 + (WordLen + LongLen + 2 * (1 + HashLen + MaxValueBytes)) * ByteBits + 2 * LengthBits
          <= Room /\ Room \in Nat
    BY PayloadAssumption, WidthsAreNumbers DEF Room
  <2>3. Len(FromExcess(t)) = H + (1 + (LengthBits + (S + 1)))
    BY <1>2, <1>3, <1>4, <1>5, <1>6, <1>7, <1>8, <1>17
  <2>4. Len(FromTransfer(t)) = W + (L + (LengthBits + (A + (3 + (H + (3 + Len(FromExcess(t))))))))
    BY <1>9, <1>10, <1>11, <1>12, <1>13, <1>14, <1>15, <1>16, <1>17
  <2> QED BY <1>2, <1>17, <2>1, <2>2, <2>3, <2>4
<1> QED BY <1>4, <1>5, <1>6, <1>7, <1>8, <1>9, <1>10, <1>11, <1>12, <1>13, <1>14, <1>15, <1>18,
           TransferPieces, Zenon DEF TransferTypes

-----------------------------------------------------------------------------
(* The bit of a payload that is there or not.                              *)
BitOfRef(r) == IF r = <<>> THEN 0 ELSE 1

(* The stores of a transfer make the cell as it is to be read.             *)
LEMMA TransferBuilt ==
  ASSUME NEW t, GoodTransfer(t),
         NEW op, op = StoreUint(NoBits, JettonOp, WordLen * ByteBits),
         NEW query,
         \/ query = StoreUint(op, 0, LongLen * ByteBits)
              /\ t.query_id = UintBits(0, LongLen * ByteBits)
         \/ \E id \in Seq(Nat) : query = StoreBuffer(op, id) /\ t.query_id = BytesBits(id),
         NEW units, units = StoreCoinsBuf(query, t.amount),
         NEW owner, owner = StoreAddress(units, t.destination),
         NEW excess, excess = StoreAddress(owner, t.response),
         NEW custom, custom = StoreBit(excess, BitOfRef(t.custom)),
         NEW sent, sent = StoreCoinsBuf(custom, t.forward_amount)
  PROVE  Holds(StoreBit(sent, BitOfRef(t.forward)), FromTransfer(t))
<1> DEFINE whole == FromTransfer(t)
<1>1. TransferTypes(t) /\ Len(whole) <= Room
  BY TransferFits
<1>2. /\ t.amount \in Seq(Nat) /\ t.forward_amount \in Seq(Nat)
      /\ t.destination \in Seq(Nat) /\ t.response \in Seq(Nat)
  BY DEF GoodTransfer
<1>3. Building(NoBits, whole, whole)
  BY <1>1, NothingBuilt DEF TransferTypes
<1>4. Building(op, FromQuery(t), whole)
  <2>1. JettonOp \in Nat /\ WordLen * ByteBits \in Nat
    BY PayloadAssumption, WidthsAreNumbers
  <2>2. Building(NoBits, UintBits(JettonOp, WordLen * ByteBits) \o FromQuery(t), whole)
    BY <1>3 DEF FromTransfer
  <2> HIDE DEF whole
  <2> QED BY <1>1, <2>1, <2>2, StoreUintBuilds DEF TransferTypes
<1> HIDE DEF whole
<1>5. Building(query, FromUnitsLen(t), whole)
  <2>0. FromUnitsLen(t) \in Seq(Bit) /\ LongLen * ByteBits \in Nat
    BY <1>1, WidthsAreNumbers DEF TransferTypes
  <2>1. Building(op, t.query_id \o FromUnitsLen(t), whole)
    BY <1>4 DEF FromQuery
  <2>2. CASE query = StoreUint(op, 0, LongLen * ByteBits)
               /\ t.query_id = UintBits(0, LongLen * ByteBits)
    BY <2>0, <2>1, <2>2, StoreUintBuilds
  <2>3. CASE \E id \in Seq(Nat) : query = StoreBuffer(op, id) /\ t.query_id = BytesBits(id)
    <3>1. PICK id \in Seq(Nat) : query = StoreBuffer(op, id) /\ t.query_id = BytesBits(id)
      BY <2>3
    <3> QED BY <2>0, <2>1, <3>1, StoreBufferBuilds
  <2> QED BY <2>2, <2>3
<1>6. Building(units, FromDestination(t), whole)
  BY <1>1, <1>2, <1>5, StoreCoinsBufBuilds DEF TransferTypes, FromUnitsLen, FromUnits
<1>7. Building(owner, FromResponse(t), whole)
  BY <1>1, <1>2, <1>6, StoreAddressBuilds DEF TransferTypes, FromDestination, FromOwner
<1>8. Building(excess, FromCustom(t), whole)
  BY <1>1, <1>2, <1>7, StoreAddressBuilds DEF TransferTypes, FromResponse, FromExcess
<1>9. \A r : BitOfRef(r) \in Bit /\ FlagOfRef(r) = <<BitOfRef(r)>>
  BY DEF BitOfRef, FlagOfRef, Bit
<1>10. Building(custom, FromSentLen(t), whole)
  <2>1. Building(excess, <<BitOfRef(t.custom)>> \o FromSentLen(t), whole)
    BY <1>8, <1>9, Zenon DEF FromCustom
  <2> QED BY <1>1, <1>9, <2>1, StoreBitBuilds DEF TransferTypes
<1>11. Building(sent, FromForward(t), whole)
  BY <1>1, <1>2, <1>10, StoreCoinsBufBuilds DEF TransferTypes, FromSentLen, FromSent
<1>12. Building(StoreBit(sent, BitOfRef(t.forward)), <<>>, whole)
  <2>1. Building(sent, <<BitOfRef(t.forward)>> \o <<>>, whole)
    BY <1>9, <1>11, Zenon DEF FromForward
  <2>2. <<>> \in Seq(Bit) /\ BitOfRef(t.forward) \in Bit
    BY <1>9, FewBits
  <2> QED BY <2>1, <2>2, StoreBitBuilds
<1> QED BY <1>12, AllBuilt DEF whole

-----------------------------------------------------------------------------
(* The schema of a transfer, part by part.                                 *)
LEMMA JettonParts ==
  /\ Len(JettonSchema) = 8
  /\ JettonSchema[1] = Part("op", "tag", UintBits(JettonOp, WordLen * ByteBits))
  /\ JettonSchema[2] = Part("query_id", "uint", LongLen * ByteBits)
  /\ JettonSchema[3] = Part("amount", "amount", 0)
  /\ JettonSchema[4] = Part("destination", "address", <<1, 0, 0>>)
  /\ JettonSchema[5] = Part("response_destination", "address", <<1, 0, 0>>)
  /\ JettonSchema[6] = Part("custom_payload", "maybe^", << 1 >>)
  /\ JettonSchema[7] = Part("forward_ton_amount", "amount", 0)
  /\ JettonSchema[8] = Part("forward_payload", "maybe^", << 1 >>)
  /\ \E P : JettonSchema \in Seq(P)
<1> DEFINE p1 == Part("op", "tag", UintBits(JettonOp, WordLen * ByteBits))
           p2 == Part("query_id", "uint", LongLen * ByteBits)
           p3 == Part("amount", "amount", 0)
           p4 == Part("destination", "address", <<1, 0, 0>>)
           p5 == Part("response_destination", "address", <<1, 0, 0>>)
           p6 == Part("custom_payload", "maybe^", <<1>>)
           p7 == Part("forward_ton_amount", "amount", 0)
           p8 == Part("forward_payload", "maybe^", <<1>>)
           P == {p1, p2, p3, p4, p5, p6, p7, p8}
<1>1. JettonSchema = <<p1, p2, p3, p4, p5, p6, p7, p8>>
  BY DEF JettonSchema
<1> HIDE DEF p1, p2, p3, p4, p5, p6, p7, p8
<1>2. JettonSchema \in Seq(P)
  BY <1>1
<1>3. /\ Len(JettonSchema) = 8
      /\ JettonSchema[1] = p1 /\ JettonSchema[2] = p2 /\ JettonSchema[3] = p3
      /\ JettonSchema[4] = p4 /\ JettonSchema[5] = p5 /\ JettonSchema[6] = p6
      /\ JettonSchema[7] = p7 /\ JettonSchema[8] = p8
  BY <1>1
<1> QED BY <1>2, <1>3 DEF p1, p2, p3, p4, p5, p6, p7, p8

-----------------------------------------------------------------------------
(* The length of an amount fits into its bits.                             *)
LEMMA AmountLength ==
  ASSUME NEW k \in 0..MaxValueBytes
  PROVE  k \in Nat /\ k < 2^LengthBits
<1>1. MaxValueBytes \in Nat /\ MaxValueBytes < 2^LengthBits /\ 2^LengthBits \in Nat
  BY WidthsAreNumbers, OrderAssumption, TwoPower
<1> QED BY <1>1

(* What the contract reads in the cell of a transfer.                      *)
LEMMA TransferRead ==
  ASSUME NEW t, GoodTransfer(t),
         NEW m, m = ReadBy(JettonSchema, [bits |-> FromTransfer(t), refs |-> t.custom \o t.forward])
  PROVE  /\ m.ok
         /\ m.values.amount = BytesBits(t.amount)
         /\ m.values.destination = BytesBits(t.destination)
         /\ m.values.response_destination = BytesBits(t.response)
         /\ m.values.custom_payload = RefOf(t.custom)
         /\ m.values.forward_ton_amount = BytesBits(t.forward_amount)
         /\ m.values.forward_payload = RefOf(t.forward)
<1> DEFINE R == t.custom \o t.forward
           cell == [bits |-> FromTransfer(t), refs |-> R]
           v2 == Holding(<<>>, "query_id", t.query_id)
           v3 == Holding(v2, "amount", BytesBits(t.amount))
           v4 == Holding(v3, "destination", BytesBits(t.destination))
           v5 == Holding(v4, "response_destination", BytesBits(t.response))
           v6 == Holding(v5, "custom_payload", RefOf(t.custom))
           v7 == Holding(v6, "forward_ton_amount", BytesBits(t.forward_amount))
           v8 == Holding(v7, "forward_payload", RefOf(t.forward))
<1>1. PICK P : JettonSchema \in Seq(P)
  BY JettonParts
<1>2. PICK run : /\ ReadRun(run, cell, JettonSchema)
                 /\ FoldLeft(ReadPart, Unread(cell), JettonSchema) = run[Len(JettonSchema)]
  BY <1>1, ReadByRuns
<1>3. run[0] = Unread(cell) /\ FoldLeft(ReadPart, Unread(cell), JettonSchema) = run[8]
  BY <1>2, JettonParts DEF ReadRun
<1>4. \A i \in 1..8 : run[i] = ReadPart(run[i - 1], JettonSchema[i])
  BY <1>2, JettonParts DEF ReadRun
<1>5. At(run[0], FromTransfer(t), R, <<>>)
  BY <1>3, StartsUnread
<1>5a. t.custom \in OneOrNone /\ t.forward \in OneOrNone
  BY DEF GoodTransfer
<1>5b. /\ t.forward \in Seq(References) /\ t.forward \o <<>> = t.forward
       /\ <<>> \in Seq(References)
  BY <1>5a, OneOrNoneType
<1>5c. R = t.custom \o t.forward
  OBVIOUS
<1> HIDE DEF cell, v2, v3, v4, v5, v6, v7, v8, R
<1>6. TransferTypes(t)
  BY TransferFits
<1>7. At(run[1], FromQuery(t), R, <<>>)
  <2>1. run[1] = ReadPart(run[0], Part("op", "tag", UintBits(JettonOp, WordLen * ByteBits)))
    <3>1. 1 \in 1..8 /\ 1 - 1 = 0
      OBVIOUS
    <3>2. run[1] = ReadPart(run[1 - 1], JettonSchema[1])
      BY <1>4, <3>1
    <3> QED BY <3>1, <3>2, JettonParts, Zenon
  <2>2. UintBits(JettonOp, WordLen * ByteBits) \in Seq(Bit) /\ FromQuery(t) \in Seq(Bit)
    BY <1>6, TransferPieces DEF TransferTypes
  <2>3. At(run[0], UintBits(JettonOp, WordLen * ByteBits) \o FromQuery(t), R, <<>>)
    BY <1>5 DEF FromTransfer
  <2> DEFINE x == UintBits(JettonOp, WordLen * ByteBits)
  <2> HIDE DEF x
  <2>4. x \in Seq(Bit) /\ At(run[0], x \o FromQuery(t), R, <<>>)
        /\ run[1] = ReadPart(run[0], Part("op", "tag", x))
    BY <2>1, <2>2, <2>3 DEF x
  <2> QED BY <2>2, <2>4, ReadTagPart
<1>8. At(run[2], FromUnitsLen(t), R, v2)
  <2>1. run[2] = ReadPart(run[1], Part("query_id", "uint", LongLen * ByteBits))
    <3>1. 2 \in 1..8 /\ 2 - 1 = 1
      OBVIOUS
    <3>2. run[2] = ReadPart(run[2 - 1], JettonSchema[2])
      BY <1>4, <3>1
    <3> QED BY <3>1, <3>2, JettonParts, Zenon
  <2> DEFINE n == LongLen * ByteBits
             x == t.query_id
  <2>2. At(run[1], x \o FromUnitsLen(t), R, <<>>)
    BY <1>7 DEF FromQuery
  <2>3. x \in Seq(Bit) /\ n = Len(x)
    BY TransferPieces
  <2>4. FromUnitsLen(t) \in Seq(Bit) /\ v2 = Holding(<<>>, "query_id", x)
    BY <1>6 DEF TransferTypes, v2
  <2> HIDE DEF n, x
  <2> QED BY <2>1, <2>2, <2>3, <2>4, ReadUintPart DEF n, x
<1>9. At(run[3], FromDestination(t), R, v3)
  <2>1. run[3] = ReadPart(run[2], Part("amount", "amount", 0))
    <3>1. 3 \in 1..8 /\ 3 - 1 = 2
      OBVIOUS
    <3>2. run[3] = ReadPart(run[3 - 1], JettonSchema[3])
      BY <1>4, <3>1
    <3> QED BY <3>1, <3>2, JettonParts, Zenon
  <2> DEFINE k == Len(t.amount)
             x == BytesBits(t.amount)
  <2>2. At(run[2], UintBits(k, LengthBits) \o (x \o FromDestination(t)), R, v2)
    BY <1>8 DEF FromUnitsLen, FromUnits
  <2>3. k \in Nat /\ k < 2^LengthBits
    BY AmountLength DEF GoodTransfer
  <2>4. x \in Seq(Bit) /\ Len(x) = ByteBits * k
    BY TransferPieces
  <2>5. FromDestination(t) \in Seq(Bit) /\ v3 = Holding(v2, "amount", x)
    BY <1>6 DEF TransferTypes, v3
  <2> HIDE DEF k, x
  <2> QED BY <2>1, <2>2, <2>3, <2>4, <2>5, ReadAmountPart
<1>10. At(run[4], FromResponse(t), R, v4)
  <2>1. run[4] = ReadPart(run[3], Part("destination", "address", <<1, 0, 0>>))
    <3>1. 4 \in 1..8 /\ 4 - 1 = 3
      OBVIOUS
    <3>2. run[4] = ReadPart(run[4 - 1], JettonSchema[4])
      BY <1>4, <3>1
    <3> QED BY <3>1, <3>2, JettonParts, Zenon
  <2> DEFINE x == BytesBits(t.destination)
  <2>2. At(run[3], <<1, 0, 0>> \o (x \o FromResponse(t)), R, v3)
    BY <1>9 DEF FromDestination, FromOwner
  <2>3. x \in Seq(Bit) /\ Len(x) = ByteBits * (1 + HashLen) /\ <<1, 0, 0>> \in Seq(Bit)
    BY TransferPieces, FewBits
  <2>4. FromResponse(t) \in Seq(Bit) /\ v4 = Holding(v3, "destination", x)
    BY <1>6 DEF TransferTypes, v4
  <2> HIDE DEF x
  <2> QED BY <2>1, <2>2, <2>3, <2>4, ReadAddressPart
<1>11. At(run[5], FromCustom(t), R, v5)
  <2>1. run[5] = ReadPart(run[4], Part("response_destination", "address", <<1, 0, 0>>))
    <3>1. 5 \in 1..8 /\ 5 - 1 = 4
      OBVIOUS
    <3>2. run[5] = ReadPart(run[5 - 1], JettonSchema[5])
      BY <1>4, <3>1
    <3> QED BY <3>1, <3>2, JettonParts, Zenon
  <2> DEFINE x == BytesBits(t.response)
  <2>2. At(run[4], <<1, 0, 0>> \o (x \o FromCustom(t)), R, v4)
    BY <1>10 DEF FromResponse, FromExcess
  <2>3. x \in Seq(Bit) /\ Len(x) = ByteBits * (1 + HashLen) /\ <<1, 0, 0>> \in Seq(Bit)
    BY TransferPieces, FewBits
  <2>4. FromCustom(t) \in Seq(Bit) /\ v5 = Holding(v4, "response_destination", x)
    BY <1>6 DEF TransferTypes, v5
  <2> HIDE DEF x
  <2> QED BY <2>1, <2>2, <2>3, <2>4, ReadAddressPart
<1>12. At(run[6], FromSentLen(t), t.forward, v6)
  <2>1. run[6] = ReadPart(run[5], Part("custom_payload", "maybe^", <<1>>))
    <3>1. 6 \in 1..8 /\ 6 - 1 = 5
      OBVIOUS
    <3>2. run[6] = ReadPart(run[6 - 1], JettonSchema[6])
      BY <1>4, <3>1
    <3> QED BY <3>1, <3>2, JettonParts, Zenon
  <2>2. At(run[5], FlagOfRef(t.custom) \o FromSentLen(t), t.custom \o t.forward, v5)
    BY <1>11, <1>5c DEF FromCustom
  <2>3. FromSentLen(t) \in Seq(Bit)
    BY <1>6 DEF TransferTypes
  <2> QED BY <1>5a, <1>5b, <2>1, <2>2, <2>3, ReadRefOf DEF v6
<1>13. At(run[7], FromForward(t), t.forward, v7)
  <2>1. run[7] = ReadPart(run[6], Part("forward_ton_amount", "amount", 0))
    <3>1. 7 \in 1..8 /\ 7 - 1 = 6
      OBVIOUS
    <3>2. run[7] = ReadPart(run[7 - 1], JettonSchema[7])
      BY <1>4, <3>1
    <3> QED BY <3>1, <3>2, JettonParts, Zenon
  <2> DEFINE k == Len(t.forward_amount)
             x == BytesBits(t.forward_amount)
  <2>2. At(run[6], UintBits(k, LengthBits) \o (x \o FromForward(t)), t.forward, v6)
    BY <1>12 DEF FromSentLen, FromSent
  <2>3. k \in Nat /\ k < 2^LengthBits
    BY AmountLength DEF GoodTransfer
  <2>4. x \in Seq(Bit) /\ Len(x) = ByteBits * k
    BY TransferPieces
  <2>5. FromForward(t) \in Seq(Bit) /\ v7 = Holding(v6, "forward_ton_amount", x)
    BY <1>6 DEF TransferTypes, v7
  <2> HIDE DEF k, x
  <2> QED BY <2>1, <2>2, <2>3, <2>4, <2>5, ReadAmountPart
<1>14. At(run[8], <<>>, <<>>, v8)
  <2>1. run[8] = ReadPart(run[7], Part("forward_payload", "maybe^", <<1>>))
    <3>1. 8 \in 1..8 /\ 8 - 1 = 7
      OBVIOUS
    <3>2. run[8] = ReadPart(run[8 - 1], JettonSchema[8])
      BY <1>4, <3>1
    <3> QED BY <3>1, <3>2, JettonParts, Zenon
  <2>2. At(run[7], FlagOfRef(t.forward) \o <<>>, t.forward \o <<>>, v7)
    BY <1>5b, <1>13 DEF FromForward
  <2>3. <<>> \in Seq(Bit)
    BY FewBits
  <2> QED BY <1>5a, <1>5b, <2>1, <2>2, <2>3, ReadRefOf DEF v8
<1>15. m.ok /\ m.values = v8
  BY <1>3, <1>14, ReadToTheEnd DEF cell, R
<1>16. Has(v8, "amount", BytesBits(t.amount))
  <2>1. Has(v3, "amount", BytesBits(t.amount))
    BY HasNew DEF v3
  <2>2. Has(v4, "amount", BytesBits(t.amount))
    BY <2>1, HasStill DEF v4
  <2>3. Has(v5, "amount", BytesBits(t.amount))
    BY <2>2, HasStill DEF v5
  <2>4. Has(v6, "amount", BytesBits(t.amount))
    BY <2>3, HasStill DEF v6
  <2>5. Has(v7, "amount", BytesBits(t.amount))
    BY <2>4, HasStill DEF v7
  <2>6. Has(v8, "amount", BytesBits(t.amount))
    BY <2>5, HasStill DEF v8
  <2> QED BY <2>6
<1>17. Has(v8, "destination", BytesBits(t.destination))
  <2>1. Has(v4, "destination", BytesBits(t.destination))
    BY HasNew DEF v4
  <2>2. Has(v5, "destination", BytesBits(t.destination))
    BY <2>1, HasStill DEF v5
  <2>3. Has(v6, "destination", BytesBits(t.destination))
    BY <2>2, HasStill DEF v6
  <2>4. Has(v7, "destination", BytesBits(t.destination))
    BY <2>3, HasStill DEF v7
  <2>5. Has(v8, "destination", BytesBits(t.destination))
    BY <2>4, HasStill DEF v8
  <2> QED BY <2>5
<1>18. Has(v8, "response_destination", BytesBits(t.response))
  <2>1. Has(v5, "response_destination", BytesBits(t.response))
    BY HasNew DEF v5
  <2>2. Has(v6, "response_destination", BytesBits(t.response))
    BY <2>1, HasStill DEF v6
  <2>3. Has(v7, "response_destination", BytesBits(t.response))
    BY <2>2, HasStill DEF v7
  <2>4. Has(v8, "response_destination", BytesBits(t.response))
    BY <2>3, HasStill DEF v8
  <2> QED BY <2>4
<1>19. Has(v8, "custom_payload", RefOf(t.custom))
  <2>1. Has(v6, "custom_payload", RefOf(t.custom))
    BY HasNew DEF v6
  <2>2. Has(v7, "custom_payload", RefOf(t.custom))
    BY <2>1, HasStill DEF v7
  <2>3. Has(v8, "custom_payload", RefOf(t.custom))
    BY <2>2, HasStill DEF v8
  <2> QED BY <2>3
<1>20. Has(v8, "forward_ton_amount", BytesBits(t.forward_amount))
  <2>1. Has(v7, "forward_ton_amount", BytesBits(t.forward_amount))
    BY HasNew DEF v7
  <2>2. Has(v8, "forward_ton_amount", BytesBits(t.forward_amount))
    BY <2>1, HasStill DEF v8
  <2> QED BY <2>2
<1>21. Has(v8, "forward_payload", RefOf(t.forward))
  <2>1. Has(v8, "forward_payload", RefOf(t.forward))
    BY HasNew DEF v8
  <2> QED BY <2>1
<1> QED BY <1>15, <1>16, <1>17, <1>18, <1>19, <1>20, <1>21 DEF Has

-----------------------------------------------------------------------------
(* The lines of the review, with the bytes they show.                      *)
Titles == {"Comment", "Jetton units", "Send jetton to", "Send excess to", "Custom payload",
           "Forward amount", "Forward payload"}
LineSet == [item : Titles, body : Seq(Nat)]

Line(item, body) == <<[item |-> item, body |-> body]>>
LineOfRef(item, r) == IF r = <<>> THEN <<>> ELSE Line(item, r[1].hash)

TransferLines(t, e) ==
  (Line("Jetton units", t.amount) \o Line("Send jetton to", t.destination))
    \o IF ~e THEN <<>>
       ELSE ((Line("Send excess to", t.response) \o LineOfRef("Custom payload", t.custom))
               \o Line("Forward amount", t.forward_amount))
              \o LineOfRef("Forward payload", t.forward)

ShownLine(l) ==
  [item |-> l.item,
   shows |-> IF l.item \in {"Custom payload", "Forward payload"} THEN l.body
             ELSE BytesBits(l.body)]
ShownLines(ls) == [i \in 1..Len(ls) |-> ShownLine(ls[i])]

(* The lines of two parts are shown one part after the other.              *)
LEMMA ShownJoined ==
  ASSUME NEW S, NEW x \in Seq(S), NEW y \in Seq(S)
  PROVE  ShownLines(x \o y) = ShownLines(x) \o ShownLines(y)
<1> DEFINE both == x \o y
           T == {ShownLine(l) : l \in S}
           sx == ShownLines(x)
           sy == ShownLines(y)
<1>1. /\ both \in Seq(S) /\ Len(both) = Len(x) + Len(y) /\ Len(x) \in Nat /\ Len(y) \in Nat
      /\ \A i \in 1..Len(both) : both[i] = IF i <= Len(x) THEN x[i] ELSE y[i - Len(x)]
  BY ConcatProperties
<1>2. /\ sx \in Seq(T) /\ Len(sx) = Len(x) /\ \A i \in 1..Len(x) : sx[i] = ShownLine(x[i])
      /\ sy \in Seq(T) /\ Len(sy) = Len(y) /\ \A i \in 1..Len(y) : sy[i] = ShownLine(y[i])
  BY DEF ShownLines
<1>3. ShownLines(both) = [i \in 1..Len(both) |-> ShownLine(both[i])]
  BY DEF ShownLines
<1> HIDE DEF both, sx, sy, T
<1>4. /\ sx \o sy \in Seq(T) /\ Len(sx \o sy) = Len(both)
      /\ \A i \in 1..Len(both) : (sx \o sy)[i] = IF i <= Len(x) THEN sx[i] ELSE sy[i - Len(x)]
  BY <1>1, <1>2, ConcatProperties
<1>5. ASSUME NEW i \in 1..Len(both)
      PROVE  (sx \o sy)[i] = ShownLine(both[i])
  <2>1. CASE i <= Len(x)
    <3>1. i \in 1..Len(x)
      BY <1>1, <2>1
    <3> QED BY <1>1, <1>2, <1>4, <2>1, <3>1
  <2>2. CASE ~(i <= Len(x))
    <3>1. i - Len(x) \in 1..Len(y)
      BY <1>1, <2>2
    <3> QED BY <1>1, <1>2, <1>4, <2>2, <3>1
  <2> QED BY <2>1, <2>2
<1>6. sx \o sy = [i \in 1..Len(both) |-> ShownLine(both[i])]
  <2> DEFINE j == sx \o sy
  <2>1. j \in Seq(T) /\ Len(j) = Len(both) /\ Len(both) \in Nat
    BY <1>1, <1>4
  <2>2. \A i \in 1..Len(both) : j[i] = ShownLine(both[i])
    BY <1>5
  <2> HIDE DEF j
  <2>3. j = [i \in 1..Len(j) |-> j[i]]
    BY <2>1
  <2>4. j = [i \in 1..Len(both) |-> ShownLine(both[i])]
    BY <2>1, <2>2, <2>3
  <2> QED BY <2>4, Zenon DEF j
<1>7. ShownLines(both) = sx \o sy
  BY <1>3, <1>6, Zenon
<1> QED BY <1>7, Zenon DEF both, sx, sy

(* What one line shows: the hash of a payload as it is, all else in bits.  *)
LEMMA ShownOne ==
  ASSUME NEW item, NEW body
  PROVE  /\ item \notin {"Custom payload", "Forward payload"}
              => ShownLines(Line(item, body)) = Shown(item, BytesBits(body))
         /\ item \in {"Custom payload", "Forward payload"}
              => ShownLines(Line(item, body)) = Shown(item, body)
<1> DEFINE l == [item |-> item, body |-> body]
<1>1. ShownLines(Line(item, body)) = <<ShownLine(l)>>
  <2>1. Len(<<l>>) = 1 /\ <<l>>[1] = l
    OBVIOUS
  <2> HIDE DEF l
  <2>2. [i \in 1..Len(<<l>>) |-> ShownLine(<<l>>[i])] = <<ShownLine(l)>>
    BY <2>1
  <2> QED BY <2>2 DEF ShownLines, Line, l
<1>2. l.item = item /\ l.body = body
  OBVIOUS
<1> HIDE DEF l
<1>3. CASE item \notin {"Custom payload", "Forward payload"}
  <2>1. ShownLine(l) = [item |-> item, shows |-> BytesBits(body)]
    BY <1>2, <1>3 DEF ShownLine
  <2> QED BY <1>1, <1>3, <2>1 DEF Shown
<1>4. CASE item \in {"Custom payload", "Forward payload"}
  <2>1. ShownLine(l) = [item |-> item, shows |-> body]
    BY <1>2, <1>4 DEF ShownLine
  <2> QED BY <1>1, <1>4, <2>1 DEF Shown
<1> QED BY <1>3, <1>4

(* A line with bytes is one of the lines.                                  *)
LEMMA LineType ==
  ASSUME NEW item \in Titles, NEW body \in Seq(Nat) PROVE Line(item, body) \in Seq(LineSet)
BY DEF Line, LineSet

(* No line shows nothing.                                                  *)
LEMMA ShownNone == ShownLines(<<>>) = <<>> /\ <<>> \in Seq(LineSet)
<1> DEFINE none == [i \in 1..Len(<<>>) |-> ShownLine(<<>>[i])]
           T == {ShownLine(<<>>[i]) : i \in 1..Len(<<>>)}
<1>1. Len(<<>>) = 0
  OBVIOUS
<1>2. none \in Seq(T) /\ Len(none) = 0
  BY <1>1
<1> HIDE DEF none, T
<1>3. none = <<>>
  BY <1>2, EmptySeq
<1>4. ShownLines(<<>>) = none
  BY Zenon DEF ShownLines, none
<1>5. <<>> \in Seq(LineSet)
  OBVIOUS
<1> QED BY <1>3, <1>4, <1>5, Zenon

(* The line of a payload is there if the payload is.                       *)
LEMMA ShownOfRef ==
  ASSUME NEW one \in OneOrNone, NEW item \in {"Custom payload", "Forward payload"}
  PROVE  /\ ShownLines(LineOfRef(item, one)) = ShownRef(item, RefOf(one))
         /\ LineOfRef(item, one) \in Seq(LineSet)
<1>1. CASE one = <<>>
  <2>1. LineOfRef(item, one) = <<>> /\ RefOf(one) = <<>>
    BY <1>1 DEF LineOfRef, RefOf
  <2>2. ShownLines(<<>>) = <<>> /\ <<>> \in Seq(LineSet)
    BY ShownNone, Zenon
  <2>3. ShownRef(item, <<>>) = <<>>
    BY Zenon DEF ShownRef
  <2> QED BY <2>1, <2>2, <2>3, Zenon
<1>2. CASE one # <<>>
  <2>1. PICK ref \in References : one = <<ref>>
    BY <1>2 DEF OneOrNone
  <2>2. ref # <<>> /\ ref.hash \in Seq(Nat)
    BY RefIsThere
  <2>3. LineOfRef(item, one) = Line(item, ref.hash) /\ RefOf(one) = ref
    BY <1>2, <2>1 DEF LineOfRef, RefOf
  <2>4. ShownRef(item, ref) = Shown(item, ref.hash)
    BY <2>2 DEF ShownRef
  <2>5. ShownLines(Line(item, ref.hash)) = Shown(item, ref.hash)
    BY ShownOne
  <2>6. Line(item, ref.hash) \in Seq(LineSet)
    BY <2>2, LineType, Zenon DEF Titles
  <2> QED BY <2>3, <2>4, <2>5, <2>6
<1> QED BY <1>1, <1>2

-----------------------------------------------------------------------------
(* Two parts with their lines.                                             *)
LEMMA ShownBoth ==
  ASSUME NEW x \in Seq(LineSet), NEW y \in Seq(LineSet)
  PROVE  x \o y \in Seq(LineSet) /\ ShownLines(x \o y) = ShownLines(x) \o ShownLines(y)
<1>1. x \o y \in Seq(LineSet)
  BY ConcatProperties
<1>2. ShownLines(x \o y) = ShownLines(x) \o ShownLines(y)
  BY ShownJoined
<1> QED BY <1>1, <1>2

(* What the lines of a transfer show is what the contract reads in it.     *)
LEMMA TransferShown ==
  ASSUME NEW t, GoodTransfer(t), NEW v,
         v.amount = BytesBits(t.amount), v.destination = BytesBits(t.destination),
         v.response_destination = BytesBits(t.response), v.custom_payload = RefOf(t.custom),
         v.forward_ton_amount = BytesBits(t.forward_amount),
         v.forward_payload = RefOf(t.forward)
  PROVE  ShownLines(TransferLines(t, expert)) = JettonReview(v)
<1> DEFINE A == Line("Jetton units", t.amount)
           B == Line("Send jetton to", t.destination)
           C == Line("Send excess to", t.response)
           D == LineOfRef("Custom payload", t.custom)
           G == Line("Forward amount", t.forward_amount)
           H == LineOfRef("Forward payload", t.forward)
           sa == Shown("Jetton units", v.amount)
           sb == Shown("Send jetton to", v.destination)
           sc == Shown("Send excess to", v.response_destination)
           sd == ShownRef("Custom payload", v.custom_payload)
           sg == Shown("Forward amount", v.forward_ton_amount)
           sh == ShownRef("Forward payload", v.forward_payload)
<1>1. /\ t.amount \in Seq(Nat) /\ t.destination \in Seq(Nat) /\ t.response \in Seq(Nat)
      /\ t.forward_amount \in Seq(Nat) /\ t.custom \in OneOrNone /\ t.forward \in OneOrNone
  BY DEF GoodTransfer
<1>2. /\ A \in Seq(LineSet) /\ B \in Seq(LineSet) /\ C \in Seq(LineSet) /\ G \in Seq(LineSet)
  BY <1>1, LineType, Zenon DEF Titles
<1>3. ShownLines(A) = sa /\ ShownLines(B) = sb /\ ShownLines(C) = sc /\ ShownLines(G) = sg
  <2>1. /\ ShownLines(A) = Shown("Jetton units", BytesBits(t.amount))
        /\ ShownLines(B) = Shown("Send jetton to", BytesBits(t.destination))
        /\ ShownLines(C) = Shown("Send excess to", BytesBits(t.response))
        /\ ShownLines(G) = Shown("Forward amount", BytesBits(t.forward_amount))
    BY ShownOne, Zenon
  <2> QED BY <2>1, Zenon
<1>4. ShownLines(D) = sd /\ D \in Seq(LineSet) /\ ShownLines(H) = sh /\ H \in Seq(LineSet)
  BY <1>1, ShownOfRef
<1>5. TransferLines(t, expert) = (A \o B) \o IF ~expert THEN <<>> ELSE ((C \o D) \o G) \o H
  BY Zenon DEF TransferLines
<1>6. JettonReview(v) = (sa \o sb) \o IF ~expert THEN <<>> ELSE ((sc \o sd) \o sg) \o sh
  BY Zenon DEF JettonReview
<1> HIDE DEF A, B, C, D, G, H, sa, sb, sc, sd, sg, sh
<1>7. A \o B \in Seq(LineSet) /\ ShownLines(A \o B) = sa \o sb
  BY <1>2, <1>3, ShownBoth, Zenon
<1>8. CASE ~expert
  <2>1. ShownLines((A \o B) \o <<>>) = (sa \o sb) \o <<>>
    BY <1>7, ShownNone, ShownBoth, Zenon
  <2>2. TransferLines(t, expert) = (A \o B) \o <<>> /\ JettonReview(v) = (sa \o sb) \o <<>>
    BY <1>5, <1>6, <1>8, Zenon
  <2> QED BY <2>1, <2>2
<1>9. CASE ~~expert
  <2>1. C \o D \in Seq(LineSet) /\ ShownLines(C \o D) = sc \o sd
    BY <1>2, <1>3, <1>4, ShownBoth, Zenon
  <2>2. (C \o D) \o G \in Seq(LineSet) /\ ShownLines((C \o D) \o G) = (sc \o sd) \o sg
    BY <1>2, <1>3, <2>1, ShownBoth, Zenon
  <2> DEFINE X == ((C \o D) \o G) \o H
             sx == ((sc \o sd) \o sg) \o sh
  <2>3. X \in Seq(LineSet) /\ ShownLines(X) = sx
    BY <1>4, <2>2, ShownBoth, Zenon
  <2>4. TransferLines(t, expert) = (A \o B) \o X /\ JettonReview(v) = (sa \o sb) \o sx
    BY <1>5, <1>6, <1>9, Zenon
  <2> HIDE DEF X, sx
  <2>5. ShownLines((A \o B) \o X) = (sa \o sb) \o sx
    BY <1>7, <2>3, ShownBoth, Zenon
  <2> QED BY <2>4, <2>5
<1> QED BY <1>8, <1>9

-----------------------------------------------------------------------------
(* The fields of a transfer.                                               *)
JettonFieldsAre ==
  /\ JettonLayout[1] = Field("has_query_id", "bool", 0, "")
  /\ JettonLayout[2] = Field("query_id", "BE", LongLen, "has_query_id")
  /\ JettonLayout[3] = Field("amount", "varuint", MaxValueBytes, "")
  /\ JettonLayout[4] = Field("destination", "address", 0, "")
  /\ JettonLayout[5] = Field("response", "address", 0, "")
  /\ JettonLayout[6] = Field("has_custom_payload", "bool", 0, "")
  /\ JettonLayout[7] = Field("custom_payload", "cellref", 0, "has_custom_payload")
  /\ JettonLayout[8] = Field("forward_amount", "varuint", MaxValueBytes, "")
  /\ JettonLayout[9] = Field("has_forward_payload", "bool", 0, "")
  /\ JettonLayout[10] = Field("forward_payload", "cellref", 0, "has_forward_payload")

(* As the layout lists them.                                               *)
LEMMA JettonLayoutSays == JettonFieldsAre
BY DEF JettonFieldsAre, JettonLayout

(* A field without a flag is there.                                        *)
LEMMA AlwaysThere ==
  ASSUME NEW name, NEW kind, NEW n, NEW vals
  PROVE  ~Missing(Field(name, kind, n, ""), vals)
<1>1. Field(name, kind, n, "").when = ""
  BY Zenon DEF Field
<1> QED BY <1>1, Zenon DEF Missing

(* One with a flag is there if the flag is set.                            *)
LEMMA ThereByFlag ==
  ASSUME NEW name, NEW kind, NEW n, NEW vals,
         NEW flag \in {"has_query_id", "has_custom_payload", "has_forward_payload"}
  PROVE  Missing(Field(name, kind, n, flag), vals) <=> ~Is(vals[flag])
<1>1. Field(name, kind, n, flag).when = flag
  BY Zenon DEF Field
<1>2. flag # ""
  BY Zenon
<1> QED BY <1>1, <1>2, Zenon DEF Missing

(* What a field stores that is there, and one that is not.                 *)
Kept(s, f, v) == JettonStored(s, f, v, FALSE)
Left(s, f) == JettonStored(s, f, <<>>, TRUE)

(* A flag stores nothing.                                                  *)
LEMMA FlagStores ==
  ASSUME NEW f, f.kind = "bool", NEW s, NEW v,
         f.name \in {"has_query_id", "has_custom_payload", "has_forward_payload"}
  PROVE  Kept(s, f, v) = s
BY DEF Kept, JettonStored

(* The query_id is its bytes, or zero.                                     *)
LEMMA QueryStores ==
  ASSUME NEW f, f.name = "query_id", f.kind = "BE", NEW s, NEW v
  PROVE  Left(s, f) = StoreUint(s, 0, LongLen * ByteBits) /\ Kept(s, f, v) = StoreBuffer(s, v)
BY DEF Kept, Left, JettonStored

(* An amount is stored as one.                                             *)
LEMMA AmountStores ==
  ASSUME NEW f, f.kind = "varuint", f.name # "query_id", NEW s, NEW v
  PROVE  Kept(s, f, v) = StoreCoinsBuf(s, Amount(v))
BY DEF Kept, JettonStored

(* An address as one.                                                      *)
LEMMA AddressStores ==
  ASSUME NEW f, f.kind = "address", f.name # "query_id", NEW s, NEW v
  PROVE  Kept(s, f, v) = StoreAddress(s, v)
BY DEF Kept, JettonStored

(* A payload leaves its bit.                                               *)
LEMMA PayloadStores ==
  ASSUME NEW f, f.kind = "cellref", f.name # "query_id", NEW s, NEW v
  PROVE  Left(s, f) = StoreBit(s, 0) /\ Kept(s, f, v) = StoreBit(s, 1)
BY DEF Kept, Left, JettonStored

(* The fields without a line.                                              *)
LEMMA NoLine ==
  ASSUME NEW f, NEW v, NEW e,
         f.name \in {"has_query_id", "query_id", "has_custom_payload", "has_forward_payload"}
  PROVE  LinesOf(f, v, e) = <<>>
BY DEF LinesOf, JettonLine

(* What the table says of those that have one.                             *)
LEMMA JettonLineSays ==
  /\ DOMAIN JettonLine = {"amount", "destination", "response", "custom_payload",
                          "forward_amount", "forward_payload"}
  /\ JettonLine["amount"].item = "Jetton units" /\ ~JettonLine["amount"].expert
  /\ JettonLine["destination"].item = "Send jetton to" /\ ~JettonLine["destination"].expert
  /\ JettonLine["response"].item = "Send excess to" /\ JettonLine["response"].expert
  /\ JettonLine["custom_payload"].item = "Custom payload" /\ JettonLine["custom_payload"].expert
  /\ JettonLine["forward_amount"].item = "Forward amount" /\ JettonLine["forward_amount"].expert
  /\ JettonLine["forward_payload"].item = "Forward payload" /\ JettonLine["forward_payload"].expert
BY DEF JettonLine

(* A field with a line under either setting.                               *)
LEMMA AlwaysLine ==
  ASSUME NEW f, NEW v, NEW e, f.name \in DOMAIN JettonLine, ~JettonLine[f.name].expert
  PROVE  LinesOf(f, v, e) = Line(JettonLine[f.name].item, JettonBody(f, v))
BY Zenon DEF LinesOf, Line

(* A field with a line in expert mode.                                     *)
LEMMA ExpertLine ==
  ASSUME NEW f, NEW v, NEW e, f.name \in DOMAIN JettonLine, JettonLine[f.name].expert
  PROVE  LinesOf(f, v, e) = IF e THEN Line(JettonLine[f.name].item, JettonBody(f, v)) ELSE <<>>
BY Zenon DEF LinesOf, Line

(* What a line holds.                                                      *)
LEMMA BodyOfKind ==
  ASSUME NEW f, NEW v
  PROVE  /\ f.kind = "varuint" => JettonBody(f, v) = Amount(v)
         /\ f.kind = "address" => JettonBody(f, v) = v
         /\ f.kind = "cellref" => JettonBody(f, v) = CellRef(v).hash
BY DEF JettonBody

-----------------------------------------------------------------------------
(* A field of a transfer that is there has the form of its kind.           *)
LEMMA TransferFieldForm ==
  ASSUME NEW vals \in Values(JettonLayout), NEW i \in 1..10, FieldInForm(JettonLayout[i], vals),
         NEW name, NEW kind, NEW n, NEW w, JettonLayout[i] = Field(name, kind, n, w)
  PROVE  /\ vals[name] \in Seq(Nat)
         /\ ~Missing(Field(name, kind, n, w), vals) => InForm(Field(name, kind, n, w), vals[name])
<1>1. Field(name, kind, n, w).name = name
  BY Zenon DEF Field
<1>2. vals[JettonLayout[i].name] \in Seq(Byte)
  BY JettonReadable, ValueType
<1>3. vals[name] \in Seq(Nat)
  BY <1>1, <1>2, BytesAreNumbers
<1> QED BY <1>1, <1>3, Zenon DEF FieldInForm

(* The bytes of an amount, without its length.                             *)
LEMMA AmountForm ==
  ASSUME NEW v \in Seq(Nat), NEW name, NEW w, InForm(Field(name, "varuint", MaxValueBytes, w), v)
  PROVE  Amount(v) \in Seq(Nat) /\ Len(Amount(v)) \in 0..MaxValueBytes
<1>1. v[1] \in 0..MaxValueBytes /\ Len(v) = 1 + v[1]
  BY DEF InForm, Field
<1>2. v # <<>> /\ MaxValueBytes \in Nat
  BY <1>1, RequestsAssumption
<1>3. Tail(v) \in Seq(Nat) /\ Len(Tail(v)) = Len(v) - 1
  BY <1>2
<1>4. Len(Tail(v)) = v[1]
  BY <1>1, <1>2, <1>3
<1>5. Len(Tail(v)) \in 0..MaxValueBytes
  BY <1>1, <1>4, Zenon
<1> QED BY <1>3, <1>5, Zenon DEF Amount

(* The transfer these values are.                                          *)
PayloadRef(flag, value) == IF Is(flag) THEN <<CellRef(value)>> ELSE <<>>

Transferred(vals) ==
  [query_id |-> IF Is(vals["has_query_id"]) THEN BytesBits(vals["query_id"])
                ELSE UintBits(0, LongLen * ByteBits),
   amount |-> Amount(vals["amount"]),
   destination |-> vals["destination"],
   response |-> vals["response"],
   custom |-> PayloadRef(vals["has_custom_payload"], vals["custom_payload"]),
   forward_amount |-> Amount(vals["forward_amount"]),
   forward |-> PayloadRef(vals["has_forward_payload"], vals["forward_payload"])]

(* It is one the cell has room for.                                        *)
LEMMA TransferredIsGood ==
  ASSUME NEW vals \in Values(JettonLayout), \A i \in 1..10 : FieldInForm(JettonLayout[i], vals)
  PROVE  GoodTransfer(Transferred(vals)) /\ vals["query_id"] \in Seq(Nat)
<1> DEFINE t == Transferred(vals)
<1>1. /\ 2 \in 1..10 /\ 3 \in 1..10 /\ 4 \in 1..10 /\ 5 \in 1..10 /\ 7 \in 1..10
      /\ 8 \in 1..10 /\ 10 \in 1..10
  OBVIOUS
<1>2. /\ vals["query_id"] \in Seq(Nat)
      /\ Is(vals["has_query_id"]) => Len(vals["query_id"]) = LongLen
  <2> DEFINE f == Field("query_id", "BE", LongLen, "has_query_id")
  <2>1. vals["query_id"] \in Seq(Nat) /\ ~Missing(f, vals) => InForm(f, vals["query_id"])
    BY <1>1, JettonLayoutSays, TransferFieldForm, Zenon DEF JettonFieldsAre
  <2>2. Missing(f, vals) <=> ~Is(vals["has_query_id"])
    BY ThereByFlag
  <2>3. vals["query_id"] \in Seq(Nat)
    BY <1>1, JettonLayoutSays, TransferFieldForm, Zenon DEF JettonFieldsAre
  <2>4. InForm(f, vals["query_id"]) => Len(vals["query_id"]) = LongLen
    BY DEF InForm, Field
  <2> HIDE DEF f
  <2> QED BY <2>1, <2>2, <2>3, <2>4, Zenon
<1>3. /\ Amount(vals["amount"]) \in Seq(Nat) /\ Len(Amount(vals["amount"])) \in 0..MaxValueBytes
  <2> DEFINE f == Field("amount", "varuint", MaxValueBytes, "")
  <2>1. vals["amount"] \in Seq(Nat) /\ (~Missing(f, vals) => InForm(f, vals["amount"]))
    BY <1>1, JettonLayoutSays, TransferFieldForm, Zenon DEF JettonFieldsAre
  <2>2. ~Missing(f, vals)
    BY AlwaysThere, Zenon
  <2> QED BY <2>1, <2>2, AmountForm, Zenon
<1>4. /\ Amount(vals["forward_amount"]) \in Seq(Nat)
      /\ Len(Amount(vals["forward_amount"])) \in 0..MaxValueBytes
  <2> DEFINE f == Field("forward_amount", "varuint", MaxValueBytes, "")
  <2>1. vals["forward_amount"] \in Seq(Nat) /\ (~Missing(f, vals) => InForm(f, vals["forward_amount"]))
    BY <1>1, JettonLayoutSays, TransferFieldForm, Zenon DEF JettonFieldsAre
  <2>2. ~Missing(f, vals)
    BY AlwaysThere, Zenon
  <2> QED BY <2>1, <2>2, AmountForm, Zenon
<1>5. vals["destination"] \in Seq(Nat) /\ Len(vals["destination"]) = 1 + HashLen
  <2> DEFINE f == Field("destination", "address", 0, "")
  <2>1. vals["destination"] \in Seq(Nat) /\ (~Missing(f, vals) => InForm(f, vals["destination"]))
    BY <1>1, JettonLayoutSays, TransferFieldForm, Zenon DEF JettonFieldsAre
  <2>2. ~Missing(f, vals)
    BY AlwaysThere, Zenon
  <2>3. InForm(f, vals["destination"]) => Len(vals["destination"]) = 1 + HashLen
    BY Zenon DEF InForm, Field
  <2> HIDE DEF f
  <2> QED BY <2>1, <2>2, <2>3, Zenon
<1>6. vals["response"] \in Seq(Nat) /\ Len(vals["response"]) = 1 + HashLen
  <2> DEFINE f == Field("response", "address", 0, "")
  <2>1. vals["response"] \in Seq(Nat) /\ (~Missing(f, vals) => InForm(f, vals["response"]))
    BY <1>1, JettonLayoutSays, TransferFieldForm, Zenon DEF JettonFieldsAre
  <2>2. ~Missing(f, vals)
    BY AlwaysThere, Zenon
  <2>3. InForm(f, vals["response"]) => Len(vals["response"]) = 1 + HashLen
    BY Zenon DEF InForm, Field
  <2> HIDE DEF f
  <2> QED BY <2>1, <2>2, <2>3, Zenon
<1>7. PayloadRef(vals["has_custom_payload"], vals["custom_payload"]) \in OneOrNone
  <2> DEFINE f == Field("custom_payload", "cellref", 0, "has_custom_payload")
  <2>1. /\ vals["custom_payload"] \in Seq(Nat)
        /\ ~Missing(f, vals) => InForm(f, vals["custom_payload"])
    BY <1>1, JettonLayoutSays, TransferFieldForm, Zenon DEF JettonFieldsAre
  <2>2. Missing(f, vals) <=> ~Is(vals["has_custom_payload"])
    BY ThereByFlag
  <2>3. InForm(f, vals["custom_payload"]) => Len(vals["custom_payload"]) = ShortLen + HashLen
    BY DEF InForm, Field
  <2> HIDE DEF f
  <2>4. Is(vals["has_custom_payload"]) => CellRef(vals["custom_payload"]) \in References
    BY <2>1, <2>2, <2>3, CellRefType
  <2> QED BY <2>4 DEF PayloadRef, OneOrNone
<1>8. PayloadRef(vals["has_forward_payload"], vals["forward_payload"]) \in OneOrNone
  <2> DEFINE f == Field("forward_payload", "cellref", 0, "has_forward_payload")
  <2>1. /\ vals["forward_payload"] \in Seq(Nat)
        /\ ~Missing(f, vals) => InForm(f, vals["forward_payload"])
    BY <1>1, JettonLayoutSays, TransferFieldForm, Zenon DEF JettonFieldsAre
  <2>2. Missing(f, vals) <=> ~Is(vals["has_forward_payload"])
    BY ThereByFlag
  <2>3. InForm(f, vals["forward_payload"]) => Len(vals["forward_payload"]) = ShortLen + HashLen
    BY DEF InForm, Field
  <2> HIDE DEF f
  <2>4. Is(vals["has_forward_payload"]) => CellRef(vals["forward_payload"]) \in References
    BY <2>1, <2>2, <2>3, CellRefType
  <2> QED BY <2>4 DEF PayloadRef, OneOrNone
<1>9. t.query_id \in Seq(Bit) /\ Len(t.query_id) = LongLen * ByteBits
  <2>1. LongLen * ByteBits \in Nat /\ 0 \in Nat /\ LongLen * ByteBits = ByteBits * LongLen
    BY WidthsAreNumbers
  <2>2. CASE Is(vals["has_query_id"])
    <3>1. t.query_id = BytesBits(vals["query_id"])
      BY <2>2 DEF Transferred
    <3> HIDE DEF t
    <3> QED BY <1>2, <2>1, <2>2, <3>1, BytesBitsType
  <2>3. CASE ~Is(vals["has_query_id"])
    <3>1. t.query_id = UintBits(0, LongLen * ByteBits)
      BY <2>3 DEF Transferred
    <3> HIDE DEF t
    <3> QED BY <2>1, <3>1, UintBitsType
  <2> QED BY <2>2, <2>3
<1>10. /\ t.amount = Amount(vals["amount"]) /\ t.destination = vals["destination"]
       /\ t.response = vals["response"] /\ t.forward_amount = Amount(vals["forward_amount"])
       /\ t.custom = PayloadRef(vals["has_custom_payload"], vals["custom_payload"])
       /\ t.forward = PayloadRef(vals["has_forward_payload"], vals["forward_payload"])
  BY DEF Transferred
<1> HIDE DEF t
<1>11. GoodTransfer(t)
  BY <1>3, <1>4, <1>5, <1>6, <1>7, <1>8, <1>9, <1>10, Zenon DEF GoodTransfer
<1> QED BY <1>2, <1>11 DEF t

-----------------------------------------------------------------------------
(* What each field adds to the cell and to the lines.                      *)
Added(d, c, b, more, ls) ==
  d.bits = b /\ d.refs = c.refs \o more /\ d.lines = c.lines \o ls

(* A field that is there, with what it stores.                             *)
LEMMA WithFieldIs ==
  ASSUME NEW f, NEW v, NEW e, NEW c, NEW d, d = WithField(f, v, e, c)
  PROVE  /\ d.bits = Kept(c.bits, f, v) /\ d.lines = c.lines \o LinesOf(f, v, e)
         /\ f.kind = "cellref" => d.refs = Append(c.refs, CellRef(v))
         /\ f.kind # "cellref" => d.refs = c.refs
<1> DEFINE b == Kept(c.bits, f, v)
           more == IF f.kind = "cellref" THEN Append(c.refs, CellRef(v)) ELSE c.refs
           ls == c.lines \o LinesOf(f, v, e)
<1>1. d = [bits |-> b, refs |-> more, lines |-> ls]
  BY Zenon DEF WithField, Kept
<1> HIDE DEF b, more, ls
<1>2. d.bits = b /\ d.refs = more /\ d.lines = ls
  BY <1>1
<1> QED BY <1>2, Zenon DEF b, more, ls

(* A field that is there and is no payload adds no reference.              *)
LEMMA PlainField ==
  ASSUME NEW f, NEW vals, NEW e, NEW c, NEW d, f.kind # "cellref", ~Missing(f, vals),
         c.refs \in Seq(References), d = AfterField(f, vals, e, c)
  PROVE  Added(d, c, Kept(c.bits, f, vals[f.name]), <<>>, LinesOf(f, vals[f.name], e))
<1> DEFINE v == vals[f.name]
<1>1. d = WithField(f, v, e, c)
  BY AfterPresent
<1> HIDE DEF v
<1>2. d.bits = Kept(c.bits, f, v) /\ d.refs = c.refs /\ d.lines = c.lines \o LinesOf(f, v, e)
  BY <1>1, WithFieldIs
<1>3. d.refs = c.refs \o <<>>
  BY <1>2
<1> QED BY <1>2, <1>3, Zenon DEF Added, v

(* A flag adds nothing.                                                    *)
LEMMA FlagField ==
  ASSUME NEW f, f.kind = "bool",
         f.name \in {"has_query_id", "has_custom_payload", "has_forward_payload"},
         NEW vals, NEW e, NEW c, NEW d, ~Missing(f, vals), c.refs \in Seq(References),
         d = AfterField(f, vals, e, c)
  PROVE  Added(d, c, c.bits, <<>>, <<>>)
<1> DEFINE v == vals[f.name]
<1>1. Added(d, c, Kept(c.bits, f, v), <<>>, LinesOf(f, v, e))
  BY PlainField
<1>2. Kept(c.bits, f, v) = c.bits
  BY FlagStores
<1>3. LinesOf(f, v, e) = <<>>
  BY NoLine
<1> QED BY <1>1, <1>2, <1>3, Zenon

(* An amount.                                                              *)
LEMMA AmountField ==
  ASSUME NEW f, f.kind = "varuint", f.name # "query_id",
         NEW vals, NEW e, NEW c, NEW d, ~Missing(f, vals), c.refs \in Seq(References),
         d = AfterField(f, vals, e, c)
  PROVE  Added(d, c, StoreCoinsBuf(c.bits, Amount(vals[f.name])), <<>>,
               LinesOf(f, vals[f.name], e))
<1> DEFINE v == vals[f.name]
<1>1. Added(d, c, Kept(c.bits, f, v), <<>>, LinesOf(f, v, e))
  BY PlainField
<1>2. Kept(c.bits, f, v) = StoreCoinsBuf(c.bits, Amount(v))
  BY AmountStores
<1> QED BY <1>1, <1>2, Zenon

(* An address.                                                             *)
LEMMA AddressField ==
  ASSUME NEW f, f.kind = "address", f.name # "query_id",
         NEW vals, NEW e, NEW c, NEW d, ~Missing(f, vals), c.refs \in Seq(References),
         d = AfterField(f, vals, e, c)
  PROVE  Added(d, c, StoreAddress(c.bits, vals[f.name]), <<>>, LinesOf(f, vals[f.name], e))
<1> DEFINE v == vals[f.name]
<1>1. Added(d, c, Kept(c.bits, f, v), <<>>, LinesOf(f, v, e))
  BY PlainField
<1>2. Kept(c.bits, f, v) = StoreAddress(c.bits, v)
  BY AddressStores
<1> QED BY <1>1, <1>2, Zenon

(* A field that is not there.                                              *)
LEMMA AbsentField ==
  ASSUME NEW f, NEW vals, NEW e, NEW c, NEW d, Missing(f, vals),
         c.refs \in Seq(References), c.lines \in Seq(LineSet),
         d = AfterField(f, vals, e, c)
  PROVE  Added(d, c, Left(c.bits, f), <<>>, <<>>)
<1>1. Missing(f, vals) = TRUE
  BY Zenon DEF Missing
<1>2. (IF Missing(f, vals) THEN <<>> ELSE vals[f.name]) = <<>>
  BY Zenon
<1>3. /\ (IF Missing(f, vals) \/ f.kind # "cellref" THEN c.refs ELSE Append(c.refs, CellRef(<<>>)))
           = c.refs
      /\ (IF Missing(f, vals) THEN c.lines ELSE c.lines \o LinesOf(f, <<>>, e)) = c.lines
  BY Zenon
<1> DEFINE b == Left(c.bits, f)
<1>4. d = [bits |-> b, refs |-> c.refs, lines |-> c.lines]
  BY <1>1, <1>2, <1>3, Zenon DEF AfterField, Left
<1> HIDE DEF b
<1>5. d.bits = b /\ d.refs = c.refs /\ d.lines = c.lines
  BY <1>4
<1>6. d.refs = c.refs \o <<>> /\ d.lines = c.lines \o <<>>
  BY <1>5
<1> QED BY <1>5, <1>6, Zenon DEF Added, b

(* The query_id.                                                           *)
LEMMA QueryField ==
  ASSUME NEW f, f.name = "query_id", f.kind = "BE",
         NEW vals, NEW e, NEW c, NEW d, c.refs \in Seq(References), c.lines \in Seq(LineSet),
         d = AfterField(f, vals, e, c),
         Missing(f, vals) <=> ~Is(vals["has_query_id"])
  PROVE  /\ Is(vals["has_query_id"])
              => Added(d, c, StoreBuffer(c.bits, vals["query_id"]), <<>>, <<>>)
         /\ ~Is(vals["has_query_id"])
              => Added(d, c, StoreUint(c.bits, 0, LongLen * ByteBits), <<>>, <<>>)
<1> DEFINE v == vals[f.name]
<1>1. CASE Is(vals["has_query_id"])
  <2>1. Added(d, c, Kept(c.bits, f, v), <<>>, LinesOf(f, v, e))
    BY <1>1, PlainField
  <2>2. Kept(c.bits, f, v) = StoreBuffer(c.bits, v)
    BY QueryStores
  <2>3. LinesOf(f, v, e) = <<>>
    BY NoLine
  <2> QED BY <1>1, <2>1, <2>2, <2>3, Zenon
<1>2. CASE ~Is(vals["has_query_id"])
  <2>1. Added(d, c, Left(c.bits, f), <<>>, <<>>)
    BY <1>2, AbsentField
  <2>2. Left(c.bits, f) = StoreUint(c.bits, 0, LongLen * ByteBits)
    BY QueryStores
  <2> QED BY <1>2, <2>1, <2>2, Zenon
<1> QED BY <1>1, <1>2

(* A payload: its bit, its reference and its line if it is there.          *)
LEMMA PayloadField ==
  ASSUME NEW f, f.kind = "cellref", f.name # "query_id",
         NEW vals, NEW e, NEW c, NEW d, c.refs \in Seq(References), c.lines \in Seq(LineSet),
         d = AfterField(f, vals, e, c),
         NEW flag, Missing(f, vals) <=> ~Is(flag),
         NEW one, one = PayloadRef(flag, vals[f.name])
  PROVE  Added(d, c, StoreBit(c.bits, BitOfRef(one)), one,
               IF one = <<>> THEN <<>> ELSE LinesOf(f, vals[f.name], e))
<1> DEFINE v == vals[f.name]
           ref == CellRef(v)
<1>1. CASE Is(flag)
  <2>1. one = <<ref>> /\ one # <<>> /\ BitOfRef(one) = 1
    BY <1>1 DEF PayloadRef, BitOfRef
  <2>2. Kept(c.bits, f, v) = StoreBit(c.bits, 1)
    BY PayloadStores
  <2>3. d = WithField(f, v, e, c)
    BY <1>1, AfterPresent
  <2> HIDE DEF ref, v
  <2>4. /\ d.bits = Kept(c.bits, f, v) /\ d.lines = c.lines \o LinesOf(f, v, e)
        /\ d.refs = Append(c.refs, CellRef(v))
    BY <2>3, WithFieldIs
  <2>5. d.refs = c.refs \o one
    BY <2>1, <2>4 DEF ref
  <2> QED BY <2>1, <2>2, <2>4, <2>5, Zenon DEF Added, v
<1>2. CASE ~Is(flag)
  <2>1. one = <<>> /\ BitOfRef(one) = 0
    BY <1>2 DEF PayloadRef, BitOfRef
  <2>2. Left(c.bits, f) = StoreBit(c.bits, 0)
    BY PayloadStores
  <2>3. Added(d, c, Left(c.bits, f), <<>>, <<>>)
    BY <1>2, AbsentField
  <2> QED BY <2>1, <2>2, <2>3, Zenon
<1> QED BY <1>1, <1>2

-----------------------------------------------------------------------------
(* The fields of a transfer, by name and kind.                             *)
JettonKindsAre ==
  /\ JettonLayout[1].name = "has_query_id" /\ JettonLayout[1].kind = "bool"
  /\ JettonLayout[2].name = "query_id" /\ JettonLayout[2].kind = "BE"
  /\ JettonLayout[3].name = "amount" /\ JettonLayout[3].kind = "varuint"
  /\ JettonLayout[4].name = "destination" /\ JettonLayout[4].kind = "address"
  /\ JettonLayout[5].name = "response" /\ JettonLayout[5].kind = "address"
  /\ JettonLayout[6].name = "has_custom_payload" /\ JettonLayout[6].kind = "bool"
  /\ JettonLayout[7].name = "custom_payload" /\ JettonLayout[7].kind = "cellref"
  /\ JettonLayout[8].name = "forward_amount" /\ JettonLayout[8].kind = "varuint"
  /\ JettonLayout[9].name = "has_forward_payload" /\ JettonLayout[9].kind = "bool"
  /\ JettonLayout[10].name = "forward_payload" /\ JettonLayout[10].kind = "cellref"

(* As the layout lists them.                                               *)
LEMMA JettonKindsSaid == JettonKindsAre
BY DEF JettonKindsAre, JettonLayout, Field

(* Which of them are there.                                                *)
LEMMA JettonMissing ==
  ASSUME NEW vals
  PROVE  /\ ~Missing(JettonLayout[1], vals) /\ ~Missing(JettonLayout[3], vals)
         /\ ~Missing(JettonLayout[4], vals) /\ ~Missing(JettonLayout[5], vals)
         /\ ~Missing(JettonLayout[6], vals) /\ ~Missing(JettonLayout[8], vals)
         /\ ~Missing(JettonLayout[9], vals)
         /\ Missing(JettonLayout[2], vals) <=> ~Is(vals["has_query_id"])
         /\ Missing(JettonLayout[7], vals) <=> ~Is(vals["has_custom_payload"])
         /\ Missing(JettonLayout[10], vals) <=> ~Is(vals["has_forward_payload"])
<1>1. JettonFieldsAre
  BY JettonLayoutSays
<1>2. /\ ~Missing(JettonLayout[1], vals) /\ ~Missing(JettonLayout[3], vals)
      /\ ~Missing(JettonLayout[4], vals) /\ ~Missing(JettonLayout[5], vals)
      /\ ~Missing(JettonLayout[6], vals) /\ ~Missing(JettonLayout[8], vals)
      /\ ~Missing(JettonLayout[9], vals)
  BY <1>1, AlwaysThere, Zenon DEF JettonFieldsAre
<1>3. Missing(JettonLayout[2], vals) <=> ~Is(vals["has_query_id"])
  BY <1>1, ThereByFlag, Zenon DEF JettonFieldsAre
<1>4. Missing(JettonLayout[7], vals) <=> ~Is(vals["has_custom_payload"])
  BY <1>1, ThereByFlag, Zenon DEF JettonFieldsAre
<1>5. Missing(JettonLayout[10], vals) <=> ~Is(vals["has_forward_payload"])
  BY <1>1, ThereByFlag, Zenon DEF JettonFieldsAre
<1> QED BY <1>2, <1>3, <1>4, <1>5, Zenon

(* What has been made after some of the fields.                            *)
Stage(c, b, r, l) ==
  /\ c.bits = b /\ c.refs = r /\ c.lines = l
  /\ c.refs \in Seq(References) /\ c.lines \in Seq(LineSet)

(* One field more.                                                         *)
LEMMA StageAdded ==
  ASSUME NEW c, NEW b, NEW r, NEW l, Stage(c, b, r, l),
         NEW d, NEW bb, NEW more \in Seq(References), NEW ls \in Seq(LineSet),
         Added(d, c, bb, more, ls)
  PROVE  Stage(d, bb, r \o more, l \o ls)
<1>1. /\ d.bits = bb /\ d.refs = r \o more /\ d.lines = l \o ls
      /\ r \in Seq(References) /\ l \in Seq(LineSet)
  BY Zenon DEF Stage, Added
<1>2. r \o more \in Seq(References)
  BY <1>1
<1>3. l \o ls \in Seq(LineSet)
  BY <1>1
<1> QED BY <1>1, <1>2, <1>3, Zenon DEF Stage

(* One that adds no reference.                                             *)
LEMMA StagePlain ==
  ASSUME NEW c, NEW b, NEW r, NEW l, Stage(c, b, r, l),
         NEW d, NEW bb, NEW ls \in Seq(LineSet), Added(d, c, bb, <<>>, ls)
  PROVE  Stage(d, bb, r, l \o ls)
<1>1. <<>> \in Seq(References)
  OBVIOUS
<1>2. Stage(d, bb, r \o <<>>, l \o ls)
  BY <1>1, StageAdded, Zenon
<1>3. r \in Seq(References)
  BY Zenon DEF Stage
<1>4. r \o <<>> = r
  BY <1>3
<1> QED BY <1>2, <1>4, Zenon

(* One that adds neither a reference nor a line.                           *)
LEMMA StageSilent ==
  ASSUME NEW c, NEW b, NEW r, NEW l, Stage(c, b, r, l),
         NEW d, NEW bb, Added(d, c, bb, <<>>, <<>>)
  PROVE  Stage(d, bb, r, l)
<1>1. <<>> \in Seq(LineSet)
  OBVIOUS
<1>2. Stage(d, bb, r, l \o <<>>)
  BY <1>1, StagePlain, Zenon
<1>3. l \in Seq(LineSet)
  BY Zenon DEF Stage
<1>4. l \o <<>> = l
  BY <1>3
<1> QED BY <1>2, <1>4, Zenon

(* Lines can be grouped.                                                   *)
LEMMA LinesAssociate ==
  ASSUME NEW x \in Seq(LineSet), NEW y \in Seq(LineSet), NEW z \in Seq(LineSet)
  PROVE  (x \o y) \o z = x \o (y \o z) /\ x \o y \in Seq(LineSet)
BY ConcatAssociative

Joint(x, y) == x \o y

SameGroups(u, x, c, g, p) ==
  (((u \o x) \o c) \o g) \o p = u \o (((x \o c) \o g) \o p)

(* The same, of the operator by name.                                      *)
LEMMA JointAssociates ==
  ASSUME NEW x \in Seq(LineSet), NEW y \in Seq(LineSet), NEW z \in Seq(LineSet)
  PROVE  Joint(Joint(x, y), z) = Joint(x, Joint(y, z)) /\ Joint(x, y) \in Seq(LineSet)
<1>1. (x \o y) \o z = x \o (y \o z) /\ x \o y \in Seq(LineSet)
  BY LinesAssociate
<1> QED BY <1>1, Zenon DEF Joint

(* The lines one after the other, and as they are grouped for the setting. *)
LEMMA Regrouped ==
  ASSUME NEW u \in Seq(LineSet), NEW x \in Seq(LineSet), NEW c \in Seq(LineSet),
         NEW g \in Seq(LineSet), NEW p \in Seq(LineSet)
  PROVE  SameGroups(u, x, c, g, p)
<1>1. Joint(x, c) \in Seq(LineSet) /\ Joint(Joint(x, c), g) \in Seq(LineSet)
  BY JointAssociates
<1>2. Joint(Joint(u, x), c) = Joint(u, Joint(x, c))
  BY JointAssociates
<1>3. Joint(Joint(u, Joint(x, c)), g) = Joint(u, Joint(Joint(x, c), g))
  BY <1>1, JointAssociates
<1>4. Joint(Joint(u, Joint(Joint(x, c), g)), p) = Joint(u, Joint(Joint(Joint(x, c), g), p))
  BY <1>1, JointAssociates
<1> QED BY <1>2, <1>3, <1>4, Zenon DEF SameGroups, Joint

(* Lines that are only there in expert mode.                               *)
InExpert(e, ls) == IF e THEN ls ELSE <<>>

(* All lines of a transfer, one field after the other.                     *)
LEMMA AllLines ==
  ASSUME NEW t, GoodTransfer(t), NEW e, NEW L3, NEW L4, NEW X, NEW C, NEW G, NEW P,
         L3 = Line("Jetton units", t.amount), L4 = Line("Send jetton to", t.destination),
         X = Line("Send excess to", t.response), C = LineOfRef("Custom payload", t.custom),
         G = Line("Forward amount", t.forward_amount),
         P = LineOfRef("Forward payload", t.forward)
  PROVE  /\ ((((L3 \o L4) \o InExpert(e, X)) \o InExpert(e, C)) \o InExpert(e, G)) \o InExpert(e, P)
              = TransferLines(t, e)
         /\ L3 \in Seq(LineSet) /\ L4 \in Seq(LineSet)
         /\ InExpert(e, X) \in Seq(LineSet) /\ InExpert(e, C) \in Seq(LineSet)
         /\ InExpert(e, G) \in Seq(LineSet) /\ InExpert(e, P) \in Seq(LineSet)
<1>1. /\ t.amount \in Seq(Nat) /\ t.destination \in Seq(Nat) /\ t.response \in Seq(Nat)
      /\ t.forward_amount \in Seq(Nat) /\ t.custom \in OneOrNone /\ t.forward \in OneOrNone
  BY DEF GoodTransfer
<1>2. L3 \in Seq(LineSet) /\ L4 \in Seq(LineSet) /\ X \in Seq(LineSet) /\ G \in Seq(LineSet)
  BY <1>1, LineType, Zenon DEF Titles
<1>3. C \in Seq(LineSet) /\ P \in Seq(LineSet)
  BY <1>1, ShownOfRef
<1>4. TransferLines(t, e) = (L3 \o L4) \o IF ~e THEN <<>> ELSE ((X \o C) \o G) \o P
  BY Zenon DEF TransferLines
<1> DEFINE u == L3 \o L4
<1>5. u \in Seq(LineSet) /\ <<>> \in Seq(LineSet)
  BY <1>2, ShownBoth, ShownNone, Zenon
<1> HIDE DEF u
<1>6. CASE e
  <2>1. /\ InExpert(e, X) = X /\ InExpert(e, C) = C /\ InExpert(e, G) = G /\ InExpert(e, P) = P
        /\ TransferLines(t, e) = u \o (((X \o C) \o G) \o P)
    BY <1>4, <1>6, Zenon DEF InExpert, u
  <2>2. (((u \o X) \o C) \o G) \o P = u \o (((X \o C) \o G) \o P)
    <3>1. SameGroups(u, X, C, G, P)
      BY <1>2, <1>3, <1>5, Regrouped, Zenon
    <3> QED BY <3>1, Zenon DEF SameGroups
  <2> QED BY <1>2, <1>3, <2>1, <2>2, Zenon DEF u
<1>7. CASE ~e
  <2>1. /\ InExpert(e, X) = <<>> /\ InExpert(e, C) = <<>> /\ InExpert(e, G) = <<>>
        /\ InExpert(e, P) = <<>> /\ TransferLines(t, e) = u \o <<>>
    BY <1>4, <1>7, Zenon DEF InExpert, u
  <2>2. u \o <<>> = u
    BY <1>5, ConcatEmptySeq, Zenon
  <2> QED BY <1>2, <1>5, <2>1, <2>2, Zenon DEF u
<1> QED BY <1>6, <1>7

-----------------------------------------------------------------------------
(* The line of the amount.                                                 *)
LEMMA UnitsLine ==
  ASSUME NEW f, f.name = "amount", f.kind = "varuint", NEW v, NEW e
  PROVE  LinesOf(f, v, e) = Line("Jetton units", Amount(v))
<1>1. LinesOf(f, v, e) = Line(JettonLine[f.name].item, JettonBody(f, v))
  BY AlwaysLine, JettonLineSays
<1> QED BY <1>1, JettonLineSays, BodyOfKind, Zenon

(* The line of the destination.                                            *)
LEMMA OwnerLine ==
  ASSUME NEW f, f.name = "destination", f.kind = "address", NEW v, NEW e
  PROVE  LinesOf(f, v, e) = Line("Send jetton to", v)
<1>1. LinesOf(f, v, e) = Line(JettonLine[f.name].item, JettonBody(f, v))
  BY AlwaysLine, JettonLineSays
<1> QED BY <1>1, JettonLineSays, BodyOfKind, Zenon

(* The line of where the excess goes.                                      *)
LEMMA ExcessLine ==
  ASSUME NEW f, f.name = "response", f.kind = "address", NEW v, NEW e
  PROVE  LinesOf(f, v, e) = InExpert(e, Line("Send excess to", v))
<1>1. f.name \in DOMAIN JettonLine /\ JettonLine[f.name].expert
  BY JettonLineSays
<1>2. LinesOf(f, v, e) = IF e THEN Line(JettonLine[f.name].item, JettonBody(f, v)) ELSE <<>>
  BY <1>1, ExpertLine, Zenon
<1>3. JettonLine[f.name].item = "Send excess to" /\ JettonBody(f, v) = v
  BY JettonLineSays, BodyOfKind, Zenon
<1> QED BY <1>2, <1>3, Zenon DEF InExpert

(* The line of the amount that goes along.                                 *)
LEMMA ForwardLine ==
  ASSUME NEW f, f.name = "forward_amount", f.kind = "varuint", NEW v, NEW e
  PROVE  LinesOf(f, v, e) = InExpert(e, Line("Forward amount", Amount(v)))
<1>1. f.name \in DOMAIN JettonLine /\ JettonLine[f.name].expert
  BY JettonLineSays
<1>2. LinesOf(f, v, e) = IF e THEN Line(JettonLine[f.name].item, JettonBody(f, v)) ELSE <<>>
  BY <1>1, ExpertLine, Zenon
<1>3. JettonLine[f.name].item = "Forward amount" /\ JettonBody(f, v) = Amount(v)
  BY JettonLineSays, BodyOfKind, Zenon
<1> QED BY <1>2, <1>3, Zenon DEF InExpert

(* The line of a payload, which is there if the payload is.                *)
LineIfThere(f, v, e, item, one) ==
  (IF one = <<>> THEN <<>> ELSE LinesOf(f, v, e)) = InExpert(e, LineOfRef(item, one))

(* A payload has one.                                                      *)
LEMMA RefLine ==
  ASSUME NEW f, f.kind = "cellref", NEW v, NEW e, NEW item,
         f.name \in DOMAIN JettonLine, JettonLine[f.name].expert,
         JettonLine[f.name].item = item,
         NEW flag, NEW one, one = PayloadRef(flag, v)
  PROVE  LineIfThere(f, v, e, item, one)
<1> DEFINE ref == CellRef(v)
<1>1. LinesOf(f, v, e) = IF e THEN Line(item, ref.hash) ELSE <<>>
  BY ExpertLine, BodyOfKind, Zenon
<1> HIDE DEF ref
<1>2. CASE Is(flag)
  <2>1. one = <<ref>>
    BY <1>2, Zenon DEF PayloadRef, ref
  <2>2. one # <<>> /\ one[1] = ref
    BY <2>1
  <2> QED BY <1>1, <2>2, Zenon DEF LineIfThere, InExpert, LineOfRef
<1>3. CASE ~Is(flag)
  <2>1. one = <<>>
    BY <1>3, Zenon DEF PayloadRef
  <2> QED BY <2>1, Zenon DEF LineIfThere, InExpert, LineOfRef
<1> QED BY <1>2, <1>3

-----------------------------------------------------------------------------
(* The parts of a transfer by name.                                        *)
TransferredAs(t, vals) ==
  /\ t.query_id = IF Is(vals["has_query_id"]) THEN BytesBits(vals["query_id"])
                  ELSE UintBits(0, LongLen * ByteBits)
  /\ t.amount = Amount(vals["amount"])
  /\ t.destination = vals["destination"]
  /\ t.response = vals["response"]
  /\ t.custom = PayloadRef(vals["has_custom_payload"], vals["custom_payload"])
  /\ t.forward_amount = Amount(vals["forward_amount"])
  /\ t.forward = PayloadRef(vals["has_forward_payload"], vals["forward_payload"])

(* As the record has them.                                                 *)
LEMMA TransferredSays ==
  ASSUME NEW vals, NEW t, t = Transferred(vals)
  PROVE  TransferredAs(t, vals)
BY DEF Transferred, TransferredAs

(* The steps in which the cell is made.                                    *)
MadeSteps(vals, e, h) ==
  /\ h[0] = NoFields
  /\ h[1] = AfterField(JettonLayout[1], vals, e, h[0])
  /\ h[2] = AfterField(JettonLayout[2], vals, e, h[1])
  /\ h[3] = AfterField(JettonLayout[3], vals, e, h[2])
  /\ h[4] = AfterField(JettonLayout[4], vals, e, h[3])
  /\ h[5] = AfterField(JettonLayout[5], vals, e, h[4])
  /\ h[6] = AfterField(JettonLayout[6], vals, e, h[5])
  /\ h[7] = AfterField(JettonLayout[7], vals, e, h[6])
  /\ h[8] = AfterField(JettonLayout[8], vals, e, h[7])
  /\ h[9] = AfterField(JettonLayout[9], vals, e, h[8])
  /\ h[10] = AfterField(JettonLayout[10], vals, e, h[9])

(* They are the steps of the history.                                      *)
LEMMA MadeInSteps ==
  ASSUME NEW vals, NEW e, NEW h, Made(10, vals, e, h) PROVE MadeSteps(vals, e, h)
<1>1. /\ 1 \in 1..10 /\ 2 \in 1..10 /\ 3 \in 1..10 /\ 4 \in 1..10 /\ 5 \in 1..10 /\ 6 \in 1..10
      /\ 7 \in 1..10 /\ 8 \in 1..10 /\ 9 \in 1..10 /\ 10 \in 1..10
      /\ 1 - 1 = 0 /\ 2 - 1 = 1 /\ 3 - 1 = 2 /\ 4 - 1 = 3 /\ 5 - 1 = 4 /\ 6 - 1 = 5
      /\ 7 - 1 = 6 /\ 8 - 1 = 7 /\ 9 - 1 = 8 /\ 10 - 1 = 9
  OBVIOUS
<1> QED BY <1>1, Zenon DEF Made, MadeSteps

(* What there is before the first field.                                   *)
LEMMA FirstStage ==
  ASSUME NEW c, c = NoFields
  PROVE  Stage(c, StoreUint(NoBits, JettonOp, WordLen * ByteBits), <<>>, <<>>)
<1> DEFINE b == StoreUint(NoBits, JettonOp, WordLen * ByteBits)
<1>1. c = [bits |-> b, refs |-> <<>>, lines |-> <<>>]
  BY Zenon DEF NoFields
<1> HIDE DEF b
<1>2. c.bits = b /\ c.refs = <<>> /\ c.lines = <<>>
  BY <1>1
<1>3. <<>> \in Seq(References) /\ <<>> \in Seq(LineSet)
  OBVIOUS
<1> QED BY <1>2, <1>3, Zenon DEF Stage, b

(* What is stored for the query_id.                                        *)
QueryStored(vals) ==
  LET op == StoreUint(NoBits, JettonOp, WordLen * ByteBits)
  IN  IF Is(vals["has_query_id"]) THEN StoreBuffer(op, vals["query_id"])
      ELSE StoreUint(op, 0, LongLen * ByteBits)

(* After the query_id and its flag.                                        *)
LEMMA QueryStage ==
  ASSUME NEW vals, NEW e, NEW h, Made(10, vals, e, h)
  PROVE  Stage(h[2], QueryStored(vals), <<>>, <<>>)
<1> DEFINE op == StoreUint(NoBits, JettonOp, WordLen * ByteBits)
           f1 == JettonLayout[1]
           f2 == JettonLayout[2]
<1>1. h[0] = NoFields /\ h[1] = AfterField(f1, vals, e, h[0]) /\ h[2] = AfterField(f2, vals, e, h[1])
  <2>1. MadeSteps(vals, e, h)
    BY MadeInSteps, Zenon
  <2> QED BY <2>1, Zenon DEF MadeSteps
<1>2. /\ f1.name = "has_query_id" /\ f1.kind = "bool" /\ f2.name = "query_id" /\ f2.kind = "BE"
      /\ ~Missing(f1, vals) /\ (Missing(f2, vals) <=> ~Is(vals["has_query_id"]))
  BY JettonKindsSaid, JettonMissing, Zenon DEF JettonKindsAre
<1> HIDE DEF f1, f2
<1>3. Stage(h[0], op, <<>>, <<>>)
  BY <1>1, FirstStage, Zenon
<1> HIDE DEF op
<1>4. h[0].refs \in Seq(References) /\ h[0].bits = op
  BY <1>3, Zenon DEF Stage
<1>5. Added(h[1], h[0], h[0].bits, <<>>, <<>>)
  <2>1. f1.name \in {"has_query_id", "has_custom_payload", "has_forward_payload"}
    BY <1>2
  <2> QED BY <1>1, <1>2, <1>4, <2>1, FlagField, Zenon
<1>6. Stage(h[1], op, <<>>, <<>>)
  BY <1>3, <1>4, <1>5, StageSilent, Zenon
<1>7. h[1].refs \in Seq(References) /\ h[1].lines \in Seq(LineSet) /\ h[1].bits = op
  BY <1>6, Zenon DEF Stage
<1>8. CASE Is(vals["has_query_id"])
  <2>1. Added(h[2], h[1], StoreBuffer(h[1].bits, vals["query_id"]), <<>>, <<>>)
    BY <1>1, <1>2, <1>7, <1>8, QueryField, Zenon
  <2>2. Stage(h[2], StoreBuffer(op, vals["query_id"]), <<>>, <<>>)
    BY <1>6, <1>7, <2>1, StageSilent, Zenon
  <2> QED BY <1>8, <2>2, Zenon DEF QueryStored, op
<1>9. CASE ~Is(vals["has_query_id"])
  <2>1. Added(h[2], h[1], StoreUint(h[1].bits, 0, LongLen * ByteBits), <<>>, <<>>)
    BY <1>1, <1>2, <1>7, <1>9, QueryField, Zenon
  <2>2. Stage(h[2], StoreUint(op, 0, LongLen * ByteBits), <<>>, <<>>)
    BY <1>6, <1>7, <2>1, StageSilent, Zenon
  <2> QED BY <1>9, <2>2, Zenon DEF QueryStored, op
<1> QED BY <1>8, <1>9

(* A flag leaves all as it was.                                            *)
LEMMA FlagStage ==
  ASSUME NEW c, NEW b, NEW r, NEW l, Stage(c, b, r, l),
         NEW f, f.kind = "bool",
         f.name \in {"has_query_id", "has_custom_payload", "has_forward_payload"},
         NEW vals, NEW e, NEW d, ~Missing(f, vals), d = AfterField(f, vals, e, c)
  PROVE  Stage(d, b, r, l)
<1>1. c.refs \in Seq(References) /\ c.bits = b
  BY Zenon DEF Stage
<1>2. Added(d, c, c.bits, <<>>, <<>>)
  BY <1>1, FlagField, Zenon
<1> QED BY <1>1, <1>2, StageSilent, Zenon

(* An amount adds its bits and its line.                                   *)
LEMMA AmountStage ==
  ASSUME NEW c, NEW b, NEW r, NEW l, Stage(c, b, r, l),
         NEW f, f.kind = "varuint", f.name # "query_id",
         NEW vals, NEW e, NEW d, ~Missing(f, vals), d = AfterField(f, vals, e, c),
         NEW ls \in Seq(LineSet), LinesOf(f, vals[f.name], e) = ls
  PROVE  Stage(d, StoreCoinsBuf(b, Amount(vals[f.name])), r, l \o ls)
<1>1. c.refs \in Seq(References) /\ c.bits = b
  BY Zenon DEF Stage
<1>2. Added(d, c, StoreCoinsBuf(c.bits, Amount(vals[f.name])), <<>>, LinesOf(f, vals[f.name], e))
  BY <1>1, AmountField, Zenon
<1> QED BY <1>1, <1>2, StagePlain, Zenon

(* So does an address.                                                     *)
LEMMA AddressStage ==
  ASSUME NEW c, NEW b, NEW r, NEW l, Stage(c, b, r, l),
         NEW f, f.kind = "address", f.name # "query_id",
         NEW vals, NEW e, NEW d, ~Missing(f, vals), d = AfterField(f, vals, e, c),
         NEW ls \in Seq(LineSet), LinesOf(f, vals[f.name], e) = ls
  PROVE  Stage(d, StoreAddress(b, vals[f.name]), r, l \o ls)
<1>1. c.refs \in Seq(References) /\ c.bits = b
  BY Zenon DEF Stage
<1>2. Added(d, c, StoreAddress(c.bits, vals[f.name]), <<>>, LinesOf(f, vals[f.name], e))
  BY <1>1, AddressField, Zenon
<1> QED BY <1>1, <1>2, StagePlain, Zenon

(* A payload adds its bit, and its reference and line if it is there.      *)
LEMMA PayloadStage ==
  ASSUME NEW c, NEW b, NEW r, NEW l, Stage(c, b, r, l),
         NEW f, f.kind = "cellref", f.name # "query_id",
         NEW vals, NEW e, NEW d, d = AfterField(f, vals, e, c),
         NEW flag, Missing(f, vals) <=> ~Is(flag),
         NEW one \in OneOrNone, one = PayloadRef(flag, vals[f.name]),
         NEW ls \in Seq(LineSet), (IF one = <<>> THEN <<>> ELSE LinesOf(f, vals[f.name], e)) = ls
  PROVE  Stage(d, StoreBit(b, BitOfRef(one)), r \o one, l \o ls)
<1>1. c.refs \in Seq(References) /\ c.lines \in Seq(LineSet) /\ c.bits = b
  BY Zenon DEF Stage
<1>2. Added(d, c, StoreBit(c.bits, BitOfRef(one)), one,
            IF one = <<>> THEN <<>> ELSE LinesOf(f, vals[f.name], e))
  BY <1>1, PayloadField, Zenon
<1>3. one \in Seq(References)
  BY OneOrNoneType
<1>4. Added(d, c, StoreBit(b, BitOfRef(one)), one, ls)
  BY <1>1, <1>2, Zenon
<1> QED BY <1>3, <1>4, StageAdded, Zenon

-----------------------------------------------------------------------------
(* The two lines of a transfer that are always there.                      *)
UnitsLines(t) == Line("Jetton units", t.amount)
OwnerLines(t) == Line("Send jetton to", t.destination)
(* And the four that are there in expert mode.                             *)
ExcessLines(t, e) == InExpert(e, Line("Send excess to", t.response))
CustomLines(t, e) == InExpert(e, LineOfRef("Custom payload", t.custom))
SentLines(t, e)   == InExpert(e, Line("Forward amount", t.forward_amount))
LastLines(t, e)   == InExpert(e, LineOfRef("Forward payload", t.forward))

(* They are lines, and in a row they are the transfer's.                   *)
LEMMA AllTransferLines ==
  ASSUME NEW t, GoodTransfer(t), NEW e
  PROVE  /\ ((((UnitsLines(t) \o OwnerLines(t)) \o ExcessLines(t, e)) \o CustomLines(t, e))
               \o SentLines(t, e)) \o LastLines(t, e) = TransferLines(t, e)
         /\ UnitsLines(t) \in Seq(LineSet) /\ OwnerLines(t) \in Seq(LineSet)
         /\ ExcessLines(t, e) \in Seq(LineSet) /\ CustomLines(t, e) \in Seq(LineSet)
         /\ SentLines(t, e) \in Seq(LineSet) /\ LastLines(t, e) \in Seq(LineSet)
<1> DEFINE L3 == Line("Jetton units", t.amount)
           L4 == Line("Send jetton to", t.destination)
           X == Line("Send excess to", t.response)
           C == LineOfRef("Custom payload", t.custom)
           G == Line("Forward amount", t.forward_amount)
           P == LineOfRef("Forward payload", t.forward)
<1>1. /\ ((((L3 \o L4) \o InExpert(e, X)) \o InExpert(e, C)) \o InExpert(e, G)) \o InExpert(e, P)
              = TransferLines(t, e)
      /\ L3 \in Seq(LineSet) /\ L4 \in Seq(LineSet)
      /\ InExpert(e, X) \in Seq(LineSet) /\ InExpert(e, C) \in Seq(LineSet)
      /\ InExpert(e, G) \in Seq(LineSet) /\ InExpert(e, P) \in Seq(LineSet)
  BY AllLines
<1> QED BY <1>1, Zenon
        DEF UnitsLines, OwnerLines, ExcessLines, CustomLines, SentLines, LastLines

(* The cell of a transfer is the one its fields describe, and so are the   *)
(* lines.                                                                  *)
LEMMA TransferCell ==
  ASSUME NEW vals \in Values(JettonLayout), \A i \in 1..10 : FieldInForm(JettonLayout[i], vals),
         NEW e, NEW h, Made(10, vals, e, h), NEW t, t = Transferred(vals)
  PROVE  /\ GoodTransfer(t) /\ Holds(h[10].bits, FromTransfer(t))
         /\ h[10].refs = t.custom \o t.forward /\ h[10].lines = TransferLines(t, e)
<1> DEFINE op == StoreUint(NoBits, JettonOp, WordLen * ByteBits)
           query == QueryStored(vals)
           units == StoreCoinsBuf(query, t.amount)
           owner == StoreAddress(units, t.destination)
           excess == StoreAddress(owner, t.response)
           custom == StoreBit(excess, BitOfRef(t.custom))
           sent == StoreCoinsBuf(custom, t.forward_amount)
           last == StoreBit(sent, BitOfRef(t.forward))
           l4 == UnitsLines(t) \o OwnerLines(t)
           l5 == l4 \o ExcessLines(t, e)
           l7 == l5 \o CustomLines(t, e)
           l8 == l7 \o SentLines(t, e)
           l10 == l8 \o LastLines(t, e)
<1>1. GoodTransfer(t) /\ vals["query_id"] \in Seq(Nat)
  BY TransferredIsGood
<1>2. TransferredAs(t, vals)
  BY TransferredSays
<1>3. MadeSteps(vals, e, h)
  BY MadeInSteps
<1>4. JettonKindsAre
  BY JettonKindsSaid
<1>5. Holds(last, FromTransfer(t))
  <2>1. \/ query = StoreUint(op, 0, LongLen * ByteBits)
             /\ t.query_id = UintBits(0, LongLen * ByteBits)
        \/ \E id \in Seq(Nat) : query = StoreBuffer(op, id) /\ t.query_id = BytesBits(id)
    BY <1>1, <1>2, Zenon DEF QueryStored, TransferredAs
  <2> HIDE DEF query
  <2> QED BY <1>1, <2>1, TransferBuilt
<1>6. /\ l10 = TransferLines(t, e)
      /\ UnitsLines(t) \in Seq(LineSet) /\ OwnerLines(t) \in Seq(LineSet)
      /\ ExcessLines(t, e) \in Seq(LineSet) /\ CustomLines(t, e) \in Seq(LineSet)
      /\ SentLines(t, e) \in Seq(LineSet) /\ LastLines(t, e) \in Seq(LineSet)
  BY <1>1, AllTransferLines
<1>7. t.custom \in OneOrNone /\ t.forward \in OneOrNone
  BY <1>1 DEF GoodTransfer
<1> HIDE DEF op, query, units, owner, excess, custom, sent, last, l4, l5, l7, l8, l10
<1>8. Stage(h[2], query, <<>>, <<>>)
  BY QueryStage DEF query
<1>9. Stage(h[3], units, <<>>, UnitsLines(t))
  <2> DEFINE f == JettonLayout[3]
  <2>1. f.name = "amount" /\ f.kind = "varuint" /\ h[3] = AfterField(f, vals, e, h[2])
    BY <1>3, <1>4, Zenon DEF MadeSteps, JettonKindsAre
  <2>2. ~Missing(f, vals) /\ t.amount = Amount(vals[f.name])
    BY <1>2, <2>1, JettonMissing, Zenon DEF TransferredAs
  <2> HIDE DEF f
  <2>3. LinesOf(f, vals[f.name], e) = UnitsLines(t)
    BY <2>1, <2>2, UnitsLine DEF UnitsLines
  <2>4. f.name # "query_id"
    BY <2>1
  <2>5. Stage(h[3], StoreCoinsBuf(query, Amount(vals[f.name])), <<>>, <<>> \o UnitsLines(t))
    BY <1>6, <1>8, <2>1, <2>2, <2>3, <2>4, AmountStage, Zenon
  <2>6. <<>> \o UnitsLines(t) = UnitsLines(t)
    BY <1>6
  <2> QED BY <2>2, <2>5, <2>6, Zenon DEF units
<1>10. Stage(h[4], owner, <<>>, l4)
  <2> DEFINE f == JettonLayout[4]
  <2>1. f.name = "destination" /\ f.kind = "address" /\ h[4] = AfterField(f, vals, e, h[3])
    BY <1>3, <1>4, Zenon DEF MadeSteps, JettonKindsAre
  <2>2. ~Missing(f, vals) /\ t.destination = vals[f.name]
    BY <1>2, <2>1, JettonMissing, Zenon DEF TransferredAs
  <2> HIDE DEF f
  <2>3. LinesOf(f, vals[f.name], e) = OwnerLines(t)
    BY <2>1, <2>2, OwnerLine DEF OwnerLines
  <2>4. f.name # "query_id"
    BY <2>1
  <2>5. Stage(h[4], StoreAddress(units, vals[f.name]), <<>>, UnitsLines(t) \o OwnerLines(t))
    BY <1>6, <1>9, <2>1, <2>2, <2>3, <2>4, AddressStage, Zenon
  <2> QED BY <2>2, <2>5, Zenon DEF owner, l4
<1>11. Stage(h[5], excess, <<>>, l5)
  <2> DEFINE f == JettonLayout[5]
  <2>1. f.name = "response" /\ f.kind = "address" /\ h[5] = AfterField(f, vals, e, h[4])
    BY <1>3, <1>4, Zenon DEF MadeSteps, JettonKindsAre
  <2>2. ~Missing(f, vals) /\ t.response = vals[f.name]
    BY <1>2, <2>1, JettonMissing, Zenon DEF TransferredAs
  <2> HIDE DEF f
  <2>3. LinesOf(f, vals[f.name], e) = ExcessLines(t, e)
    BY <2>1, <2>2, ExcessLine DEF ExcessLines
  <2>4. f.name # "query_id"
    BY <2>1
  <2>5. Stage(h[5], StoreAddress(owner, vals[f.name]), <<>>, l4 \o ExcessLines(t, e))
    BY <1>6, <1>10, <2>1, <2>2, <2>3, <2>4, AddressStage, Zenon
  <2> QED BY <2>2, <2>5, Zenon DEF excess, l5
<1>12. Stage(h[6], excess, <<>>, l5)
  <2> DEFINE f == JettonLayout[6]
  <2>1. /\ f.name = "has_custom_payload" /\ f.kind = "bool" /\ h[6] = AfterField(f, vals, e, h[5])
        /\ ~Missing(f, vals)
    BY <1>3, <1>4, JettonMissing, Zenon DEF MadeSteps, JettonKindsAre
  <2> HIDE DEF f
  <2>2. f.name \in {"has_query_id", "has_custom_payload", "has_forward_payload"}
    BY <2>1
  <2> QED BY <1>11, <2>1, <2>2, FlagStage, Zenon
<1>13. Stage(h[7], custom, t.custom, l7)
  <2> DEFINE f == JettonLayout[7]
             flag == vals["has_custom_payload"]
  <2>1. /\ f.name = "custom_payload" /\ f.kind = "cellref" /\ h[7] = AfterField(f, vals, e, h[6])
        /\ (Missing(f, vals) <=> ~Is(flag))
    BY <1>3, <1>4, JettonMissing, Zenon DEF MadeSteps, JettonKindsAre
  <2>2. t.custom = PayloadRef(flag, vals[f.name])
    BY <1>2, <2>1, Zenon DEF TransferredAs
  <2> HIDE DEF f, flag
  <2>3. (IF t.custom = <<>> THEN <<>> ELSE LinesOf(f, vals[f.name], e)) = CustomLines(t, e)
    <3>1. /\ f.name \in DOMAIN JettonLine /\ JettonLine[f.name].expert
          /\ JettonLine[f.name].item = "Custom payload"
      BY <2>1, JettonLineSays
    <3>2. LineIfThere(f, vals[f.name], e, "Custom payload", t.custom)
      BY <2>1, <2>2, <3>1, RefLine, Zenon
    <3> QED BY <3>2, Zenon DEF LineIfThere, CustomLines
  <2>4. f.name # "query_id"
    BY <2>1
  <2>5. Stage(h[7], StoreBit(excess, BitOfRef(t.custom)), <<>> \o t.custom, l5 \o CustomLines(t, e))
    BY <1>6, <1>7, <1>12, <2>1, <2>2, <2>3, <2>4, PayloadStage, Zenon
  <2>6. <<>> \o t.custom = t.custom
    <3>1. t.custom \in Seq(References)
      BY <1>7, OneOrNoneType
    <3> QED BY <3>1
  <2> QED BY <2>5, <2>6, Zenon DEF custom, l7
<1>14. Stage(h[8], sent, t.custom, l8)
  <2> DEFINE f == JettonLayout[8]
  <2>1. f.name = "forward_amount" /\ f.kind = "varuint" /\ h[8] = AfterField(f, vals, e, h[7])
    BY <1>3, <1>4, Zenon DEF MadeSteps, JettonKindsAre
  <2>2. ~Missing(f, vals) /\ t.forward_amount = Amount(vals[f.name])
    BY <1>2, <2>1, JettonMissing, Zenon DEF TransferredAs
  <2> HIDE DEF f
  <2>3. LinesOf(f, vals[f.name], e) = SentLines(t, e)
    BY <2>1, <2>2, ForwardLine DEF SentLines
  <2>4. f.name # "query_id"
    BY <2>1
  <2>5. Stage(h[8], StoreCoinsBuf(custom, Amount(vals[f.name])), t.custom, l7 \o SentLines(t, e))
    BY <1>6, <1>13, <2>1, <2>2, <2>3, <2>4, AmountStage, Zenon
  <2> QED BY <2>2, <2>5, Zenon DEF sent, l8
<1>15. Stage(h[9], sent, t.custom, l8)
  <2> DEFINE f == JettonLayout[9]
  <2>1. /\ f.name = "has_forward_payload" /\ f.kind = "bool" /\ h[9] = AfterField(f, vals, e, h[8])
        /\ ~Missing(f, vals)
    BY <1>3, <1>4, JettonMissing, Zenon DEF MadeSteps, JettonKindsAre
  <2> HIDE DEF f
  <2>2. f.name \in {"has_query_id", "has_custom_payload", "has_forward_payload"}
    BY <2>1
  <2> QED BY <1>14, <2>1, <2>2, FlagStage, Zenon
<1>16. Stage(h[10], last, t.custom \o t.forward, l10)
  <2> DEFINE f == JettonLayout[10]
             flag == vals["has_forward_payload"]
  <2>1. /\ f.name = "forward_payload" /\ f.kind = "cellref" /\ h[10] = AfterField(f, vals, e, h[9])
        /\ (Missing(f, vals) <=> ~Is(flag))
    BY <1>3, <1>4, JettonMissing, Zenon DEF MadeSteps, JettonKindsAre
  <2>2. t.forward = PayloadRef(flag, vals[f.name])
    BY <1>2, <2>1, Zenon DEF TransferredAs
  <2> HIDE DEF f, flag
  <2>3. (IF t.forward = <<>> THEN <<>> ELSE LinesOf(f, vals[f.name], e)) = LastLines(t, e)
    <3>1. /\ f.name \in DOMAIN JettonLine /\ JettonLine[f.name].expert
          /\ JettonLine[f.name].item = "Forward payload"
      BY <2>1, JettonLineSays
    <3>2. LineIfThere(f, vals[f.name], e, "Forward payload", t.forward)
      BY <2>1, <2>2, <3>1, RefLine, Zenon
    <3> QED BY <3>2, Zenon DEF LineIfThere, LastLines
  <2>4. f.name # "query_id"
    BY <2>1
  <2>5. Stage(h[10], StoreBit(sent, BitOfRef(t.forward)), t.custom \o t.forward, l8 \o LastLines(t, e))
    BY <1>6, <1>7, <1>15, <2>1, <2>2, <2>3, <2>4, PayloadStage, Zenon
  <2> QED BY <2>5, Zenon DEF last, l10
<1> QED BY <1>1, <1>5, <1>6, <1>16, Zenon DEF Stage

(* The schema of a comment, part by part.                                  *)
LEMMA CommentParts ==
  /\ \E P : CommentSchema \in Seq(P)
  /\ Len(CommentSchema) = 2
  /\ CommentSchema[1] = Part("op", "tag", UintBits(0, WordLen * ByteBits))
  /\ CommentSchema[2] = Part("text", "rest", 0)
<1> DEFINE p1 == Part("op", "tag", UintBits(0, WordLen * ByteBits))
           p2 == Part("text", "rest", 0)
           P == {p1, p2}
<1>1. CommentSchema = <<p1, p2>>
  BY DEF CommentSchema
<1> HIDE DEF p1, p2
<1>2. CommentSchema \in Seq(P)
  BY <1>1
<1>3. Len(CommentSchema) = 2 /\ CommentSchema[1] = p1 /\ CommentSchema[2] = p2
  BY <1>1
<1> QED BY <1>2, <1>3 DEF p1, p2

(* A comment: its bytes behind the op.                                     *)
FromComment(text) == UintBits(0, WordLen * ByteBits) \o (BytesBits(text) \o <<>>)

(* A cell has room for one that the parser takes.                          *)
LEMMA CommentFits ==
  ASSUME NEW text \in Seq(Nat), Len(text) <= MaxMemo
  PROVE  /\ UintBits(0, WordLen * ByteBits) \in Seq(Bit)
         /\ BytesBits(text) \in Seq(Bit) /\ BytesBits(text) \o <<>> = BytesBits(text)
         /\ FromComment(text) \in Seq(Bit) /\ Len(FromComment(text)) <= Room
<1> DEFINE x == UintBits(0, WordLen * ByteBits)
           y == BytesBits(text)
           n == Len(text)
<1>1. /\ WordLen \in Nat /\ ByteBits \in Nat /\ WordLen * ByteBits \in Nat /\ MaxMemo \in Nat
      /\ n \in Nat /\ n <= MaxMemo
  BY WidthsAreNumbers, PayloadAssumption
<1>2. x \in Seq(Bit) /\ Len(x) = WordLen * ByteBits
  BY <1>1, UintBitsType
<1>3. y \in Seq(Bit) /\ Len(y) = ByteBits * n
  BY BytesBitsType
<1>4. FromComment(text) = x \o (y \o <<>>)
  BY DEF FromComment
<1> HIDE DEF x, y, n
<1>5. y \o <<>> = y
  BY <1>3
<1>6. x \o y \in Seq(Bit) /\ Len(x \o y) = Len(x) + Len(y)
  BY <1>2, <1>3, ConcatProperties
<1>7. ByteBits * n <= ByteBits * MaxMemo
  <2>1. MaxMemo - n \in Nat /\ ByteBits * (MaxMemo - n) \in Nat
    BY <1>1
  <2>2. ByteBits * MaxMemo = ByteBits * n + ByteBits * (MaxMemo - n)
    BY <1>1
  <2>3. ByteBits * n \in Nat /\ ByteBits * MaxMemo \in Nat
    BY <1>1
  <2> QED BY <2>1, <2>2, <2>3
<1>8. WordLen * ByteBits + ByteBits * MaxMemo = (WordLen + MaxMemo) * ByteBits
  BY <1>1
<1>9. (WordLen + MaxMemo) * ByteBits <= Room
  BY PayloadAssumption DEF Room
<1>10. /\ ByteBits * n \in Nat /\ ByteBits * MaxMemo \in Nat
       /\ (WordLen + MaxMemo) * ByteBits \in Nat /\ Room \in Nat
  BY <1>1, WidthsAssumption, BitStringAssumption DEF Room
<1>11. Len(x \o y) <= Room
  <2> DEFINE a == WordLen * ByteBits
             b == ByteBits * n
             c == ByteBits * MaxMemo
  <2>1. /\ a \in Nat /\ b \in Nat /\ c \in Nat /\ Room \in Nat
        /\ b <= c /\ Len(x \o y) = a + b
    BY <1>1, <1>2, <1>3, <1>6, <1>7, <1>10, Zenon
  <2>2. a + c <= Room
    BY <1>8, <1>9, Zenon
  <2> HIDE DEF a, b, c
  <2> QED BY <2>1, <2>2
<1>12. FromComment(text) = x \o y
  BY <1>4, <1>5
<1> QED BY <1>2, <1>3, <1>5, <1>6, <1>11, <1>12 DEF x, y

(* The stores of a comment make it.                                        *)
LEMMA CommentBuilt ==
  ASSUME NEW text \in Seq(Nat), Len(text) <= MaxMemo
  PROVE  Holds(StoreBuffer(StoreUint(NoBits, 0, WordLen * ByteBits), text), FromComment(text))
<1> DEFINE whole == FromComment(text)
           n == WordLen * ByteBits
           op == StoreUint(NoBits, 0, n)
<1>1. /\ whole \in Seq(Bit) /\ Len(whole) <= Room /\ BytesBits(text) \o <<>> \in Seq(Bit)
      /\ whole = UintBits(0, n) \o (BytesBits(text) \o <<>>)
  BY CommentFits DEF FromComment
<1>2. n \in Nat /\ 0 \in Nat /\ <<>> \in Seq(Bit)
  BY WidthsAreNumbers
<1> HIDE DEF whole, n
<1>3. Building(NoBits, UintBits(0, n) \o (BytesBits(text) \o <<>>), whole)
  BY <1>1, NothingBuilt
<1>4. Building(op, BytesBits(text) \o <<>>, whole)
  BY <1>1, <1>2, <1>3, StoreUintBuilds
<1> HIDE DEF op
<1>5. Building(StoreBuffer(op, text), <<>>, whole)
  BY <1>2, <1>4, StoreBufferBuilds
<1>6. Holds(StoreBuffer(op, text), whole)
  BY <1>5, AllBuilt
<1> QED BY <1>6 DEF whole, n, op

(* What is read in its cell.                                               *)
LEMMA CommentRead ==
  ASSUME NEW text \in Seq(Nat), Len(text) <= MaxMemo,
         NEW m, m = ReadBy(CommentSchema, [bits |-> FromComment(text), refs |-> <<>>])
  PROVE  m.ok /\ m.values.text = BytesBits(text)
<1> DEFINE cell == [bits |-> FromComment(text), refs |-> <<>>]
           x == UintBits(0, WordLen * ByteBits)
           y == BytesBits(text)
           v == Holding(<<>>, "text", y)
<1>1. PICK P : CommentSchema \in Seq(P)
  BY CommentParts
<1>2. PICK run : /\ ReadRun(run, cell, CommentSchema)
                 /\ FoldLeft(ReadPart, Unread(cell), CommentSchema) = run[Len(CommentSchema)]
  BY <1>1, ReadByRuns
<1>3. run[0] = Unread(cell) /\ FoldLeft(ReadPart, Unread(cell), CommentSchema) = run[2]
  BY <1>2, CommentParts DEF ReadRun
<1>4. \A i \in 1..2 : run[i] = ReadPart(run[i - 1], CommentSchema[i])
  BY <1>2, CommentParts DEF ReadRun
<1>5. At(run[0], FromComment(text), <<>>, <<>>)
  BY <1>3, StartsUnread
<1>6. x \in Seq(Bit) /\ y \in Seq(Bit) /\ FromComment(text) = x \o y
  BY CommentFits DEF FromComment
<1>7. run[1] = ReadPart(run[0], Part("op", "tag", x))
  <2>1. 1 \in 1..2 /\ 1 - 1 = 0
    OBVIOUS
  <2>2. run[1] = ReadPart(run[1 - 1], CommentSchema[1])
    BY <1>4, <2>1
  <2> QED BY <2>1, <2>2, CommentParts, Zenon
<1>8. run[2] = ReadPart(run[1], Part("text", "rest", 0))
  <2>1. 2 \in 1..2 /\ 2 - 1 = 1
    OBVIOUS
  <2>2. run[2] = ReadPart(run[2 - 1], CommentSchema[2])
    BY <1>4, <2>1
  <2> QED BY <2>1, <2>2, CommentParts, Zenon
<1> HIDE DEF cell, x, y, v
<1>9. At(run[1], y, <<>>, <<>>)
  <2>1. At(run[0], x \o y, <<>>, <<>>)
    BY <1>5, <1>6
  <2> QED BY <1>6, <1>7, <2>1, ReadTagPart
<1>10. At(run[2], <<>>, <<>>, v)
  BY <1>6, <1>8, <1>9, ReadRestPart DEF v
<1>11. m.ok /\ m.values = v
  BY <1>3, <1>10, ReadToTheEnd DEF cell
<1>12. Has(v, "text", y)
  BY HasNew DEF v
<1> QED BY <1>11, <1>12 DEF Has, y

-----------------------------------------------------------------------------
(* The lines that are shown, of the lines there are.                       *)
LEMMA LinesShownAre == LinesShown = ShownLines(lines)
BY Zenon DEF LinesShown, ShownLines, ShownLine

(* An accepted payload with a comment.                                     *)
LEMMA CommentDescribed ==
  ASSUME TypeOK, CommentMade, cells[PayloadHash] = Representation(bits, refs),
         NEW m, m = ReadBy(CommentSchema, CellOf(cells[PayloadHash]))
  PROVE  m.ok /\ LinesShown = Shown("Comment", m.values.text)
<1> DEFINE text == tx.hints_data
<1>1. text \in Seq(Nat) /\ Len(text) <= MaxMemo
  BY NamedFields, BytesAreNumbers DEF TypeOK, CommentMade
<1>2. Holds(bits, FromComment(text)) /\ refs = <<>> /\ lines = Line("Comment", text)
  BY <1>1, CommentBuilt DEF CommentMade, Line
<1> HIDE DEF text
<1>3. refs \in Seq([max_depth : Nat, hash : Seq(Nat)])
  BY <1>2
<1>4. CellOf(Representation(bits, refs)) = [bits |-> FromComment(text), refs |-> refs]
  BY <1>2, <1>3, CellReadsBack
<1>5. m = ReadBy(CommentSchema, [bits |-> FromComment(text), refs |-> <<>>])
  BY <1>2, <1>4
<1>6. m.ok /\ m.values.text = BytesBits(text)
  BY <1>1, <1>5, CommentRead
<1>7. ShownLines(Line("Comment", text)) = Shown("Comment", BytesBits(text))
  BY ShownOne
<1>8. LinesShown = Shown("Comment", BytesBits(text))
  BY <1>2, <1>7, LinesShownAre
<1> QED BY <1>6, <1>8

(* An accepted payload with a transfer.                                    *)
LEMMA TransferDescribed ==
  ASSUME TypeOK, TransferMade(10), cells[PayloadHash] = Representation(bits, refs),
         NEW m, m = ReadBy(JettonSchema, CellOf(cells[PayloadHash]))
  PROVE  m.ok /\ LinesShown = JettonReview(m.values)
<1>1. PICK h : Made(10, jetton, expert, h) /\ h[10] = Described
  BY Zenon DEF TransferMade
<1>2. /\ jetton \in Values(JettonLayout)
      /\ \A i \in 1..10 : FieldInForm(JettonLayout[i], jetton)
  BY Zenon DEF TypeOK, TransferMade, TransferInForm
<1> DEFINE t == Transferred(jetton)
           R == t.custom \o t.forward
           cell == [bits |-> FromTransfer(t), refs |-> R]
<1>3. /\ GoodTransfer(t) /\ Holds(h[10].bits, FromTransfer(t))
      /\ h[10].refs = R /\ h[10].lines = TransferLines(t, expert)
  BY <1>1, <1>2, TransferCell
<1>4. h[10].bits = bits /\ h[10].refs = refs /\ h[10].lines = lines
  BY <1>1 DEF Described
<1> HIDE DEF t
<1>5. t.custom \in Seq(References) /\ t.forward \in Seq(References)
  BY <1>3, OneOrNoneType DEF GoodTransfer
<1>6. R \in Seq([max_depth : Nat, hash : Seq(Nat)])
  BY <1>5 DEF References
<1> HIDE DEF R
<1>7. refs = R /\ lines = TransferLines(t, expert) /\ Holds(bits, FromTransfer(t))
  BY <1>3, <1>4, Zenon
<1>8. CellOf(Representation(bits, refs)) = cell
  <2>1. CellOf(Representation(bits, R)) = [bits |-> FromTransfer(t), refs |-> R]
    BY <1>6, <1>7, CellReadsBack
  <2> QED BY <1>7, <2>1, Zenon
<1>9. m = ReadBy(JettonSchema, [bits |-> FromTransfer(t), refs |-> t.custom \o t.forward])
  BY <1>8, Zenon DEF R
<1>10. /\ m.ok
       /\ m.values.amount = BytesBits(t.amount)
       /\ m.values.destination = BytesBits(t.destination)
       /\ m.values.response_destination = BytesBits(t.response)
       /\ m.values.custom_payload = RefOf(t.custom)
       /\ m.values.forward_ton_amount = BytesBits(t.forward_amount)
       /\ m.values.forward_payload = RefOf(t.forward)
  BY <1>3, <1>9, TransferRead
<1>11. ShownLines(TransferLines(t, expert)) = JettonReview(m.values)
  BY <1>3, <1>10, TransferShown
<1>12. LinesShown = JettonReview(m.values)
  BY <1>7, <1>11, LinesShownAre, Zenon
<1> QED BY <1>10, <1>12

(* transaction_hints.c: the cell whose hash is signed as the payload says  *)
(* what the lines of the review say, each part of it on its line, in their *)
(* order, and nothing else.                                                *)
THEOREM PayloadIsDescribed == Spec => []LinesDescribePayload
<1>1. ASSUME TypeOK, PayloadInv
      PROVE  LinesDescribePayload
  <2>1. SUFFICES
          ASSUME Accepted, Is(tx.has_payload), HintsType \in {0, 1},
                 NEW comment, comment = ReadBy(CommentSchema, CellOf(cells[PayloadHash])),
                 NEW transfer, transfer = ReadBy(JettonSchema, CellOf(cells[PayloadHash]))
          PROVE  IF HintsType = 0
                 THEN comment.ok /\ LinesShown = Shown("Comment", comment.values.text)
                 ELSE transfer.ok /\ LinesShown = JettonReview(transfer.values)
    BY Zenon DEF LinesDescribePayload, HintsType, PayloadHash
  <2>2. PayloadMade /\ cells[PayloadHash] = Representation(bits, refs)
    BY <1>1, <2>1 DEF PayloadInv, PayloadCompared, TRANSACTION_COMMENT, TRANSACTION_TRANSFER_JETTON
  <2>3. CASE HintsType = 0
    <3>1. CommentMade
      BY <2>2, <2>3 DEF PayloadMade, TRANSACTION_COMMENT
    <3> QED BY <1>1, <2>1, <2>2, <2>3, <3>1, CommentDescribed
  <2>4. CASE HintsType = 1
    <3>1. TransferMade(10)
      BY <2>2, <2>4 DEF PayloadMade, TRANSACTION_TRANSFER_JETTON
    <3> QED BY <1>1, <2>1, <2>2, <2>4, <3>1, TransferDescribed
  <2> QED BY <2>1, <2>3, <2>4
<1> QED BY <1>1, RequestInvariant, PayloadInvariant, PTL DEF RequestInv
=============================================================================
