------------------------ MODULE DataParserProperties ------------------------
(***************************************************************************)
(* What an accepted sign-data request means to the contract that reads the *)
(* signed cell, by the schemas of doc/CUSTOM_DATA.md.                      *)
(***************************************************************************)
EXTENDS DataParser, CellReader

AppSchema ==
  << Part("address", "maybeAddress", <<1, 1, 0, 0>>),
     Part("domain", "maybe^", <<1>>),
     Part("data", "^", 0),
     Part("ext", "maybe^", <<1>>) >>

(* A domain in its cell: labels from the last to the first, each ended by  *)
(* a zero byte; the text has them the other way round, with dots between.  *)
BitsBytes(b) ==
  [k \in 1..(Len(b) \div ByteBits) |->
     Number(SubSeq(b, (k - 1) * ByteBits + 1, k * ByteBits))]

DomainText(bytes) ==
  LET End(from) ==
        CHOOSE e \in from..Len(bytes) :
          bytes[e] = 0 /\ \A i \in from..(e - 1) : bytes[i] # 0
      Text[from \in 1..Len(bytes)] ==
        LET label == SubSeq(bytes, from, End(from) - 1)
        IN  IF End(from) = Len(bytes) THEN label
            ELSE Text[End(from) + 1] \o <<Dot>> \o label
  IN  Text[1]

IsDomain(ref) ==
  LET c == CellOf(ref.hash)
  IN  /\ c.refs = <<>> /\ Len(c.bits) % ByteBits = 0 /\ c.bits # <<>>
      /\ SubSeq(c.bits, Len(c.bits) - ByteBits + 1, Len(c.bits)) = UintBits(0, ByteBits)

-----------------------------------------------------------------------------
Accepted == status \in {"accepted", "signed"}

SignedSchema == BytesNumber(SubSeq(signed, 1, WordLen))
SignedTime   == SubSeq(signed, WordLen + 1, WordLen + LongLen)
SignedCell   == SubSeq(signed, WordLen + LongLen + 1, Len(signed))

Shown(item, value) == <<[item |-> item, shows |-> value]>>

AppReview(v) ==
  (IF v.address = <<>> THEN <<>> ELSE Shown("Contract address", v.address))
    \o (IF v.domain = <<>> THEN <<>>
        ELSE Shown("App domain",
                   BytesBits(DomainText(BitsBytes(CellOf(v.domain.hash).bits)))))
    \o Shown("Data hash", v.data.hash)
    \o (IF v.ext = <<>> THEN <<>> ELSE Shown("Extension hash", v.ext.hash))

LinesShown ==
  [i \in 1..Len(lines) |->
     [item |-> lines[i].item,
      shows |-> IF lines[i].item \in {"Data hash", "Extension hash"}
                THEN lines[i].body ELSE BytesBits(lines[i].body)]]

-----------------------------------------------------------------------------
(* What there is of an optional part once n fields have been read: field i *)
(* is its flag and field k the last one of the part.                       *)
PartAfter(n, flag, i, k, absent, present) ==
  IF n < i \/ (Is(flag) /\ n < k) THEN <<>> ELSE IF Is(flag) THEN present ELSE absent

BitsAfter(n, d) ==
  PartAfter(n, d.has_address, 1, 2, <<0>>, <<1, 1, 0, 0>> \o BytesBits(d.addr))
    \o PartAfter(n, d.has_domain, 3, 5, <<0>>, <<1>>)
    \o PartAfter(n, d.has_ext, 7, 8, <<0>>, <<1>>)

RefsAfter(n, d) ==
  PartAfter(n, d.has_domain, 3, 5, <<>>, <<HashCell(EncodeDomain(d.domain), <<>>)>>)
    \o (IF n < 6 THEN <<>> ELSE <<CellRef(d.data)>>)
    \o PartAfter(n, d.has_ext, 7, 8, <<>>, <<CellRef(d.ext)>>)

LinesAfter(n, d) ==
  PartAfter(n, d.has_address, 1, 2, <<>>, <<Line("Contract address", d.addr)>>)
    \o PartAfter(n, d.has_domain, 3, 5, <<>>, <<Line("App domain", d.domain)>>)
    \o (IF n < 6 THEN <<>> ELSE <<Line("Data hash", CellRef(d.data).hash)>>)
    \o PartAfter(n, d.has_ext, 7, 8, <<>>, <<Line("Extension hash", CellRef(d.ext).hash)>>)

(* The fields that are stored are as long as the stores take them to be.   *)
Sized(n, d) ==
  /\ n >= 2 /\ Is(d.has_address) => Len(d.addr) = 1 + HashLen
  /\ n >= 4 /\ Is(d.has_domain) => BytesNumber(d.domain_len) <= MaxDomain
  /\ n >= 5 /\ Is(d.has_domain) => Len(d.domain) <= MaxDomain /\ IsAscii(d.domain)
  /\ n >= 6 => Len(d.data) = ShortLen + HashLen
  /\ n >= 8 /\ Is(d.has_ext) => Len(d.ext) = ShortLen + HashLen

AppRead(n, d, t, links, shown) ==
  /\ t \in BitString /\ Content(t) = BitsAfter(n, d)
  /\ links = RefsAfter(n, d) /\ shown = LinesAfter(n, d) /\ Sized(n, d)

TextRead ==
  LET text == SubSeq(buf.ptr, WordLen + LongLen + 1, buf.offset)
  IN  /\ Len(text) <= MaxPlaintext /\ lines = <<Line("Text", text)>>
      /\ bits = EncodeText(text).bits /\ refs = EncodeText(text).refs

HeaderRead ==
  /\ WordLen + LongLen <= buf.offset
  /\ data.schema_crc = SubSeq(buf.ptr, 1, WordLen)
  /\ data.timestamp = SubSeq(buf.ptr, WordLen + 1, WordLen + LongLen)

SchemaRead == BytesNumber(data.schema_crc)

(* sign_data_deserialize: wherever the parser is, the cell, its references *)
(* and the lines are what the fields read so far say.                      *)
RequestInCell ==
  /\ data \in Values(Header \o AppLayout) /\ InData(buf)
  /\ pc \in {"header", "request"} /\ status \in {"read", "refused", "accepted", "signed"}
  /\ pc = "header" =>
       /\ at \in 1..2 /\ status \in {"read", "refused"} /\ AppRead(0, data, bits, refs, lines)
       /\ buf.offset = (IF at = 1 THEN 0 ELSE WordLen)
       /\ at = 2 => data.schema_crc = SubSeq(buf.ptr, 1, WordLen)
  /\ pc = "request" => HeaderRead
  /\ pc = "request" /\ status = "read" =>
       /\ at \in 1..9 /\ AppRead(at - 1, data, bits, refs, lines)
       /\ SchemaRead # AppData => at = 1 /\ buf.offset = WordLen + LongLen
  /\ Accepted =>
       /\ pc = "request" /\ cell = Representation(bits, refs)
       /\ IF SchemaRead = Plaintext THEN TextRead
          ELSE SchemaRead = AppData /\ AppRead(8, data, bits, refs, lines)
  /\ status = "signed" => signed = data.schema_crc \o data.timestamp \o cell

(* sign_data_deserialize, crypto_sign_sign_data: what is signed is, for    *)
(* the schema and the time the request begins with, a text or app data,    *)
(* and what a contract reads in its cell is what the lines show, part by   *)
(* part and nothing else: the text put together from its cells, the domain *)
(* from its labels.                                                        *)
LinesDescribeCell ==
  status = "signed" =>
    LET root == CellOf(SignedCell)
        text == SnakeText(root)
        app  == ReadBy(AppSchema, root)
    IN  /\ SignedSchema = BytesNumber(SubSeq(buf.ptr, 1, WordLen))
        /\ SignedTime = SubSeq(buf.ptr, WordLen + 1, WordLen + LongLen)
        /\ IF SignedSchema = Plaintext
           THEN text.ok /\ LinesShown = Shown("Text", text.bits)
           ELSE /\ SignedSchema = AppData /\ app.ok
                /\ app.values.domain # <<>> => IsDomain(app.values.domain)
                /\ LinesShown = AppReview(app.values)

(* encode_text and encode_domain: no cell that is made here holds more    *)
(* than 1023 bits, the end of a long text and the longest domain included. *)
CellsFit ==
  Accepted =>
    LET root  == CellOf(cell)
        given == {CellRef(data[name]) : name \in {n \in {"data", "ext"} : data[n] # <<>>}}
        inner == {CellOf(ref.hash) : ref \in ToSet(root.refs) \ given}
    IN  \A c \in {root} \cup inner : Len(c.bits) <= CellBits

(* sign_data_deserialize, crypto_sign_sign_data: a request that a client   *)
(* has written, with a text or a domain of a length the app takes, is not  *)
(* refused, and what is signed is the schema, the time and the cell that   *)
(* the client has put together without the app.                            *)
ClientsCellIsSigned ==
  client # <<>> => status # "refused" /\ (status = "signed" => signed = client)
=============================================================================
