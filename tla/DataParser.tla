----------------------------- MODULE DataParser -----------------------------
(***************************************************************************)
(* sign_data/sign_data_deserialize.c on bytes: a sign-data request is read *)
(* field by field, shown line by line and put into the cell whose hash is  *)
(* signed, as crypto_sign_sign_data does once the lines are approved.      *)
(* SignDataRequest has the same function on abstract fields, with failing  *)
(* hash functions and requests parsed more than once.                      *)
(***************************************************************************)
EXTENDS FieldReader

CONSTANTS
  Requests,     \* [bytes, size, client]: what a host may send
  Dot,          \* '.'
  Plaintext,    \* 0x754bf91b: PLAINTEXT_REQUEST
  AppData,      \* 0x54b58535: APP_DATA_REQUEST
  CellBits,     \* 1023: bits a cell holds
  MaxPlaintext, \* 188: MAX_PLAINTEXT_LENGTH
  MaxDomain     \* 126: MAX_APP_DATA_DOMAIN_LENGTH

ASSUME RequestsAssumption ==
  /\ \A r \in Requests : /\ r.bytes \in Seq(Byte) /\ r.size \in 0..Len(r.bytes)
                         /\ r.size < SizeMod
  /\ {CellBits, MaxPlaintext, MaxDomain} \subseteq Nat
  /\ Plaintext # AppData /\ 0 \notin Ascii

(* A cell holds no more bits than a bit string; the number of its bytes is *)
(* a uint8_t; two cells hold a text, one holds a domain, one an address    *)
(* with its tag and the flags of what follows.                             *)
ASSUME CellAssumption ==
  /\ CellBits \in ByteBits..(Capacity * ByteBits)
  /\ CellBits \div ByteBits < 2^ByteBits
  /\ MaxPlaintext <= 2 * (CellBits \div ByteBits)
  /\ (MaxDomain + 1) * ByteBits <= CellBits
  /\ 6 + (1 + HashLen) * ByteBits <= CellBits

VARIABLES
  client, \* what its client expects to be signed; <<>> for no client's request
  pc,     \* the part being read
  at,     \* the next field of that part
  buf,    \* the request
  data,   \* the bytes of each field
  bits,   \* the cell, while it is built
  refs,
  lines,  \* sign_data_ctx_t.hints: the title and the bytes of each
  status, \* "read", "refused", "accepted" or "signed"
  cell,   \* what cell_hash is the hash of
  signed  \* the signed bytes, with cell in place of its hash

vars == <<client, pc, at, buf, data, bits, refs, lines, status, cell, signed>>

-----------------------------------------------------------------------------
Header ==
  << Field("schema_crc", "BE", WordLen, ""),
     Field("timestamp", "BE", LongLen, "") >>

AppLayout ==
  << Field("has_address", "bool", 0, ""),
     Field("addr", "address", 0, "has_address"),
     Field("has_domain", "bool", 0, ""),
     Field("domain_len", "bytes", 1, "has_domain"),
     Field("domain", "bytes", 0, "has_domain"),
     Field("data", "cellref", 0, ""),
     Field("has_ext", "bool", 0, ""),
     Field("ext", "cellref", 0, "has_ext") >>

AppTitle ==
  [addr |-> "Contract address", domain |-> "App domain",
   data |-> "Data hash", ext |-> "Extension hash"]

Line(item, body) == [item |-> item, body |-> body]

-----------------------------------------------------------------------------
(* Seeded fault: the labels stay in their order.                           *)
EncodeDomainForwards(domain) ==
  StoreBuffer(NoBits, [i \in 1..Len(domain) |->
                         IF domain[i] = Dot THEN 0 ELSE domain[i]] \o <<0>>)

(* roffset: the position of the last dot, 0 if there is none.              *)
LastDot(text) ==
  CHOOSE i \in 0..Len(text) :
    /\ i > 0 => text[i] = Dot
    /\ \A j \in (i + 1)..Len(text) : text[j] # Dot

(* encode_domain: the labels from the last to the first, each with a zero  *)
(* byte behind it.  Encoded[n] is for the first n bytes.                   *)
EncodeDomain(domain) ==
  LET Encoded[n \in 0..Len(domain)] ==
        LET dot == LastDot(SubSeq(domain, 1, n))
        IN  SubSeq(domain, dot + 1, n) \o <<0>>
              \o IF dot = 0 THEN <<>> ELSE Encoded[dot - 1]
  IN  StoreBuffer(NoBits, Encoded[Len(domain)])

(* Seeded fault: a cell is taken to hold one bit more.                     *)
StoreMaxRounded == ((CellBits + 1) \div ByteBits) % 2^ByteBits

(* encode_text into an empty cell: the bytes the cell takes, in a uint8_t, *)
(* and the cell itself.  Text[start] is for what begins there; the end of  *)
(* a long text goes to a cell of its own.                                  *)
StoreMax == (CellBits \div ByteBits) % 2^ByteBits

EncodeText(text) ==
  LET Text[start \in 1..(Len(text) + 1)] ==
        LET rest == SubSeq(text, start, Len(text))
            next == Text[start + StoreMax]
        IN  IF Len(rest) > StoreMax
            THEN [bits |-> StoreBuffer(NoBits, SubSeq(rest, 1, StoreMax)),
                  refs |-> <<HashCell(next.bits, next.refs)>>]
            ELSE [bits |-> StoreBuffer(NoBits, rest), refs |-> <<>>]
  IN  Text[1]

-----------------------------------------------------------------------------
Init ==
  /\ \E r \in Requests : /\ buf = Buffer(r.bytes, r.size)
                         /\ client = r.client
  /\ pc = "header" /\ at = 1
  /\ data = NoValues(Header \o AppLayout)
  /\ bits = NoBits /\ refs = <<>> /\ lines = <<>>
  /\ status = "read" /\ cell = <<>> /\ signed = <<>>

Refuse ==
  /\ status' = "refused"
  /\ UNCHANGED <<client, pc, at, buf, data, bits, refs, lines, cell, signed>>

(* The hash of the cell.                                                   *)
Accept(s, r) ==
  /\ bits' = s /\ refs' = r
  /\ cell' = Representation(s, r)
  /\ status' = "accepted"
  /\ UNCHANGED <<client, pc, at, signed>>

-----------------------------------------------------------------------------
(* schema_crc and timestamp                                                *)
ReadHeader ==
  /\ status = "read" /\ pc = "header"
  /\ LET f == Header[at]
         r == ReadCall(buf, [kind |-> f.kind, n |-> f.n])
     IN  IF ~r.ok THEN Refuse
         ELSE /\ buf' = r.buf
              /\ data' = [data EXCEPT ![f.name] = r.value]
              /\ IF at < Len(Header) THEN at' = at + 1 /\ UNCHANGED pc
                 ELSE pc' = "request" /\ at' = 1
              /\ UNCHANGED <<client, bits, refs, lines, status, cell, signed>>

Schema(crc) == status = "read" /\ pc = "request" /\ BytesNumber(data.schema_crc) = crc

(* PLAINTEXT_REQUEST: what is left of the request is the text.             *)
ReadPlaintext ==
  /\ Schema(Plaintext)
  /\ LET text == ReadBytes(buf, Remaining(buf))
         encoded == EncodeText(text.value)
     IN  IF Remaining(buf) > MaxPlaintext \/ ~IsAscii(text.value) THEN Refuse
         ELSE /\ buf' = text.buf
              /\ lines' = <<Line("Text", text.value)>>
              /\ Accept(encoded.bits, encoded.refs)
              /\ UNCHANGED data

(* Seeded fault: a domain of the largest length is refused.                *)
AppAllowedShorter(name, value) ==
  /\ name = "has_domain" => Is(data.has_address) \/ Is(value)
  /\ name = "domain_len" => value[1] < MaxDomain
  /\ name = "domain"     => IsAscii(value)

(* APP_DATA_REQUEST: one field of the table, or its absence.               *)
AppAllowed(name, value) ==
  /\ name = "has_domain" => Is(data.has_address) \/ Is(value)
  /\ name = "domain_len" => value[1] <= MaxDomain
  /\ name = "domain"     => IsAscii(value)

(* Seeded fault: a flag that is off leaves no bit.                         *)
AppStoredIfOn(f, value) ==
  CASE f.name = "addr" -> StoreAddress(StoreBit(bits, 1), value)
    [] f.name \in {"domain", "ext"} -> StoreBit(bits, 1)
    [] OTHER -> bits

(* The flags of the address, the domain and the extension are bits of the  *)
(* cell, stored after what they announce has been read.                    *)
AppStored(f, value) ==
  CASE f.name = "addr" -> StoreAddress(StoreBit(bits, 1), value)
    [] f.name \in {"domain", "ext"} -> StoreBit(bits, 1)
    [] f.kind = "bool" /\ ~Is(value) -> StoreBit(bits, 0)
    [] OTHER -> bits

AppRefs(f, value) ==
  CASE f.name = "domain"    -> <<HashCell(EncodeDomain(value), <<>>)>>
    [] f.kind = "cellref" -> <<CellRef(value)>>
    [] OTHER -> <<>>

AppLines(f, value) ==
  CASE f.name \in {"addr", "domain"} -> <<Line(AppTitle[f.name], value)>>
    [] f.kind = "cellref" -> <<Line(AppTitle[f.name], CellRef(value).hash)>>
    [] OTHER -> <<>>

ReadAppField ==
  /\ Schema(AppData) /\ at <= Len(AppLayout)
  /\ LET f == AppLayout[at]
         n == IF f.name = "domain" THEN BytesNumber(data.domain_len) ELSE f.n
         r == ReadCall(buf, [kind |-> f.kind, n |-> n])
     IN  IF Missing(f, data)
         THEN /\ at' = at + 1
              /\ UNCHANGED
                   <<client, pc, buf, data, bits, refs, lines, status, cell, signed>>
         ELSE IF ~r.ok \/ ~AppAllowed(f.name, r.value) THEN Refuse
         ELSE /\ buf' = r.buf
              /\ data' = [data EXCEPT ![f.name] = r.value]
              /\ bits' = AppStored(f, r.value)
              /\ refs' = refs \o AppRefs(f, r.value)
              /\ lines' = lines \o AppLines(f, r.value)
              /\ at' = at + 1
              /\ UNCHANGED <<client, pc, status, cell, signed>>

(* What follows the last field is not looked at.                           *)
HashAppData ==
  /\ Schema(AppData) /\ at > Len(AppLayout)
  /\ Accept(bits, refs)
  /\ UNCHANGED <<buf, data, lines>>

OtherSchema ==
  /\ status = "read" /\ pc = "request"
  /\ BytesNumber(data.schema_crc) \notin {Plaintext, AppData}
  /\ Refuse

(* crypto_sign_sign_data: the schema, the time and the hash, at their      *)
(* places in an array.                                                     *)
SignData ==
  /\ status = "accepted"
  /\ LET zeros  == [i \in 1..(WordLen + LongLen) |-> 0]
         schema == WriteUint(zeros, 0, data.schema_crc)
     IN  signed' = WriteUint(schema, WordLen, data.timestamp) \o cell
  /\ status' = "signed"
  /\ UNCHANGED <<client, pc, at, buf, data, bits, refs, lines, cell>>

Next ==
  ReadHeader \/ ReadPlaintext \/ ReadAppField \/ HashAppData \/ OtherSchema \/ SignData

Spec == Init /\ [][Next]_vars
=============================================================================
