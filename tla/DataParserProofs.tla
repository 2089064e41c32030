-------------------------- MODULE DataParserProofs --------------------------
(***************************************************************************)
(* The cell DataParser makes of a sign-data request holds, at every step,  *)
(* the bits and references of the fields read so far and nothing else; so  *)
(* no cell outgrows its buffer or a cell's size, and the cell that is      *)
(* hashed and signed is the one that the lines of the review show, read    *)
(* back from its bits and references by a reader of the schemas alone.     *)
(***************************************************************************)
EXTENDS DataParserProperties, CellProofs

(* The fields of a sign-data request. *)
Names == {"schema_crc", "timestamp", "has_address", "addr", "has_domain", "domain_len",
          "domain", "data", "has_ext", "ext"}

(* The data of a request has a sequence of bytes for every field's name.   *)
LEMMA DataNames == Values(Header \o AppLayout) = [Names -> Seq(Byte)]
<1> DEFINE S == {Header[i] : i \in 1..2} \cup {AppLayout[i] : i \in 1..8}
<1>1. Len(Header) = 2 /\ Len(AppLayout) = 8 /\ Header \in Seq(S) /\ AppLayout \in Seq(S)
  <2>1. Len(Header) = 2 /\ Header = [i \in 1..2 |-> Header[i]]
    BY DEF Header
  <2>2. Len(AppLayout) = 8 /\ AppLayout = [i \in 1..8 |-> AppLayout[i]]
    BY DEF AppLayout
  <2> QED BY <2>1, <2>2
<1>2. /\ Header[1].name = "schema_crc" /\ Header[2].name = "timestamp"
  BY DEF Header, Field
<1>3. /\ AppLayout[1].name = "has_address" /\ AppLayout[2].name = "addr"
      /\ AppLayout[3].name = "has_domain" /\ AppLayout[4].name = "domain_len"
      /\ AppLayout[5].name = "domain" /\ AppLayout[6].name = "data"
      /\ AppLayout[7].name = "has_ext" /\ AppLayout[8].name = "ext"
  BY DEF AppLayout, Field
<1> HIDE DEF S
<1> DEFINE L == Header \o AppLayout
<1>4. Len(L) = 10 /\ \A i \in 1..10 : L[i] = IF i <= 2 THEN Header[i] ELSE AppLayout[i - 2]
  <2>1. /\ Len(L) = Len(Header) + Len(AppLayout)
        /\ \A i \in 1..(Len(Header) + Len(AppLayout)) :
             L[i] = IF i <= Len(Header) THEN Header[i] ELSE AppLayout[i - Len(Header)]
    BY <1>1, ConcatProperties, Zenon
  <2> HIDE DEF L
  <2> QED BY <1>1, <2>1
<1> HIDE DEF L
<1>5. /\ L[1] = Header[1] /\ L[2] = Header[2] /\ L[3] = AppLayout[1] /\ L[4] = AppLayout[2]
      /\ L[5] = AppLayout[3] /\ L[6] = AppLayout[4] /\ L[7] = AppLayout[5]
      /\ L[8] = AppLayout[6] /\ L[9] = AppLayout[7] /\ L[10] = AppLayout[8]
  BY <1>4
<1>6. \A i \in 1..10 : i \in {1, 2, 3, 4, 5, 6, 7, 8, 9, 10}
  OBVIOUS
<1>7. {L[i].name : i \in 1..10} = Names
  BY <1>2, <1>3, <1>5, <1>6 DEF Names
<1>8. {L[i].name : i \in 1..Len(L)} = Names
  BY <1>4, <1>7
<1> QED BY <1>8 DEF Values, L

(* The fields of app data: their names and kinds.                          *)
LEMMA AppFields ==
  /\ Len(AppLayout) = 8
  /\ AppLayout[1].name = "has_address" /\ AppLayout[1].kind = "bool"
  /\ AppLayout[2].name = "addr" /\ AppLayout[2].kind = "address"
  /\ AppLayout[3].name = "has_domain" /\ AppLayout[3].kind = "bool"
  /\ AppLayout[4].name = "domain_len" /\ AppLayout[4].kind = "bytes" /\ AppLayout[4].n = 1
  /\ AppLayout[5].name = "domain" /\ AppLayout[5].kind = "bytes"
  /\ AppLayout[6].name = "data" /\ AppLayout[6].kind = "cellref"
  /\ AppLayout[7].name = "has_ext" /\ AppLayout[7].kind = "bool"
  /\ AppLayout[8].name = "ext" /\ AppLayout[8].kind = "cellref"
BY DEF AppLayout, Field

-----------------------------------------------------------------------------
(***************************************************************************)
(* The cell of app data grows field by field: what a field adds to it, to  *)
(* its references and to the lines.                                        *)
(***************************************************************************)
BitsOf(f, v) ==
  CASE f.name = "addr" -> <<1, 1, 0, 0>> \o BytesBits(v)
    [] f.name \in {"domain", "ext"} -> <<1>>
    [] f.kind = "bool" /\ ~Is(v) -> <<0>>
    [] OTHER -> <<>>

Grown(k, e, d, b, links, shown) ==
  /\ BitsAfter(k, e) = BitsAfter(k - 1, d) \o b
  /\ RefsAfter(k, e) = RefsAfter(k - 1, d) \o links
  /\ LinesAfter(k, e) = LinesAfter(k - 1, d) \o shown

(* A part is empty, absent or present.                                     *)
LEMMA PartType ==
  ASSUME NEW S, NEW n, NEW flag, NEW i, NEW k, NEW absent \in Seq(S), NEW present \in Seq(S)
  PROVE  PartAfter(n, flag, i, k, absent, present) \in Seq(S)
BY DEF PartAfter

(***************************************************************************)
(* The three parts of the bits and of the references, the four of the      *)
(* lines.                                                                  *)
(***************************************************************************)
AddrBits(n, d) ==
  PartAfter(n, d.has_address, 1, 2, <<0>>, <<1, 1, 0, 0>> \o BytesBits(d.addr))
DomainBits(n, d) == PartAfter(n, d.has_domain, 3, 5, <<0>>, <<1>>)
ExtBits(n, d)    == PartAfter(n, d.has_ext, 7, 8, <<0>>, <<1>>)

DomainRef(n, d) ==
  PartAfter(n, d.has_domain, 3, 5, <<>>, <<HashCell(EncodeDomain(d.domain), <<>>)>>)
DataRef(n, d) == IF n < 6 THEN <<>> ELSE <<CellRef(d.data)>>
ExtRef(n, d)  == PartAfter(n, d.has_ext, 7, 8, <<>>, <<CellRef(d.ext)>>)

AddrLine(n, d) ==
  PartAfter(n, d.has_address, 1, 2, <<>>, <<Line("Contract address", d.addr)>>)
DomainLine(n, d) ==
  PartAfter(n, d.has_domain, 3, 5, <<>>, <<Line("App domain", d.domain)>>)
DataLine(n, d) == IF n < 6 THEN <<>> ELSE <<Line("Data hash", CellRef(d.data).hash)>>
ExtLine(n, d)  ==
  PartAfter(n, d.has_ext, 7, 8, <<>>, <<Line("Extension hash", CellRef(d.ext).hash)>>)

RefSet(d) ==
  {HashCell(EncodeDomain(d.domain), <<>>), CellRef(d.data), CellRef(d.ext)}
LineSet(d) ==
  {Line("Contract address", d.addr), Line("App domain", d.domain),
   Line("Data hash", CellRef(d.data).hash), Line("Extension hash", CellRef(d.ext).hash)}

(* One after the other they are what there is.                             *)
LEMMA AreParts ==
  ASSUME NEW n, NEW d
  PROVE  /\ BitsAfter(n, d) = (AddrBits(n, d) \o DomainBits(n, d)) \o ExtBits(n, d)
         /\ RefsAfter(n, d) = (DomainRef(n, d) \o DataRef(n, d)) \o ExtRef(n, d)
         /\ LinesAfter(n, d)
              = ((AddrLine(n, d) \o DomainLine(n, d)) \o DataLine(n, d)) \o ExtLine(n, d)
BY DEF BitsAfter, AddrBits, DomainBits, ExtBits, RefsAfter, DomainRef, DataRef, ExtRef,
       LinesAfter, AddrLine, DomainLine, DataLine, ExtLine

(* Each is made of what it may hold.                                       *)
LEMMA BitPartTypes ==
  ASSUME NEW d \in [Names -> Seq(Byte)], NEW n
  PROVE  AddrBits(n, d) \in Seq(Bit) /\ DomainBits(n, d) \in Seq(Bit) /\ ExtBits(n, d) \in Seq(Bit)
<1>1. <<0>> \in Seq(Bit) /\ <<1>> \in Seq(Bit)
  BY FewBits
<1>2. <<1, 1, 0, 0>> \in Seq(Bit)
  BY DEF Bit
<1>3. BytesBits(d.addr) \in Seq(Bit)
  <2>1. d.addr \in Seq(Byte)
    BY DEF Names
  <2> QED BY <2>1, BytesAreNumbers, BytesBitsType
<1>4. <<1, 1, 0, 0>> \o BytesBits(d.addr) \in Seq(Bit)
  BY <1>2, <1>3, ConcatProperties
<1> QED BY <1>1, <1>4, PartType DEF AddrBits, DomainBits, ExtBits

(* So are the references and the lines.                                    *)
LEMMA OtherPartTypes ==
  ASSUME NEW d, NEW n, NEW R, RefSet(d) \subseteq R, NEW L, LineSet(d) \subseteq L
  PROVE  /\ DomainRef(n, d) \in Seq(R) /\ DataRef(n, d) \in Seq(R) /\ ExtRef(n, d) \in Seq(R)
         /\ AddrLine(n, d) \in Seq(L) /\ DomainLine(n, d) \in Seq(L)
         /\ DataLine(n, d) \in Seq(L) /\ ExtLine(n, d) \in Seq(L)
<1>1. \A T : <<>> \in Seq(T) /\ \A x \in T : <<x>> \in Seq(T)
  OBVIOUS
<1>2. /\ HashCell(EncodeDomain(d.domain), <<>>) \in R /\ CellRef(d.data) \in R /\ CellRef(d.ext) \in R
  BY DEF RefSet
<1>3. /\ Line("Contract address", d.addr) \in L /\ Line("App domain", d.domain) \in L
      /\ Line("Data hash", CellRef(d.data).hash) \in L
      /\ Line("Extension hash", CellRef(d.ext).hash) \in L
  BY DEF LineSet
<1>4. DomainRef(n, d) \in Seq(R) /\ ExtRef(n, d) \in Seq(R)
  BY <1>1, <1>2, PartType, Zenon DEF DomainRef, ExtRef
<1>5. DataRef(n, d) \in Seq(R) /\ DataLine(n, d) \in Seq(L)
  BY <1>1, <1>2, <1>3, Zenon DEF DataRef, DataLine
<1>6. AddrLine(n, d) \in Seq(L) /\ DomainLine(n, d) \in Seq(L) /\ ExtLine(n, d) \in Seq(L)
  BY <1>1, <1>3, PartType, Zenon DEF AddrLine, DomainLine, ExtLine
<1> QED BY <1>4, <1>5, <1>6

(* The part that x is, while those behind it are still empty.              *)
OneOf3(p, q, r, p2, q2, r2, x) ==
  \/ p = <<>> /\ p2 = x /\ q = <<>> /\ q2 = q /\ r = <<>> /\ r2 = r
  \/ p2 = p /\ q = <<>> /\ q2 = x /\ r = <<>> /\ r2 = r
  \/ p2 = p /\ q2 = q /\ r = <<>> /\ r2 = x
  \/ p2 = p /\ q2 = q /\ r2 = r /\ x = <<>>

Behind3(p, q, r, p2, q2, r2, x) == (p2 \o q2) \o r2 = ((p \o q) \o r) \o x

(* What is put behind three parts is put behind the last that is there.    *)
LEMMA Grow3 ==
  ASSUME NEW S, NEW p \in Seq(S), NEW q \in Seq(S), NEW r \in Seq(S), NEW x \in Seq(S),
         NEW p2, NEW q2, NEW r2,
         OneOf3(p, q, r, p2, q2, r2, x)
  PROVE  Behind3(p, q, r, p2, q2, r2, x)
<1>1. \A w \in Seq(S) : <<>> \o w = w /\ w \o <<>> = w
  OBVIOUS
<1>2. p \o q \in Seq(S) /\ (p \o q) \o r \in Seq(S) /\ p \o x \in Seq(S) /\ <<>> \in Seq(S)
  BY ConcatProperties
<1>3. CASE p = <<>> /\ p2 = x /\ q = <<>> /\ q2 = q /\ r = <<>> /\ r2 = r
  <2>1. (p2 \o q2) \o r2 = x
    BY <1>1, <1>3
  <2>2. ((p \o q) \o r) \o x = x
    BY <1>1, <1>2, <1>3
  <2> QED BY <2>1, <2>2 DEF Behind3
<1>4. CASE p2 = p /\ q = <<>> /\ q2 = x /\ r = <<>> /\ r2 = r
  <2>1. (p2 \o q2) \o r2 = p \o x
    BY <1>1, <1>2, <1>4
  <2>2. ((p \o q) \o r) \o x = p \o x
    BY <1>1, <1>2, <1>4
  <2> QED BY <2>1, <2>2 DEF Behind3
<1>5. CASE p2 = p /\ q2 = q /\ r = <<>> /\ r2 = x
  <2>1. (p \o q) \o r = p \o q
    BY <1>1, <1>2, <1>5
  <2> QED BY <1>5, <2>1 DEF Behind3
<1>6. CASE p2 = p /\ q2 = q /\ r2 = r /\ x = <<>>
  <2>1. ((p \o q) \o r) \o <<>> = (p \o q) \o r
    BY <1>1, <1>2, Zenon
  <2> QED BY <1>6, <2>1 DEF Behind3
<1> QED BY <1>3, <1>4, <1>5, <1>6 DEF OneOf3, Behind3

OneOf4(p, q, r, u, p2, q2, r2, u2, x) ==
  \/ OneOf3(p, q, r, p2, q2, r2, x) /\ u = <<>> /\ u2 = u
  \/ p2 = p /\ q2 = q /\ r2 = r /\ u = <<>> /\ u2 = x
  \/ p2 = p /\ q2 = q /\ r2 = r /\ u2 = u /\ x = <<>>

Behind4(p, q, r, u, p2, q2, r2, u2, x) ==
  ((p2 \o q2) \o r2) \o u2 = (((p \o q) \o r) \o u) \o x

(* And behind four.                                                        *)
LEMMA Grow4 ==
  ASSUME NEW S, NEW p \in Seq(S), NEW q \in Seq(S), NEW r \in Seq(S), NEW u \in Seq(S),
         NEW x \in Seq(S), NEW p2, NEW q2, NEW r2, NEW u2,
         OneOf4(p, q, r, u, p2, q2, r2, u2, x)
  PROVE  Behind4(p, q, r, u, p2, q2, r2, u2, x)
<1>1. \A w \in Seq(S) : <<>> \o w = w /\ w \o <<>> = w
  OBVIOUS
<1>2. (p \o q) \o r \in Seq(S) /\ ((p \o q) \o r) \o u \in Seq(S) /\ <<>> \in Seq(S)
      /\ ((p \o q) \o r) \o x \in Seq(S)
  BY ConcatProperties
<1>3. CASE OneOf3(p, q, r, p2, q2, r2, x) /\ u = <<>> /\ u2 = u
  <2>1. (p2 \o q2) \o r2 = ((p \o q) \o r) \o x
    <3>1. Behind3(p, q, r, p2, q2, r2, x)
      BY <1>3, Grow3, Zenon
    <3> QED BY <3>1 DEF Behind3
  <2>2. (((p \o q) \o r) \o u) \o x = ((p \o q) \o r) \o x
    <3>1. ((p \o q) \o r) \o <<>> = (p \o q) \o r
      BY <1>1, <1>2, Zenon
    <3> QED BY <1>3, <3>1
  <2>3. ((p2 \o q2) \o r2) \o <<>> = (p2 \o q2) \o r2
    <3>1. (((p \o q) \o r) \o x) \o <<>> = ((p \o q) \o r) \o x
      BY <1>1, <1>2, Zenon
    <3> QED BY <2>1, <3>1
  <2> QED BY <1>3, <2>1, <2>2, <2>3 DEF Behind4
<1>4. CASE p2 = p /\ q2 = q /\ r2 = r /\ u = <<>> /\ u2 = x
  <2>1. ((p \o q) \o r) \o u = (p \o q) \o r
    BY <1>1, <1>2, <1>4
  <2> QED BY <1>4, <2>1 DEF Behind4
<1>5. CASE p2 = p /\ q2 = q /\ r2 = r /\ u2 = u /\ x = <<>>
  <2>1. (((p \o q) \o r) \o u) \o <<>> = ((p \o q) \o r) \o u
    BY <1>1, <1>2, Zenon
  <2> QED BY <1>5, <2>1 DEF Behind4
<1> QED BY <1>3, <1>4, <1>5 DEF OneOf4, Behind4

(* With no step of its own a part stays as it is.                          *)
AddrSame(j, d, k, e) == AddrBits(k, e) = AddrBits(j, d) /\ AddrLine(k, e) = AddrLine(j, d)
DomainSame(j, d, k, e) ==
  /\ DomainBits(k, e) = DomainBits(j, d) /\ DomainRef(k, e) = DomainRef(j, d)
  /\ DomainLine(k, e) = DomainLine(j, d)
DataSame(j, d, k, e) == DataRef(k, e) = DataRef(j, d) /\ DataLine(k, e) = DataLine(j, d)
ExtSame(j, d, k, e) ==
  /\ ExtBits(k, e) = ExtBits(j, d) /\ ExtRef(k, e) = ExtRef(j, d)
  /\ ExtLine(k, e) = ExtLine(j, d)

(* What is put behind the parts, when one of them has grown from nothing.  *)
LEMMA PartsGrow ==
  ASSUME NEW d \in [Names -> Seq(Byte)], NEW e \in [Names -> Seq(Byte)], NEW j, NEW k, j = k - 1,
         NEW b \in Seq(Bit), NEW y \in Seq(RefSet(e)), NEW z \in Seq(LineSet(e)),
         OneOf3(AddrBits(j, d), DomainBits(j, d), ExtBits(j, d),
                AddrBits(k, e), DomainBits(k, e), ExtBits(k, e), b),
         OneOf3(DomainRef(j, d), DataRef(j, d), ExtRef(j, d),
                DomainRef(k, e), DataRef(k, e), ExtRef(k, e), y),
         OneOf4(AddrLine(j, d), DomainLine(j, d), DataLine(j, d), ExtLine(j, d),
                AddrLine(k, e), DomainLine(k, e), DataLine(k, e), ExtLine(k, e), z)
  PROVE  Grown(k, e, d, b, y, z)
<1> DEFINE R == RefSet(d) \cup RefSet(e)
           L == LineSet(d) \cup LineSet(e)
<1>0. /\ RefSet(d) \subseteq R /\ LineSet(d) \subseteq L /\ RefSet(e) \subseteq R
      /\ LineSet(e) \subseteq L
  OBVIOUS
<1> HIDE DEF R, L
<1>1. y \in Seq(R) /\ z \in Seq(L)
  BY <1>0, SeqOfMore
<1>2. Behind3(AddrBits(j, d), DomainBits(j, d), ExtBits(j, d),
              AddrBits(k, e), DomainBits(k, e), ExtBits(k, e), b)
  BY BitPartTypes, Grow3, Zenon
<1>3. Behind3(DomainRef(j, d), DataRef(j, d), ExtRef(j, d),
              DomainRef(k, e), DataRef(k, e), ExtRef(k, e), y)
  BY <1>0, <1>1, OtherPartTypes, Grow3, Zenon
<1>4. Behind4(AddrLine(j, d), DomainLine(j, d), DataLine(j, d), ExtLine(j, d),
              AddrLine(k, e), DomainLine(k, e), DataLine(k, e), ExtLine(k, e), z)
  BY <1>0, <1>1, OtherPartTypes, Grow4, Zenon
<1> QED BY <1>2, <1>3, <1>4, AreParts DEF Grown, Behind3, Behind4

(* What a field adds is made of bits, and of the references and lines of   *)
(* its value.                                                              *)
LEMMA GainTypes ==
  ASSUME NEW k \in 1..8, NEW f, f = AppLayout[k], NEW v \in Seq(Byte), NEW e, e[f.name] = v
  PROVE  /\ BitsOf(f, v) \in Seq(Bit)
         /\ AppRefs(f, v) \in Seq(RefSet(e)) /\ AppLines(f, v) \in Seq(LineSet(e))
<1>1. <<0>> \in Seq(Bit) /\ <<1>> \in Seq(Bit) /\ <<>> \in Seq(Bit)
  BY FewBits
<1>2. <<1, 1, 0, 0>> \in Seq(Bit) /\ BytesBits(v) \in Seq(Bit)
  BY BytesAreNumbers, BytesBitsType DEF Bit
<1>3. <<1, 1, 0, 0>> \o BytesBits(v) \in Seq(Bit)
  BY <1>2, ConcatProperties
<1>4. BitsOf(f, v) \in Seq(Bit)
  BY <1>1, <1>3 DEF BitsOf
<1>5. \A T : <<>> \in Seq(T) /\ \A x \in T : <<x>> \in Seq(T)
  OBVIOUS
<1>6. f.kind = "cellref" <=> f.name \in {"data", "ext"}
  <2>1. k \in {1, 2, 3, 4, 5, 6, 7, 8}
    OBVIOUS
  <2> QED BY <2>1, AppFields
<1>7. AppRefs(f, v) \in Seq(RefSet(e))
  <2>1. CASE f.name = "domain"
    <3>1. HashCell(EncodeDomain(v), <<>>) \in RefSet(e)
      BY <2>1 DEF RefSet
    <3>2. AppRefs(f, v) = <<HashCell(EncodeDomain(v), <<>>)>>
      BY <1>6, <2>1 DEF AppRefs
    <3> QED BY <1>5, <3>1, <3>2, Zenon
  <2>2. CASE f.kind = "cellref"
    <3>1. CellRef(v) \in RefSet(e)
      BY <1>6, <2>2 DEF RefSet
    <3>2. AppRefs(f, v) = <<CellRef(v)>>
      BY <1>6, <2>2 DEF AppRefs
    <3> QED BY <1>5, <3>1, <3>2, Zenon
  <2>3. CASE f.name # "domain" /\ f.kind # "cellref"
    <3>1. AppRefs(f, v) = <<>>
      BY <2>3 DEF AppRefs
    <3> QED BY <1>5, <3>1, Zenon
  <2> QED BY <2>1, <2>2, <2>3
<1>8. AppLines(f, v) \in Seq(LineSet(e))
  <2>0. /\ AppTitle["addr"] = "Contract address" /\ AppTitle["domain"] = "App domain"
        /\ AppTitle["data"] = "Data hash" /\ AppTitle["ext"] = "Extension hash"
    BY DEF AppTitle
  <2>1. CASE f.name \in {"addr", "domain"}
    <3>1. Line(AppTitle[f.name], v) \in LineSet(e)
      <4>1. CASE f.name = "addr"
        BY <2>0, <4>1 DEF LineSet
      <4>2. CASE f.name = "domain"
        BY <2>0, <4>2 DEF LineSet
      <4> QED BY <2>1, <4>1, <4>2
    <3>2. AppLines(f, v) = <<Line(AppTitle[f.name], v)>>
      BY <1>6, <2>1 DEF AppLines
    <3> QED BY <1>5, <3>1, <3>2, Zenon
  <2>2. CASE f.kind = "cellref"
    <3>1. Line(AppTitle[f.name], CellRef(v).hash) \in LineSet(e)
      <4>1. CASE f.name = "data"
        BY <2>0, <4>1 DEF LineSet
      <4>2. CASE f.name = "ext"
        BY <2>0, <4>2 DEF LineSet
      <4> QED BY <1>6, <2>2, <4>1, <4>2
    <3>2. AppLines(f, v) = <<Line(AppTitle[f.name], CellRef(v).hash)>>
      BY <1>6, <2>2 DEF AppLines
    <3> QED BY <1>5, <3>1, <3>2, Zenon
  <2>3. CASE f.name \notin {"addr", "domain"} /\ f.kind # "cellref"
    <3>1. AppLines(f, v) = <<>>
      BY <2>3 DEF AppLines
    <3> QED BY <1>5, <3>1, Zenon
  <2> QED BY <2>1, <2>2, <2>3
<1> QED BY <1>4, <1>7, <1>8

(* has_address                                                            *)
LEMMA HasAddressGrows ==
  ASSUME NEW d \in [Names -> Seq(Byte)], NEW v \in Seq(Byte), NEW e, e = Stored(d, "has_address", v),
         NEW f, f = AppLayout[1]
  PROVE  Grown(1, e, d, BitsOf(f, v), AppRefs(f, v), AppLines(f, v))
<1>1. /\ e \in [Names -> Seq(Byte)] /\ e.has_address = v /\ f.name = "has_address"
      /\ f.kind = "bool"
  BY AppFields DEF Stored, Names
<1>2. /\ BitsOf(f, v) = IF Is(v) THEN <<>> ELSE <<0>>
      /\ AppRefs(f, v) = <<>>
      /\ AppLines(f, v) = <<>>
  BY <1>1 DEF BitsOf, AppRefs, AppLines
<1>3. DomainSame(0, d, 1, e) /\ DataSame(0, d, 1, e) /\ ExtSame(0, d, 1, e)
  <2>1. /\ 0 < 3 /\ 0 < 5 /\ 0 < 6 /\ 0 < 7 /\ 0 < 8 /\ 1 < 3 /\ 1 < 5 /\ 1 < 6 /\ 1 < 7
        /\ 1 < 8
    OBVIOUS
  <2>2. DomainSame(0, d, 1, e)
    BY <1>1, <2>1, Zenon DEF DomainSame, DomainBits, DomainRef, DomainLine, PartAfter
  <2>3. DataSame(0, d, 1, e)
    BY <1>1, <2>1, Zenon DEF DataSame, DataRef, DataLine
  <2>4. ExtSame(0, d, 1, e)
    BY <1>1, <2>1, Zenon DEF ExtSame, ExtBits, ExtRef, ExtLine, PartAfter
  <2> QED BY <2>2, <2>3, <2>4
<1>4. /\ AddrBits(0, d) = <<>> /\ AddrLine(0, d) = <<>> /\ DomainBits(0, d) = <<>>
      /\ DomainRef(0, d) = <<>> /\ DomainLine(0, d) = <<>> /\ DataRef(0, d) = <<>>
      /\ DataLine(0, d) = <<>> /\ ExtBits(0, d) = <<>> /\ ExtRef(0, d) = <<>>
      /\ ExtLine(0, d) = <<>>
  <2>1. 0 < 1 /\ 0 < 2 /\ 0 < 3 /\ 0 < 5 /\ 0 < 6 /\ 0 < 7 /\ 0 < 8
    OBVIOUS
  <2> QED BY <2>1, Zenon DEF AddrBits, AddrLine, DomainBits, DomainRef, DomainLine, DataRef, DataLine, ExtBits, ExtRef, ExtLine, PartAfter
<1>5. AddrBits(1, e) = BitsOf(f, v) /\ AddrLine(1, e) = AppLines(f, v)
  <2>1. ~(1 < 1) /\ 1 < 2
    OBVIOUS
  <2> QED BY <1>1, <1>2, <2>1, Zenon DEF AddrBits, AddrLine, PartAfter
<1>6. OneOf3(AddrBits(0, d), DomainBits(0, d), ExtBits(0, d),
             AddrBits(1, e), DomainBits(1, e), ExtBits(1, e), BitsOf(f, v))
  BY <1>2, <1>3, <1>4, <1>5, Zenon DEF OneOf3, AddrSame, DomainSame, ExtSame
<1>7. OneOf3(DomainRef(0, d), DataRef(0, d), ExtRef(0, d),
             DomainRef(1, e), DataRef(1, e), ExtRef(1, e), AppRefs(f, v))
  BY <1>2, <1>3, <1>4, <1>5, Zenon DEF OneOf3, DomainSame, DataSame, ExtSame
<1>8. OneOf4(AddrLine(0, d), DomainLine(0, d), DataLine(0, d), ExtLine(0, d),
             AddrLine(1, e), DomainLine(1, e), DataLine(1, e), ExtLine(1, e), AppLines(f, v))
  BY <1>2, <1>3, <1>4, <1>5, Zenon DEF OneOf4, OneOf3, AddrSame, DomainSame, DataSame, ExtSame
<1>9. /\ BitsOf(f, v) \in Seq(Bit)
      /\ AppRefs(f, v) \in Seq(RefSet(e)) /\ AppLines(f, v) \in Seq(LineSet(e))
  BY <1>1, GainTypes
<1>10. 0 = 1 - 1
  OBVIOUS
<1> QED BY <1>1, <1>6, <1>7, <1>8, <1>9, <1>10, PartsGrow, Zenon

(* addr, which has_address has announced.                                 *)
LEMMA AddrGrows ==
  ASSUME NEW d \in [Names -> Seq(Byte)], NEW v \in Seq(Byte), NEW e, e = Stored(d, "addr", v),
         NEW f, f = AppLayout[2], Is(d.has_address)
  PROVE  Grown(2, e, d, BitsOf(f, v), AppRefs(f, v), AppLines(f, v))
<1>1. /\ e \in [Names -> Seq(Byte)] /\ e.addr = v /\ e.has_address = d.has_address
      /\ f.name = "addr" /\ f.kind = "address"
  BY AppFields DEF Stored, Names
<1>2. /\ BitsOf(f, v) = <<1, 1, 0, 0>> \o BytesBits(v)
      /\ AppRefs(f, v) = <<>>
      /\ AppLines(f, v) = <<Line("Contract address", v)>>
  <2>1. AppTitle["addr"] = "Contract address"
    BY DEF AppTitle
  <2> QED BY <1>1, <2>1 DEF BitsOf, AppRefs, AppLines
<1>3. DomainSame(1, d, 2, e) /\ DataSame(1, d, 2, e) /\ ExtSame(1, d, 2, e)
  <2>1. /\ 1 < 3 /\ 1 < 5 /\ 1 < 6 /\ 1 < 7 /\ 1 < 8 /\ 2 < 3 /\ 2 < 5 /\ 2 < 6 /\ 2 < 7
        /\ 2 < 8
    OBVIOUS
  <2>2. DomainSame(1, d, 2, e)
    BY <1>1, <2>1, Zenon DEF DomainSame, DomainBits, DomainRef, DomainLine, PartAfter
  <2>3. DataSame(1, d, 2, e)
    BY <1>1, <2>1, Zenon DEF DataSame, DataRef, DataLine
  <2>4. ExtSame(1, d, 2, e)
    BY <1>1, <2>1, Zenon DEF ExtSame, ExtBits, ExtRef, ExtLine, PartAfter
  <2> QED BY <2>2, <2>3, <2>4
<1>4. /\ AddrBits(1, d) = <<>> /\ AddrLine(1, d) = <<>> /\ DomainBits(1, d) = <<>>
      /\ DomainRef(1, d) = <<>> /\ DomainLine(1, d) = <<>> /\ DataRef(1, d) = <<>>
      /\ DataLine(1, d) = <<>> /\ ExtBits(1, d) = <<>> /\ ExtRef(1, d) = <<>>
      /\ ExtLine(1, d) = <<>>
  <2>1. ~(1 < 1) /\ 1 < 2 /\ 1 < 3 /\ 1 < 5 /\ 1 < 6 /\ 1 < 7 /\ 1 < 8
    OBVIOUS
  <2> QED BY <1>1, <2>1, Zenon DEF AddrBits, AddrLine, DomainBits, DomainRef, DomainLine, DataRef, DataLine, ExtBits, ExtRef, ExtLine, PartAfter
<1>5. AddrBits(2, e) = BitsOf(f, v) /\ AddrLine(2, e) = AppLines(f, v)
  <2>1. ~(2 < 1) /\ ~(2 < 2)
    OBVIOUS
  <2>2. AddrBits(2, e) = <<1, 1, 0, 0>> \o BytesBits(e.addr)
    BY <1>1, <2>1, Zenon DEF AddrBits, PartAfter
  <2>3. AddrLine(2, e) = <<Line("Contract address", e.addr)>>
    BY <1>1, <2>1, Zenon DEF AddrLine, PartAfter
  <2> QED BY <1>1, <1>2, <2>2, <2>3, Zenon
<1>6. OneOf3(AddrBits(1, d), DomainBits(1, d), ExtBits(1, d),
             AddrBits(2, e), DomainBits(2, e), ExtBits(2, e), BitsOf(f, v))
  BY <1>2, <1>3, <1>4, <1>5, Zenon DEF OneOf3, AddrSame, DomainSame, ExtSame
<1>7. OneOf3(DomainRef(1, d), DataRef(1, d), ExtRef(1, d),
             DomainRef(2, e), DataRef(2, e), ExtRef(2, e), AppRefs(f, v))
  BY <1>2, <1>3, <1>4, <1>5, Zenon DEF OneOf3, DomainSame, DataSame, ExtSame
<1>8. OneOf4(AddrLine(1, d), DomainLine(1, d), DataLine(1, d), ExtLine(1, d),
             AddrLine(2, e), DomainLine(2, e), DataLine(2, e), ExtLine(2, e), AppLines(f, v))
  BY <1>2, <1>3, <1>4, <1>5, Zenon DEF OneOf4, OneOf3, AddrSame, DomainSame, DataSame, ExtSame
<1>9. /\ BitsOf(f, v) \in Seq(Bit)
      /\ AppRefs(f, v) \in Seq(RefSet(e)) /\ AppLines(f, v) \in Seq(LineSet(e))
  BY <1>1, GainTypes
<1>10. 1 = 2 - 1
  OBVIOUS
<1> QED BY <1>1, <1>6, <1>7, <1>8, <1>9, <1>10, PartsGrow, Zenon

(* has_domain                                                             *)
LEMMA HasDomainGrows ==
  ASSUME NEW d \in [Names -> Seq(Byte)], NEW v \in Seq(Byte), NEW e, e = Stored(d, "has_domain", v),
         NEW f, f = AppLayout[3]
  PROVE  Grown(3, e, d, BitsOf(f, v), AppRefs(f, v), AppLines(f, v))
<1>1. /\ e \in [Names -> Seq(Byte)] /\ e.has_domain = v /\ e.has_address = d.has_address
      /\ e.addr = d.addr /\ f.name = "has_domain" /\ f.kind = "bool"
  BY AppFields DEF Stored, Names
<1>2. /\ BitsOf(f, v) = IF Is(v) THEN <<>> ELSE <<0>>
      /\ AppRefs(f, v) = <<>>
      /\ AppLines(f, v) = <<>>
  BY <1>1 DEF BitsOf, AppRefs, AppLines
<1>3. AddrSame(2, d, 3, e) /\ DataSame(2, d, 3, e) /\ ExtSame(2, d, 3, e)
  <2>1. /\ ~(2 < 1) /\ ~(2 < 2) /\ 2 < 6 /\ 2 < 7 /\ 2 < 8 /\ ~(3 < 1) /\ ~(3 < 2)
        /\ 3 < 6 /\ 3 < 7 /\ 3 < 8
    OBVIOUS
  <2>2. AddrSame(2, d, 3, e)
    BY <1>1, <2>1, Zenon DEF AddrSame, AddrBits, AddrLine, PartAfter
  <2>3. DataSame(2, d, 3, e)
    BY <1>1, <2>1, Zenon DEF DataSame, DataRef, DataLine
  <2>4. ExtSame(2, d, 3, e)
    BY <1>1, <2>1, Zenon DEF ExtSame, ExtBits, ExtRef, ExtLine, PartAfter
  <2> QED BY <2>2, <2>3, <2>4
<1>4. /\ DomainBits(2, d) = <<>> /\ DomainRef(2, d) = <<>> /\ DomainLine(2, d) = <<>>
      /\ DataRef(2, d) = <<>> /\ DataLine(2, d) = <<>> /\ ExtBits(2, d) = <<>>
      /\ ExtRef(2, d) = <<>> /\ ExtLine(2, d) = <<>>
  <2>1. 2 < 3 /\ 2 < 5 /\ 2 < 6 /\ 2 < 7 /\ 2 < 8
    OBVIOUS
  <2> QED BY <2>1, Zenon DEF DomainBits, DomainRef, DomainLine, DataRef, DataLine, ExtBits, ExtRef, ExtLine, PartAfter
<1>5. /\ DomainBits(3, e) = BitsOf(f, v) /\ DomainRef(3, e) = AppRefs(f, v)
      /\ DomainLine(3, e) = AppLines(f, v)
  <2>1. ~(3 < 3) /\ 3 < 5
    OBVIOUS
  <2> QED BY <1>1, <1>2, <2>1, Zenon DEF DomainBits, DomainRef, DomainLine, PartAfter
<1>6. OneOf3(AddrBits(2, d), DomainBits(2, d), ExtBits(2, d),
             AddrBits(3, e), DomainBits(3, e), ExtBits(3, e), BitsOf(f, v))
  BY <1>2, <1>3, <1>4, <1>5, Zenon DEF OneOf3, AddrSame, DomainSame, ExtSame
<1>7. OneOf3(DomainRef(2, d), DataRef(2, d), ExtRef(2, d),
             DomainRef(3, e), DataRef(3, e), ExtRef(3, e), AppRefs(f, v))
  BY <1>2, <1>3, <1>4, <1>5, Zenon DEF OneOf3, DomainSame, DataSame, ExtSame
<1>8. OneOf4(AddrLine(2, d), DomainLine(2, d), DataLine(2, d), ExtLine(2, d),
             AddrLine(3, e), DomainLine(3, e), DataLine(3, e), ExtLine(3, e), AppLines(f, v))
  BY <1>2, <1>3, <1>4, <1>5, Zenon DEF OneOf4, OneOf3, AddrSame, DomainSame, DataSame, ExtSame
<1>9. /\ BitsOf(f, v) \in Seq(Bit)
      /\ AppRefs(f, v) \in Seq(RefSet(e)) /\ AppLines(f, v) \in Seq(LineSet(e))
  BY <1>1, GainTypes
<1>10. 2 = 3 - 1
  OBVIOUS
<1> QED BY <1>1, <1>6, <1>7, <1>8, <1>9, <1>10, PartsGrow, Zenon

(* domain_len adds nothing.                                               *)
LEMMA DomainLenGrows ==
  ASSUME NEW d \in [Names -> Seq(Byte)], NEW v \in Seq(Byte), NEW e, e = Stored(d, "domain_len", v),
         NEW f, f = AppLayout[4]
  PROVE  Grown(4, e, d, BitsOf(f, v), AppRefs(f, v), AppLines(f, v))
<1>1. /\ e \in [Names -> Seq(Byte)] /\ e.domain_len = v /\ e.has_address = d.has_address
      /\ e.addr = d.addr /\ e.has_domain = d.has_domain /\ f.name = "domain_len"
      /\ f.kind = "bytes"
  BY AppFields DEF Stored, Names
<1>2. /\ BitsOf(f, v) = <<>>
      /\ AppRefs(f, v) = <<>>
      /\ AppLines(f, v) = <<>>
  BY <1>1 DEF BitsOf, AppRefs, AppLines
<1>3. AddrSame(3, d, 4, e) /\ DomainSame(3, d, 4, e) /\ DataSame(3, d, 4, e) /\ ExtSame(3, d, 4, e)
  <2>1. /\ ~(3 < 1) /\ ~(3 < 2) /\ ~(3 < 3) /\ 3 < 5 /\ 3 < 6 /\ 3 < 7 /\ 3 < 8
        /\ ~(4 < 1) /\ ~(4 < 2) /\ ~(4 < 3) /\ 4 < 5 /\ 4 < 6 /\ 4 < 7 /\ 4 < 8
    OBVIOUS
  <2>2. AddrSame(3, d, 4, e)
    BY <1>1, <2>1, Zenon DEF AddrSame, AddrBits, AddrLine, PartAfter
  <2>3. DomainSame(3, d, 4, e)
    BY <1>1, <2>1, Zenon DEF DomainSame, DomainBits, DomainRef, DomainLine, PartAfter
  <2>4. DataSame(3, d, 4, e)
    BY <1>1, <2>1, Zenon DEF DataSame, DataRef, DataLine
  <2>5. ExtSame(3, d, 4, e)
    BY <1>1, <2>1, Zenon DEF ExtSame, ExtBits, ExtRef, ExtLine, PartAfter
  <2> QED BY <2>2, <2>3, <2>4, <2>5
<1>6. OneOf3(AddrBits(3, d), DomainBits(3, d), ExtBits(3, d),
             AddrBits(4, e), DomainBits(4, e), ExtBits(4, e), BitsOf(f, v))
  BY <1>2, <1>3, Zenon DEF OneOf3, AddrSame, DomainSame, ExtSame
<1>7. OneOf3(DomainRef(3, d), DataRef(3, d), ExtRef(3, d),
             DomainRef(4, e), DataRef(4, e), ExtRef(4, e), AppRefs(f, v))
  BY <1>2, <1>3, Zenon DEF OneOf3, DomainSame, DataSame, ExtSame
<1>8. OneOf4(AddrLine(3, d), DomainLine(3, d), DataLine(3, d), ExtLine(3, d),
             AddrLine(4, e), DomainLine(4, e), DataLine(4, e), ExtLine(4, e), AppLines(f, v))
  BY <1>2, <1>3, Zenon DEF OneOf4, OneOf3, AddrSame, DomainSame, DataSame, ExtSame
<1>9. /\ BitsOf(f, v) \in Seq(Bit)
      /\ AppRefs(f, v) \in Seq(RefSet(e)) /\ AppLines(f, v) \in Seq(LineSet(e))
  BY <1>1, GainTypes
<1>10. 3 = 4 - 1
  OBVIOUS
<1> QED BY <1>1, <1>6, <1>7, <1>8, <1>9, <1>10, PartsGrow, Zenon

(* domain, which has_domain has announced.                                *)
LEMMA DomainGrows ==
  ASSUME NEW d \in [Names -> Seq(Byte)], NEW v \in Seq(Byte), NEW e, e = Stored(d, "domain", v),
         NEW f, f = AppLayout[5], Is(d.has_domain)
  PROVE  Grown(5, e, d, BitsOf(f, v), AppRefs(f, v), AppLines(f, v))
<1>1. /\ e \in [Names -> Seq(Byte)] /\ e.domain = v /\ e.has_address = d.has_address
      /\ e.addr = d.addr /\ e.has_domain = d.has_domain /\ f.name = "domain"
      /\ f.kind = "bytes"
  BY AppFields DEF Stored, Names
<1>2. /\ BitsOf(f, v) = <<1>>
      /\ AppRefs(f, v) = <<HashCell(EncodeDomain(v), <<>>)>>
      /\ AppLines(f, v) = <<Line("App domain", v)>>
  <2>1. AppTitle["domain"] = "App domain"
    BY DEF AppTitle
  <2> QED BY <1>1, <2>1 DEF BitsOf, AppRefs, AppLines
<1>3. AddrSame(4, d, 5, e) /\ DataSame(4, d, 5, e) /\ ExtSame(4, d, 5, e)
  <2>1. /\ ~(4 < 1) /\ ~(4 < 2) /\ 4 < 6 /\ 4 < 7 /\ 4 < 8 /\ ~(5 < 1) /\ ~(5 < 2)
        /\ 5 < 6 /\ 5 < 7 /\ 5 < 8
    OBVIOUS
  <2>2. AddrSame(4, d, 5, e)
    BY <1>1, <2>1, Zenon DEF AddrSame, AddrBits, AddrLine, PartAfter
  <2>3. DataSame(4, d, 5, e)
    BY <1>1, <2>1, Zenon DEF DataSame, DataRef, DataLine
  <2>4. ExtSame(4, d, 5, e)
    BY <1>1, <2>1, Zenon DEF ExtSame, ExtBits, ExtRef, ExtLine, PartAfter
  <2> QED BY <2>2, <2>3, <2>4
<1>4. /\ DomainBits(4, d) = <<>> /\ DomainRef(4, d) = <<>> /\ DomainLine(4, d) = <<>>
      /\ DataRef(4, d) = <<>> /\ DataLine(4, d) = <<>> /\ ExtBits(4, d) = <<>>
      /\ ExtRef(4, d) = <<>> /\ ExtLine(4, d) = <<>>
  <2>1. ~(4 < 3) /\ 4 < 5 /\ 4 < 6 /\ 4 < 7 /\ 4 < 8
    OBVIOUS
  <2> QED BY <1>1, <2>1, Zenon DEF DomainBits, DomainRef, DomainLine, DataRef, DataLine, ExtBits, ExtRef, ExtLine, PartAfter
<1>5. /\ DomainBits(5, e) = BitsOf(f, v) /\ DomainRef(5, e) = AppRefs(f, v)
      /\ DomainLine(5, e) = AppLines(f, v)
  <2>1. ~(5 < 3) /\ ~(5 < 5)
    OBVIOUS
  <2>2. DomainBits(5, e) = <<1>>
    BY <1>1, <2>1, Zenon DEF DomainBits, PartAfter
  <2>3. DomainRef(5, e) = <<HashCell(EncodeDomain(e.domain), <<>>)>>
    BY <1>1, <2>1, Zenon DEF DomainRef, PartAfter
  <2>4. DomainLine(5, e) = <<Line("App domain", e.domain)>>
    BY <1>1, <2>1, Zenon DEF DomainLine, PartAfter
  <2> QED BY <1>1, <1>2, <2>2, <2>3, <2>4, Zenon
<1>6. OneOf3(AddrBits(4, d), DomainBits(4, d), ExtBits(4, d),
             AddrBits(5, e), DomainBits(5, e), ExtBits(5, e), BitsOf(f, v))
  BY <1>2, <1>3, <1>4, <1>5, Zenon DEF OneOf3, AddrSame, DomainSame, ExtSame
<1>7. OneOf3(DomainRef(4, d), DataRef(4, d), ExtRef(4, d),
             DomainRef(5, e), DataRef(5, e), ExtRef(5, e), AppRefs(f, v))
  BY <1>2, <1>3, <1>4, <1>5, Zenon DEF OneOf3, DomainSame, DataSame, ExtSame
<1>8. OneOf4(AddrLine(4, d), DomainLine(4, d), DataLine(4, d), ExtLine(4, d),
             AddrLine(5, e), DomainLine(5, e), DataLine(5, e), ExtLine(5, e), AppLines(f, v))
  BY <1>2, <1>3, <1>4, <1>5, Zenon DEF OneOf4, OneOf3, AddrSame, DomainSame, DataSame, ExtSame
<1>9. /\ BitsOf(f, v) \in Seq(Bit)
      /\ AppRefs(f, v) \in Seq(RefSet(e)) /\ AppLines(f, v) \in Seq(LineSet(e))
  BY <1>1, GainTypes
<1>10. 4 = 5 - 1
  OBVIOUS
<1> QED BY <1>1, <1>6, <1>7, <1>8, <1>9, <1>10, PartsGrow, Zenon

(* data                                                                   *)
LEMMA DataGrows ==
  ASSUME NEW d \in [Names -> Seq(Byte)], NEW v \in Seq(Byte), NEW e, e = Stored(d, "data", v),
         NEW f, f = AppLayout[6]
  PROVE  Grown(6, e, d, BitsOf(f, v), AppRefs(f, v), AppLines(f, v))
<1>1. /\ e \in [Names -> Seq(Byte)] /\ e.data = v /\ e.has_address = d.has_address
      /\ e.addr = d.addr /\ e.has_domain = d.has_domain /\ e.domain = d.domain
      /\ f.name = "data" /\ f.kind = "cellref"
  BY AppFields DEF Stored, Names
<1>2. /\ BitsOf(f, v) = <<>>
      /\ AppRefs(f, v) = <<CellRef(v)>>
      /\ AppLines(f, v) = <<Line("Data hash", CellRef(v).hash)>>
  <2>1. AppTitle["data"] = "Data hash"
    BY DEF AppTitle
  <2> QED BY <1>1, <2>1 DEF BitsOf, AppRefs, AppLines
<1>3. AddrSame(5, d, 6, e) /\ DomainSame(5, d, 6, e) /\ ExtSame(5, d, 6, e)
  <2>1. /\ ~(5 < 1) /\ ~(5 < 2) /\ ~(5 < 3) /\ ~(5 < 5) /\ 5 < 7 /\ 5 < 8 /\ ~(6 < 1)
        /\ ~(6 < 2) /\ ~(6 < 3) /\ ~(6 < 5) /\ 6 < 7 /\ 6 < 8
    OBVIOUS
  <2>2. AddrSame(5, d, 6, e)
    BY <1>1, <2>1, Zenon DEF AddrSame, AddrBits, AddrLine, PartAfter
  <2>3. DomainSame(5, d, 6, e)
    BY <1>1, <2>1, Zenon DEF DomainSame, DomainBits, DomainRef, DomainLine, PartAfter
  <2>4. ExtSame(5, d, 6, e)
    BY <1>1, <2>1, Zenon DEF ExtSame, ExtBits, ExtRef, ExtLine, PartAfter
  <2> QED BY <2>2, <2>3, <2>4
<1>4. /\ DataRef(5, d) = <<>> /\ DataLine(5, d) = <<>> /\ ExtBits(5, d) = <<>>
      /\ ExtRef(5, d) = <<>> /\ ExtLine(5, d) = <<>>
  <2>1. 5 < 6 /\ 5 < 7 /\ 5 < 8
    OBVIOUS
  <2> QED BY <2>1, Zenon DEF DataRef, DataLine, ExtBits, ExtRef, ExtLine, PartAfter
<1>5. DataRef(6, e) = AppRefs(f, v) /\ DataLine(6, e) = AppLines(f, v)
  <2>1. ~(6 < 6)
    OBVIOUS
  <2>2. DataRef(6, e) = <<CellRef(e.data)>>
    BY <1>1, <2>1, Zenon DEF DataRef, PartAfter
  <2>3. DataLine(6, e) = <<Line("Data hash", CellRef(e.data).hash)>>
    BY <1>1, <2>1, Zenon DEF DataLine, PartAfter
  <2> QED BY <1>1, <1>2, <2>2, <2>3, Zenon
<1>6. OneOf3(AddrBits(5, d), DomainBits(5, d), ExtBits(5, d),
             AddrBits(6, e), DomainBits(6, e), ExtBits(6, e), BitsOf(f, v))
  BY <1>2, <1>3, <1>4, <1>5, Zenon DEF OneOf3, AddrSame, DomainSame, ExtSame
<1>7. OneOf3(DomainRef(5, d), DataRef(5, d), ExtRef(5, d),
             DomainRef(6, e), DataRef(6, e), ExtRef(6, e), AppRefs(f, v))
  BY <1>2, <1>3, <1>4, <1>5, Zenon DEF OneOf3, DomainSame, DataSame, ExtSame
<1>8. OneOf4(AddrLine(5, d), DomainLine(5, d), DataLine(5, d), ExtLine(5, d),
             AddrLine(6, e), DomainLine(6, e), DataLine(6, e), ExtLine(6, e), AppLines(f, v))
  BY <1>2, <1>3, <1>4, <1>5, Zenon DEF OneOf4, OneOf3, AddrSame, DomainSame, DataSame, ExtSame
<1>9. /\ BitsOf(f, v) \in Seq(Bit)
      /\ AppRefs(f, v) \in Seq(RefSet(e)) /\ AppLines(f, v) \in Seq(LineSet(e))
  BY <1>1, GainTypes
<1>10. 5 = 6 - 1
  OBVIOUS
<1> QED BY <1>1, <1>6, <1>7, <1>8, <1>9, <1>10, PartsGrow, Zenon

(* has_ext                                                                *)
LEMMA HasExtGrows ==
  ASSUME NEW d \in [Names -> Seq(Byte)], NEW v \in Seq(Byte), NEW e, e = Stored(d, "has_ext", v),
         NEW f, f = AppLayout[7]
  PROVE  Grown(7, e, d, BitsOf(f, v), AppRefs(f, v), AppLines(f, v))
<1>1. /\ e \in [Names -> Seq(Byte)] /\ e.has_ext = v /\ e.has_address = d.has_address
      /\ e.addr = d.addr /\ e.has_domain = d.has_domain /\ e.domain = d.domain
      /\ e.data = d.data /\ f.name = "has_ext" /\ f.kind = "bool"
  BY AppFields DEF Stored, Names
<1>2. /\ BitsOf(f, v) = IF Is(v) THEN <<>> ELSE <<0>>
      /\ AppRefs(f, v) = <<>>
      /\ AppLines(f, v) = <<>>
  BY <1>1 DEF BitsOf, AppRefs, AppLines
<1>3. AddrSame(6, d, 7, e) /\ DomainSame(6, d, 7, e) /\ DataSame(6, d, 7, e)
  <2>1. /\ ~(6 < 1) /\ ~(6 < 2) /\ ~(6 < 3) /\ ~(6 < 5) /\ ~(6 < 6) /\ ~(7 < 1)
        /\ ~(7 < 2) /\ ~(7 < 3) /\ ~(7 < 5) /\ ~(7 < 6)
    OBVIOUS
  <2>2. AddrSame(6, d, 7, e)
    BY <1>1, <2>1, Zenon DEF AddrSame, AddrBits, AddrLine, PartAfter
  <2>3. DomainSame(6, d, 7, e)
    BY <1>1, <2>1, Zenon DEF DomainSame, DomainBits, DomainRef, DomainLine, PartAfter
  <2>4. DataSame(6, d, 7, e)
    BY <1>1, <2>1, Zenon DEF DataSame, DataRef, DataLine
  <2> QED BY <2>2, <2>3, <2>4
<1>4. ExtBits(6, d) = <<>> /\ ExtRef(6, d) = <<>> /\ ExtLine(6, d) = <<>>
  <2>1. 6 < 7 /\ 6 < 8
    OBVIOUS
  <2> QED BY <2>1, Zenon DEF ExtBits, ExtRef, ExtLine, PartAfter
<1>5. /\ ExtBits(7, e) = BitsOf(f, v) /\ ExtRef(7, e) = AppRefs(f, v)
      /\ ExtLine(7, e) = AppLines(f, v)
  <2>1. ~(7 < 7) /\ 7 < 8
    OBVIOUS
  <2> QED BY <1>1, <1>2, <2>1, Zenon DEF ExtBits, ExtRef, ExtLine, PartAfter
<1>6. OneOf3(AddrBits(6, d), DomainBits(6, d), ExtBits(6, d),
             AddrBits(7, e), DomainBits(7, e), ExtBits(7, e), BitsOf(f, v))
  BY <1>2, <1>3, <1>4, <1>5, Zenon DEF OneOf3, AddrSame, DomainSame, ExtSame
<1>7. OneOf3(DomainRef(6, d), DataRef(6, d), ExtRef(6, d),
             DomainRef(7, e), DataRef(7, e), ExtRef(7, e), AppRefs(f, v))
  BY <1>2, <1>3, <1>4, <1>5, Zenon DEF OneOf3, DomainSame, DataSame, ExtSame
<1>8. OneOf4(AddrLine(6, d), DomainLine(6, d), DataLine(6, d), ExtLine(6, d),
             AddrLine(7, e), DomainLine(7, e), DataLine(7, e), ExtLine(7, e), AppLines(f, v))
  BY <1>2, <1>3, <1>4, <1>5, Zenon DEF OneOf4, OneOf3, AddrSame, DomainSame, DataSame, ExtSame
<1>9. /\ BitsOf(f, v) \in Seq(Bit)
      /\ AppRefs(f, v) \in Seq(RefSet(e)) /\ AppLines(f, v) \in Seq(LineSet(e))
  BY <1>1, GainTypes
<1>10. 6 = 7 - 1
  OBVIOUS
<1> QED BY <1>1, <1>6, <1>7, <1>8, <1>9, <1>10, PartsGrow, Zenon

(* ext, which has_ext has announced.                                      *)
LEMMA ExtGrows ==
  ASSUME NEW d \in [Names -> Seq(Byte)], NEW v \in Seq(Byte), NEW e, e = Stored(d, "ext", v),
         NEW f, f = AppLayout[8], Is(d.has_ext)
  PROVE  Grown(8, e, d, BitsOf(f, v), AppRefs(f, v), AppLines(f, v))
<1>1. /\ e \in [Names -> Seq(Byte)] /\ e.ext = v /\ e.has_address = d.has_address
      /\ e.addr = d.addr /\ e.has_domain = d.has_domain /\ e.domain = d.domain
      /\ e.data = d.data /\ e.has_ext = d.has_ext /\ f.name = "ext"
      /\ f.kind = "cellref"
  BY AppFields DEF Stored, Names
<1>2. /\ BitsOf(f, v) = <<1>>
      /\ AppRefs(f, v) = <<CellRef(v)>>
      /\ AppLines(f, v) = <<Line("Extension hash", CellRef(v).hash)>>
  <2>1. AppTitle["ext"] = "Extension hash"
    BY DEF AppTitle
  <2> QED BY <1>1, <2>1 DEF BitsOf, AppRefs, AppLines
<1>3. AddrSame(7, d, 8, e) /\ DomainSame(7, d, 8, e) /\ DataSame(7, d, 8, e)
  <2>1. /\ ~(7 < 1) /\ ~(7 < 2) /\ ~(7 < 3) /\ ~(7 < 5) /\ ~(7 < 6) /\ ~(8 < 1)
        /\ ~(8 < 2) /\ ~(8 < 3) /\ ~(8 < 5) /\ ~(8 < 6)
    OBVIOUS
  <2>2. AddrSame(7, d, 8, e)
    BY <1>1, <2>1, Zenon DEF AddrSame, AddrBits, AddrLine, PartAfter
  <2>3. DomainSame(7, d, 8, e)
    BY <1>1, <2>1, Zenon DEF DomainSame, DomainBits, DomainRef, DomainLine, PartAfter
  <2>4. DataSame(7, d, 8, e)
    BY <1>1, <2>1, Zenon DEF DataSame, DataRef, DataLine
  <2> QED BY <2>2, <2>3, <2>4
<1>4. ExtBits(7, d) = <<>> /\ ExtRef(7, d) = <<>> /\ ExtLine(7, d) = <<>>
  <2>1. ~(7 < 7) /\ 7 < 8
    OBVIOUS
  <2> QED BY <1>1, <2>1, Zenon DEF ExtBits, ExtRef, ExtLine, PartAfter
<1>5. /\ ExtBits(8, e) = BitsOf(f, v) /\ ExtRef(8, e) = AppRefs(f, v)
      /\ ExtLine(8, e) = AppLines(f, v)
  <2>1. ~(8 < 7) /\ ~(8 < 8)
    OBVIOUS
  <2>2. ExtBits(8, e) = <<1>>
    BY <1>1, <2>1, Zenon DEF ExtBits, PartAfter
  <2>3. ExtRef(8, e) = <<CellRef(e.ext)>>
    BY <1>1, <2>1, Zenon DEF ExtRef, PartAfter
  <2>4. ExtLine(8, e) = <<Line("Extension hash", CellRef(e.ext).hash)>>
    BY <1>1, <2>1, Zenon DEF ExtLine, PartAfter
  <2> QED BY <1>1, <1>2, <2>2, <2>3, <2>4, Zenon
<1>6. OneOf3(AddrBits(7, d), DomainBits(7, d), ExtBits(7, d),
             AddrBits(8, e), DomainBits(8, e), ExtBits(8, e), BitsOf(f, v))
  BY <1>2, <1>3, <1>4, <1>5, Zenon DEF OneOf3, AddrSame, DomainSame, ExtSame
<1>7. OneOf3(DomainRef(7, d), DataRef(7, d), ExtRef(7, d),
             DomainRef(8, e), DataRef(8, e), ExtRef(8, e), AppRefs(f, v))
  BY <1>2, <1>3, <1>4, <1>5, Zenon DEF OneOf3, DomainSame, DataSame, ExtSame
<1>8. OneOf4(AddrLine(7, d), DomainLine(7, d), DataLine(7, d), ExtLine(7, d),
             AddrLine(8, e), DomainLine(8, e), DataLine(8, e), ExtLine(8, e), AppLines(f, v))
  BY <1>2, <1>3, <1>4, <1>5, Zenon DEF OneOf4, OneOf3, AddrSame, DomainSame, DataSame, ExtSame
<1>9. /\ BitsOf(f, v) \in Seq(Bit)
      /\ AppRefs(f, v) \in Seq(RefSet(e)) /\ AppLines(f, v) \in Seq(LineSet(e))
  BY <1>1, GainTypes
<1>10. 7 = 8 - 1
  OBVIOUS
<1> QED BY <1>1, <1>6, <1>7, <1>8, <1>9, <1>10, PartsGrow, Zenon

(* addr, when its flag is not set: nothing is added.                      *)
LEMMA AddrMissing ==
  ASSUME NEW d \in [Names -> Seq(Byte)], ~Is(d.has_address)
  PROVE  Grown(2, d, d, <<>>, <<>>, <<>>)
<1>1. /\ AddrSame(1, d, 2, d) /\ DomainSame(1, d, 2, d) /\ DataSame(1, d, 2, d)
      /\ ExtSame(1, d, 2, d)
  <2>1. /\ ~(1 < 1) /\ 1 < 2 /\ 1 < 3 /\ 1 < 5 /\ 1 < 6 /\ 1 < 7 /\ 1 < 8 /\ ~(2 < 1)
        /\ ~(2 < 2) /\ 2 < 3 /\ 2 < 5 /\ 2 < 6 /\ 2 < 7 /\ 2 < 8
    OBVIOUS
  <2>2. AddrSame(1, d, 2, d)
    BY <2>1, Zenon DEF AddrSame, AddrBits, AddrLine, PartAfter
  <2>3. DomainSame(1, d, 2, d)
    BY <2>1, Zenon DEF DomainSame, DomainBits, DomainRef, DomainLine, PartAfter
  <2>4. DataSame(1, d, 2, d)
    BY <2>1, Zenon DEF DataSame, DataRef, DataLine
  <2>5. ExtSame(1, d, 2, d)
    BY <2>1, Zenon DEF ExtSame, ExtBits, ExtRef, ExtLine, PartAfter
  <2> QED BY <2>2, <2>3, <2>4, <2>5
<1>2. OneOf3(AddrBits(1, d), DomainBits(1, d), ExtBits(1, d),
             AddrBits(2, d), DomainBits(2, d), ExtBits(2, d), <<>>)
  BY <1>1, Zenon DEF OneOf3, AddrSame, DomainSame, ExtSame
<1>3. OneOf3(DomainRef(1, d), DataRef(1, d), ExtRef(1, d),
             DomainRef(2, d), DataRef(2, d), ExtRef(2, d), <<>>)
  BY <1>1, Zenon DEF OneOf3, DomainSame, DataSame, ExtSame
<1>4. OneOf4(AddrLine(1, d), DomainLine(1, d), DataLine(1, d), ExtLine(1, d),
             AddrLine(2, d), DomainLine(2, d), DataLine(2, d), ExtLine(2, d), <<>>)
  BY <1>1, Zenon DEF OneOf4, OneOf3, AddrSame, DomainSame, DataSame, ExtSame
<1>5. 1 = 2 - 1 /\ <<>> \in Seq(Bit) /\ <<>> \in Seq(RefSet(d)) /\ <<>> \in Seq(LineSet(d))
  OBVIOUS
<1> QED BY <1>2, <1>3, <1>4, <1>5, PartsGrow, Zenon

(* domain_len, when its flag is not set: nothing is added.                *)
LEMMA DomainLenMissing ==
  ASSUME NEW d \in [Names -> Seq(Byte)], ~Is(d.has_domain)
  PROVE  Grown(4, d, d, <<>>, <<>>, <<>>)
<1>1. /\ AddrSame(3, d, 4, d) /\ DomainSame(3, d, 4, d) /\ DataSame(3, d, 4, d)
      /\ ExtSame(3, d, 4, d)
  <2>1. /\ ~(3 < 1) /\ ~(3 < 2) /\ ~(3 < 3) /\ 3 < 5 /\ 3 < 6 /\ 3 < 7 /\ 3 < 8
        /\ ~(4 < 1) /\ ~(4 < 2) /\ ~(4 < 3) /\ 4 < 5 /\ 4 < 6 /\ 4 < 7 /\ 4 < 8
    OBVIOUS
  <2>2. AddrSame(3, d, 4, d)
    BY <2>1, Zenon DEF AddrSame, AddrBits, AddrLine, PartAfter
  <2>3. DomainSame(3, d, 4, d)
    BY <2>1, Zenon DEF DomainSame, DomainBits, DomainRef, DomainLine, PartAfter
  <2>4. DataSame(3, d, 4, d)
    BY <2>1, Zenon DEF DataSame, DataRef, DataLine
  <2>5. ExtSame(3, d, 4, d)
    BY <2>1, Zenon DEF ExtSame, ExtBits, ExtRef, ExtLine, PartAfter
  <2> QED BY <2>2, <2>3, <2>4, <2>5
<1>2. OneOf3(AddrBits(3, d), DomainBits(3, d), ExtBits(3, d),
             AddrBits(4, d), DomainBits(4, d), ExtBits(4, d), <<>>)
  BY <1>1, Zenon DEF OneOf3, AddrSame, DomainSame, ExtSame
<1>3. OneOf3(DomainRef(3, d), DataRef(3, d), ExtRef(3, d),
             DomainRef(4, d), DataRef(4, d), ExtRef(4, d), <<>>)
  BY <1>1, Zenon DEF OneOf3, DomainSame, DataSame, ExtSame
<1>4. OneOf4(AddrLine(3, d), DomainLine(3, d), DataLine(3, d), ExtLine(3, d),
             AddrLine(4, d), DomainLine(4, d), DataLine(4, d), ExtLine(4, d), <<>>)
  BY <1>1, Zenon DEF OneOf4, OneOf3, AddrSame, DomainSame, DataSame, ExtSame
<1>5. 3 = 4 - 1 /\ <<>> \in Seq(Bit) /\ <<>> \in Seq(RefSet(d)) /\ <<>> \in Seq(LineSet(d))
  OBVIOUS
<1> QED BY <1>2, <1>3, <1>4, <1>5, PartsGrow, Zenon

(* domain, when its flag is not set: nothing is added.                    *)
LEMMA DomainMissing ==
  ASSUME NEW d \in [Names -> Seq(Byte)], ~Is(d.has_domain)
  PROVE  Grown(5, d, d, <<>>, <<>>, <<>>)
<1>1. /\ AddrSame(4, d, 5, d) /\ DomainSame(4, d, 5, d) /\ DataSame(4, d, 5, d)
      /\ ExtSame(4, d, 5, d)
  <2>1. /\ ~(4 < 1) /\ ~(4 < 2) /\ ~(4 < 3) /\ 4 < 5 /\ 4 < 6 /\ 4 < 7 /\ 4 < 8
        /\ ~(5 < 1) /\ ~(5 < 2) /\ ~(5 < 3) /\ ~(5 < 5) /\ 5 < 6 /\ 5 < 7 /\ 5 < 8
    OBVIOUS
  <2>2. AddrSame(4, d, 5, d)
    BY <2>1, Zenon DEF AddrSame, AddrBits, AddrLine, PartAfter
  <2>3. DomainSame(4, d, 5, d)
    BY <2>1, Zenon DEF DomainSame, DomainBits, DomainRef, DomainLine, PartAfter
  <2>4. DataSame(4, d, 5, d)
    BY <2>1, Zenon DEF DataSame, DataRef, DataLine
  <2>5. ExtSame(4, d, 5, d)
    BY <2>1, Zenon DEF ExtSame, ExtBits, ExtRef, ExtLine, PartAfter
  <2> QED BY <2>2, <2>3, <2>4, <2>5
<1>2. OneOf3(AddrBits(4, d), DomainBits(4, d), ExtBits(4, d),
             AddrBits(5, d), DomainBits(5, d), ExtBits(5, d), <<>>)
  BY <1>1, Zenon DEF OneOf3, AddrSame, DomainSame, ExtSame
<1>3. OneOf3(DomainRef(4, d), DataRef(4, d), ExtRef(4, d),
             DomainRef(5, d), DataRef(5, d), ExtRef(5, d), <<>>)
  BY <1>1, Zenon DEF OneOf3, DomainSame, DataSame, ExtSame
<1>4. OneOf4(AddrLine(4, d), DomainLine(4, d), DataLine(4, d), ExtLine(4, d),
             AddrLine(5, d), DomainLine(5, d), DataLine(5, d), ExtLine(5, d), <<>>)
  BY <1>1, Zenon DEF OneOf4, OneOf3, AddrSame, DomainSame, DataSame, ExtSame
<1>5. 4 = 5 - 1 /\ <<>> \in Seq(Bit) /\ <<>> \in Seq(RefSet(d)) /\ <<>> \in Seq(LineSet(d))
  OBVIOUS
<1> QED BY <1>2, <1>3, <1>4, <1>5, PartsGrow, Zenon

(* ext, when its flag is not set: nothing is added.                       *)
LEMMA ExtMissing ==
  ASSUME NEW d \in [Names -> Seq(Byte)], ~Is(d.has_ext)
  PROVE  Grown(8, d, d, <<>>, <<>>, <<>>)
<1>1. /\ AddrSame(7, d, 8, d) /\ DomainSame(7, d, 8, d) /\ DataSame(7, d, 8, d)
      /\ ExtSame(7, d, 8, d)
  <2>1. /\ ~(7 < 1) /\ ~(7 < 2) /\ ~(7 < 3) /\ ~(7 < 5) /\ ~(7 < 6) /\ ~(7 < 7) /\ 7 < 8
        /\ ~(8 < 1) /\ ~(8 < 2) /\ ~(8 < 3) /\ ~(8 < 5) /\ ~(8 < 6) /\ ~(8 < 7)
        /\ ~(8 < 8)
    OBVIOUS
  <2>2. AddrSame(7, d, 8, d)
    BY <2>1, Zenon DEF AddrSame, AddrBits, AddrLine, PartAfter
  <2>3. DomainSame(7, d, 8, d)
    BY <2>1, Zenon DEF DomainSame, DomainBits, DomainRef, DomainLine, PartAfter
  <2>4. DataSame(7, d, 8, d)
    BY <2>1, Zenon DEF DataSame, DataRef, DataLine
  <2>5. ExtSame(7, d, 8, d)
    BY <2>1, Zenon DEF ExtSame, ExtBits, ExtRef, ExtLine, PartAfter
  <2> QED BY <2>2, <2>3, <2>4, <2>5
<1>2. OneOf3(AddrBits(7, d), DomainBits(7, d), ExtBits(7, d),
             AddrBits(8, d), DomainBits(8, d), ExtBits(8, d), <<>>)
  BY <1>1, Zenon DEF OneOf3, AddrSame, DomainSame, ExtSame
<1>3. OneOf3(DomainRef(7, d), DataRef(7, d), ExtRef(7, d),
             DomainRef(8, d), DataRef(8, d), ExtRef(8, d), <<>>)
  BY <1>1, Zenon DEF OneOf3, DomainSame, DataSame, ExtSame
<1>4. OneOf4(AddrLine(7, d), DomainLine(7, d), DataLine(7, d), ExtLine(7, d),
             AddrLine(8, d), DomainLine(8, d), DataLine(8, d), ExtLine(8, d), <<>>)
  BY <1>1, Zenon DEF OneOf4, OneOf3, AddrSame, DomainSame, DataSame, ExtSame
<1>5. 7 = 8 - 1 /\ <<>> \in Seq(Bit) /\ <<>> \in Seq(RefSet(d)) /\ <<>> \in Seq(LineSet(d))
  OBVIOUS
<1> QED BY <1>2, <1>3, <1>4, <1>5, PartsGrow, Zenon

-----------------------------------------------------------------------------
(* A field is passed over when it is not the first of its part and the     *)
(* flag of the part is not set, and only then.                             *)
LEMMA AppWhen ==
  /\ AppLayout[1].when = "" /\ AppLayout[3].when = "" /\ AppLayout[6].when = ""
  /\ AppLayout[7].when = ""
  /\ AppLayout[2].when = "has_address" /\ AppLayout[4].when = "has_domain"
  /\ AppLayout[5].when = "has_domain" /\ AppLayout[8].when = "has_ext"
BY Zenon DEF AppLayout, Field

(* A field of the application data is missing only because its flag is off.*)
LEMMA AppMissing ==
  ASSUME NEW d, NEW k \in 1..8, Missing(AppLayout[k], d)
  PROVE  \/ k = 2 /\ ~Is(d.has_address)
         \/ k = 4 /\ ~Is(d.has_domain)
         \/ k = 5 /\ ~Is(d.has_domain)
         \/ k = 8 /\ ~Is(d.has_ext)
<1>1. k \in {1, 2, 3, 4, 5, 6, 7, 8}
  OBVIOUS
<1>2. ~Is(d[AppLayout[k].when]) /\ AppLayout[k].when # ""
  BY Zenon DEF Missing
<1>3. k \notin {1, 3, 6, 7}
  BY <1>2, AppWhen, Zenon
<1>4. k = 2 \/ k = 4 \/ k = 5 \/ k = 8
  BY <1>1, <1>3
<1> QED BY <1>2, <1>4, AppWhen, Zenon

(* A field that is there has its flag on.                                  *)
LEMMA AppNotMissing ==
  ASSUME NEW d, NEW k \in 1..8, ~Missing(AppLayout[k], d)
  PROVE  /\ k = 2 => Is(d.has_address)
         /\ k = 4 => Is(d.has_domain)
         /\ k = 5 => Is(d.has_domain)
         /\ k = 8 => Is(d.has_ext)
<1>1. "has_address" # "" /\ "has_domain" # "" /\ "has_ext" # ""
  OBVIOUS
<1>2. AppLayout[k].when = "" \/ Is(d[AppLayout[k].when])
  BY Zenon DEF Missing
<1> QED BY <1>1, <1>2, AppWhen, Zenon

(* Each field adds to the cell what it is stored as.                       *)
LEMMA FieldGrows ==
  ASSUME NEW d \in [Names -> Seq(Byte)], NEW v \in Seq(Byte), NEW k \in 1..8,
         NEW f, f = AppLayout[k], NEW e, e = Stored(d, f.name, v), ~Missing(f, d)
  PROVE  Grown(k, e, d, BitsOf(f, v), AppRefs(f, v), AppLines(f, v))
<1>1. /\ k = 2 => Is(d.has_address)
      /\ k = 5 => Is(d.has_domain)
      /\ k = 8 => Is(d.has_ext)
  BY AppNotMissing, Zenon
<1>2. k \in {1, 2, 3, 4, 5, 6, 7, 8}
  OBVIOUS
<1>3. CASE k = 1
  <2>1. e = Stored(d, "has_address", v) /\ f = AppLayout[1]
    BY <1>3, AppFields, Zenon
  <2> QED BY <1>1, <1>3, <2>1, HasAddressGrows, Zenon
<1>4. CASE k = 2
  <2>1. e = Stored(d, "addr", v) /\ f = AppLayout[2]
    BY <1>4, AppFields, Zenon
  <2> QED BY <1>1, <1>4, <2>1, AddrGrows, Zenon
<1>5. CASE k = 3
  <2>1. e = Stored(d, "has_domain", v) /\ f = AppLayout[3]
    BY <1>5, AppFields, Zenon
  <2> QED BY <1>1, <1>5, <2>1, HasDomainGrows, Zenon
<1>6. CASE k = 4
  <2>1. e = Stored(d, "domain_len", v) /\ f = AppLayout[4]
    BY <1>6, AppFields, Zenon
  <2> QED BY <1>1, <1>6, <2>1, DomainLenGrows, Zenon
<1>7. CASE k = 5
  <2>1. e = Stored(d, "domain", v) /\ f = AppLayout[5]
    BY <1>7, AppFields, Zenon
  <2> QED BY <1>1, <1>7, <2>1, DomainGrows, Zenon
<1>8. CASE k = 6
  <2>1. e = Stored(d, "data", v) /\ f = AppLayout[6]
    BY <1>8, AppFields, Zenon
  <2> QED BY <1>1, <1>8, <2>1, DataGrows, Zenon
<1>9. CASE k = 7
  <2>1. e = Stored(d, "has_ext", v) /\ f = AppLayout[7]
    BY <1>9, AppFields, Zenon
  <2> QED BY <1>1, <1>9, <2>1, HasExtGrows, Zenon
<1>10. CASE k = 8
  <2>1. e = Stored(d, "ext", v) /\ f = AppLayout[8]
    BY <1>10, AppFields, Zenon
  <2> QED BY <1>1, <1>10, <2>1, ExtGrows, Zenon
<1> QED BY <1>2, <1>3, <1>4, <1>5, <1>6, <1>7, <1>8, <1>9, <1>10

(* One that is not there adds nothing.                                     *)
LEMMA FieldAbsent ==
  ASSUME NEW d \in [Names -> Seq(Byte)], NEW k \in 1..8, Missing(AppLayout[k], d)
  PROVE  Grown(k, d, d, <<>>, <<>>, <<>>)
<1>1. \/ k = 2 /\ ~Is(d.has_address)
      \/ k = 4 /\ ~Is(d.has_domain)
      \/ k = 5 /\ ~Is(d.has_domain)
      \/ k = 8 /\ ~Is(d.has_ext)
  BY AppMissing, Zenon
<1> QED BY <1>1, AddrMissing, DomainLenMissing, DomainMissing, ExtMissing, Zenon

-----------------------------------------------------------------------------
(* What is read has the length that is expected of it.                     *)
LEMMA AbsentSized ==
  ASSUME NEW d, NEW k \in 1..8, Missing(AppLayout[k], d), Sized(k - 1, d)
  PROVE  Sized(k, d)
<1>1. \/ k = 2 /\ ~Is(d.has_address)
      \/ k = 4 /\ ~Is(d.has_domain)
      \/ k = 5 /\ ~Is(d.has_domain)
      \/ k = 8 /\ ~Is(d.has_ext)
  BY AppMissing, Zenon
<1> QED BY <1>1 DEF Sized

(* What the parser asks of the fields it stores.                           *)
FieldSized(k, d, v) ==
  /\ k = 2 => Len(v) = 1 + HashLen
  /\ k = 4 => BytesNumber(v) <= MaxDomain
  /\ k = 5 => IsAscii(v) /\ Len(v) = BytesNumber(d.domain_len)
  /\ k = 6 \/ k = 8 => Len(v) = ShortLen + HashLen

(* A field taken with its length leaves every field so far with its length.*)
LEMMA TakenSized ==
  ASSUME NEW d \in [Names -> Seq(Byte)], NEW v \in Seq(Byte), NEW k \in 1..8,
         NEW f, f = AppLayout[k], NEW e, e = Stored(d, f.name, v), ~Missing(f, d),
         Sized(k - 1, d), FieldSized(k, d, v)
  PROVE  Sized(k, e)
<1>1. k = 5 => Is(d.has_domain)
  BY AppNotMissing, Zenon
<1>2. k \in {1, 2, 3, 4, 5, 6, 7, 8}
  OBVIOUS
<1>3. CASE k = 1
  <2>1. f.name = "has_address"
    BY <1>3, AppFields
  <2>2. e.has_address = v
    BY <2>1 DEF Stored, Names
  <2> QED BY <1>1, <1>3, <2>2 DEF Sized, FieldSized
<1>4. CASE k = 2
  <2>1. f.name = "addr"
    BY <1>4, AppFields
  <2>2. e.addr = v /\ e.has_address = d.has_address
    BY <2>1 DEF Stored, Names
  <2> QED BY <1>1, <1>4, <2>2 DEF Sized, FieldSized
<1>5. CASE k = 3
  <2>1. f.name = "has_domain"
    BY <1>5, AppFields
  <2>2. e.has_domain = v /\ e.has_address = d.has_address /\ e.addr = d.addr
    BY <2>1 DEF Stored, Names
  <2> QED BY <1>1, <1>5, <2>2 DEF Sized, FieldSized
<1>6. CASE k = 4
  <2>1. f.name = "domain_len"
    BY <1>6, AppFields
  <2>2. e.domain_len = v /\ e.has_address = d.has_address /\ e.addr = d.addr /\ e.has_domain = d.has_domain
    BY <2>1 DEF Stored, Names
  <2> QED BY <1>1, <1>6, <2>2 DEF Sized, FieldSized
<1>7. CASE k = 5
  <2>1. f.name = "domain"
    BY <1>7, AppFields
  <2>2. e.domain = v /\ e.has_address = d.has_address /\ e.addr = d.addr /\ e.has_domain = d.has_domain
        /\ e.domain_len = d.domain_len
    BY <2>1 DEF Stored, Names
  <2> QED BY <1>1, <1>7, <2>2 DEF Sized, FieldSized
<1>8. CASE k = 6
  <2>1. f.name = "data"
    BY <1>8, AppFields
  <2>2. e.data = v /\ e.has_address = d.has_address /\ e.addr = d.addr /\ e.has_domain = d.has_domain
        /\ e.domain_len = d.domain_len /\ e.domain = d.domain
    BY <2>1 DEF Stored, Names
  <2> QED BY <1>1, <1>8, <2>2 DEF Sized, FieldSized
<1>9. CASE k = 7
  <2>1. f.name = "has_ext"
    BY <1>9, AppFields
  <2>2. e.has_ext = v /\ e.has_address = d.has_address /\ e.addr = d.addr /\ e.has_domain = d.has_domain
        /\ e.domain_len = d.domain_len /\ e.domain = d.domain /\ e.data = d.data
    BY <2>1 DEF Stored, Names
  <2> QED BY <1>1, <1>9, <2>2 DEF Sized, FieldSized
<1>10. CASE k = 8
  <2>1. f.name = "ext"
    BY <1>10, AppFields
  <2>2. e.ext = v /\ e.has_address = d.has_address /\ e.addr = d.addr /\ e.has_domain = d.has_domain
        /\ e.domain_len = d.domain_len /\ e.domain = d.domain /\ e.data = d.data /\ e.has_ext = d.has_ext
    BY <2>1 DEF Stored, Names
  <2> QED BY <1>1, <1>10, <2>2 DEF Sized, FieldSized
<1> QED BY <1>2, <1>3, <1>4, <1>5, <1>6, <1>7, <1>8, <1>9, <1>10

-----------------------------------------------------------------------------
(***************************************************************************)
(* What is stored is what a field adds, and the cell has room for it.      *)
(***************************************************************************)

(* The bits of an address with its tag.                                    *)
AddressBits == 4 + ByteBits * (1 + HashLen)

(* An address, and the two bits that may follow it, fit in a cell.         *)
LEMMA AddressFits ==
  /\ AddressBits \in Nat /\ AddressBits + 2 <= CellBits /\ CellBits <= Room
  /\ CellBits \in Nat /\ Room \in Nat
<1> DEFINE x == ByteBits * (1 + HashLen)
           y == (1 + HashLen) * ByteBits
           z == Capacity * ByteBits
<1>1. x \in Nat /\ x = y /\ z \in Nat
  BY WidthsAssumption, BitStringAssumption
<1>2. CellBits \in ByteBits..z /\ 6 + y <= CellBits
  BY CellAssumption
<1> HIDE DEF x, y, z
<1>3. CellBits \in Nat /\ CellBits <= z /\ 4 + x + 2 <= CellBits
  BY <1>1, <1>2, WidthsAssumption
<1> QED BY <1>1, <1>3 DEF AddressBits, Room, x, z

(* What the fields so far have stored fits in the cell and in its buffer.  *)
LEMMA BitsRoom ==
  ASSUME NEW d \in [Names -> Seq(Byte)], NEW n \in 0..8, Sized(n, d)
  PROVE  BitsAfter(n, d) \in Seq(Bit) /\ Len(BitsAfter(n, d)) <= CellBits
         /\ Len(BitsAfter(n, d)) <= Room
<1>1. AddrBits(n, d) \in Seq(Bit) /\ DomainBits(n, d) \in Seq(Bit) /\ ExtBits(n, d) \in Seq(Bit)
  BY BitPartTypes
<1>2. Len(DomainBits(n, d)) <= 1 /\ Len(ExtBits(n, d)) <= 1
  BY DEF DomainBits, ExtBits, PartAfter
<1>3. Len(AddrBits(n, d)) <= AddressBits
  <2> DEFINE x == BytesBits(d.addr)
  <2>1. d.addr \in Seq(Nat)
    BY BytesAreNumbers DEF Names
  <2>2. x \in Seq(Bit) /\ Len(x) = ByteBits * Len(d.addr)
    BY <2>1, BytesBitsType
  <2> HIDE DEF x
  <2>3. CASE n >= 2 /\ Is(d.has_address)
    <3>1. Len(d.addr) = 1 + HashLen
      BY <2>3 DEF Sized
    <3>2. AddrBits(n, d) = <<1, 1, 0, 0>> \o x
      BY <2>3 DEF AddrBits, PartAfter, x
    <3>3. <<1, 1, 0, 0>> \in Seq(Bit) /\ Len(<<1, 1, 0, 0>>) = 4
      BY DEF Bit
    <3>4. Len(AddrBits(n, d)) = 4 + Len(x)
      BY <2>2, <3>2, <3>3, JoinedAs
    <3>5. Len(x) = ByteBits * (1 + HashLen)
      BY <2>2, <3>1, Zenon
    <3> QED BY <3>4, <3>5, AddressFits DEF AddressBits
  <2>4. CASE ~(n >= 2 /\ Is(d.has_address))
    <3>1. AddrBits(n, d) = <<>> \/ AddrBits(n, d) = <<0>>
      <4>1. n < 2 \/ ~Is(d.has_address)
        BY <2>4
      <4> QED BY <4>1, Zenon DEF AddrBits, PartAfter
    <3>2. Len(AddrBits(n, d)) <= 1
      <4>1. Len(<<>>) <= 1 /\ Len(<< 0 >>) <= 1
        BY FewBits
      <4> QED BY <3>1, <4>1, Zenon
    <3>3. AddressBits >= 1
      <4> DEFINE y == ByteBits * (1 + HashLen)
      <4>1. y \in Nat
        BY WidthsAssumption
      <4> HIDE DEF y
      <4>2. 4 + y >= 1
        BY <4>1
      <4> QED BY <4>2 DEF AddressBits, y
    <3> QED BY <1>1, <3>2, <3>3, AddressFits
  <2> QED BY <2>3, <2>4
<1> DEFINE p == AddrBits(n, d)
           q == DomainBits(n, d)
           r == ExtBits(n, d)
<1>4. BitsAfter(n, d) = (p \o q) \o r
  BY AreParts
<1> HIDE DEF p, q, r
<1>5. p \o q \in Seq(Bit) /\ Len(p \o q) = Len(p) + Len(q) /\ Len(p) \in Nat /\ Len(q) \in Nat
  BY <1>1, Joined DEF p, q, r
<1>6. (p \o q) \o r \in Seq(Bit) /\ Len((p \o q) \o r) = Len(p \o q) + Len(r) /\ Len(r) \in Nat
  BY <1>1, <1>5, Joined DEF r
<1>7. Len(p) <= AddressBits /\ Len(q) <= 1 /\ Len(r) <= 1
  BY <1>2, <1>3 DEF p, q, r
<1> QED BY <1>4, <1>5, <1>6, <1>7, AddressFits

(* The tag of an address begins with the bit of its flag.                  *)
LEMMA TagBits ==
  ASSUME NEW x \in Seq(Bit)
  PROVE  <<1, 1, 0, 0>> \o x = << 1 >> \o (<<1, 0, 0>> \o x)
BY SMTT(30)

(* Storing a field adds exactly its bits to what the cell holds.           *)
LEMMA AppStoredHolds ==
  ASSUME NEW w, Holds(bits, w), NEW k \in 1..8, NEW f, f = AppLayout[k], NEW v \in Seq(Byte),
         Len(w \o BitsOf(f, v)) <= Room
  PROVE  Holds(AppStored(f, v), w \o BitsOf(f, v))
<1>1. w \in Seq(Bit) /\ Len(w) \in Nat
  BY HoldsType
<1>2. f.kind = "bool" => f.name \notin {"addr", "domain", "ext"}
  <2>1. k \in {1, 2, 3, 4, 5, 6, 7, 8}
    OBVIOUS
  <2> QED BY <2>1, AppFields
<1>3. CASE f.name = "addr"
  <2> DEFINE x == BytesBits(v)
             whole == w \o (<<1, 1, 0, 0>> \o x)
  <2>1. v \in Seq(Nat) /\ x \in Seq(Bit)
    BY BytesAreNumbers, BytesBitsType
  <2>2. BitsOf(f, v) = <<1, 1, 0, 0>> \o x
    BY <1>2, <1>3 DEF BitsOf
  <2>3. AppStored(f, v) = StoreAddress(StoreBit(bits, 1), v)
    BY <1>2, <1>3 DEF AppStored
  <2> HIDE DEF x
  <2>4. <<1, 1, 0, 0>> \o x = << 1 >> \o (<<1, 0, 0>> \o (x \o <<>>))
    <3>1. x \o <<>> = x
      BY <2>1
    <3> QED BY <2>1, <3>1, TagBits
  <2>5. << 1 >> \o (<<1, 0, 0>> \o (x \o <<>>)) \in Seq(Bit) /\ <<1, 0, 0>> \o (x \o <<>>) \in Seq(Bit)
        /\ <<>> \in Seq(Bit)
    BY <2>1, FewBits, ConcatProperties
  <2>6. Len(whole) <= Room
    BY <2>2
  <2>7. Building(bits, << 1 >> \o (<<1, 0, 0>> \o (x \o <<>>)), whole)
    BY <1>1, <2>4, <2>5, <2>6 DEF Building
  <2> HIDE DEF whole
  <2>8. Building(StoreBit(bits, 1), <<1, 0, 0>> \o (x \o <<>>), whole)
    <3>1. 1 \in Bit
      BY DEF Bit
    <3> QED BY <2>5, <2>7, <3>1, StoreBitBuilds
  <2>9. Building(StoreAddress(StoreBit(bits, 1), v), <<>>, whole)
    BY <2>1, <2>5, <2>8, StoreAddressBuilds DEF x
  <2> QED BY <2>2, <2>3, <2>9, AllBuilt DEF whole
<1>4. CASE f.name \in {"domain", "ext"}
  <2>1. BitsOf(f, v) = << 1 >> /\ AppStored(f, v) = StoreBit(bits, 1)
    BY <1>2, <1>4 DEF BitsOf, AppStored
  <2>2. w \o << 1 >> = Append(w, 1) /\ Len(w) < Room
    BY <1>1, <2>1, AddressFits
  <2>3. 1 \in Bit
    BY DEF Bit
  <2> QED BY <2>1, <2>2, <2>3, StoreBitHolds
<1>5. CASE f.name \notin {"addr", "domain", "ext"} /\ f.kind = "bool" /\ ~Is(v)
  <2>1. BitsOf(f, v) = << 0 >> /\ AppStored(f, v) = StoreBit(bits, 0)
    BY <1>5 DEF BitsOf, AppStored
  <2>2. w \o << 0 >> = Append(w, 0) /\ Len(w) < Room
    BY <1>1, <2>1, AddressFits
  <2>3. 0 \in Bit
    BY DEF Bit
  <2> QED BY <2>1, <2>2, <2>3, StoreBitHolds
<1>6. CASE f.name \notin {"addr", "domain", "ext"} /\ ~(f.kind = "bool" /\ ~Is(v))
  <2>1. BitsOf(f, v) = <<>> /\ AppStored(f, v) = bits
    BY <1>6 DEF BitsOf, AppStored
  <2>2. w \o <<>> = w
    BY <1>1
  <2> QED BY <2>1, <2>2
<1> QED BY <1>3, <1>4, <1>5, <1>6

-----------------------------------------------------------------------------
(***************************************************************************)
(* sign_data_deserialize: the invariant, action by action.                 *)
(***************************************************************************)

(* Before the first field there is nothing.                                *)
LEMMA NothingRead ==
  ASSUME NEW d
  PROVE  AppRead(0, d, NoBits, <<>>, <<>>)
<1>1. <<>> \o <<>> = <<>>
  OBVIOUS
<1>2. BitsAfter(0, d) = <<>> /\ RefsAfter(0, d) = <<>> /\ LinesAfter(0, d) = <<>>
  <2>1. 0 < 1 /\ 0 < 3 /\ 0 < 6 /\ 0 < 7
    OBVIOUS
  <2> QED BY <1>1, <2>1, Zenon DEF BitsAfter, RefsAfter, LinesAfter, PartAfter
<1>3. NoBits \in BitString /\ Content(NoBits) = <<>>
  BY NoBitsHolds DEF Holds
<1>4. Sized(0, d)
  BY DEF Sized
<1> QED BY <1>2, <1>3, <1>4 DEF AppRead

(* So it is as long as it is what has been built.                          *)
LEMMA StillNothing ==
  ASSUME NEW d, NEW e, NEW t, NEW links, NEW shown, AppRead(0, d, t, links, shown)
  PROVE  AppRead(0, e, t, links, shown)
<1>1. /\ BitsAfter(0, d) = BitsAfter(0, e) /\ RefsAfter(0, d) = RefsAfter(0, e)
      /\ LinesAfter(0, d) = LinesAfter(0, e)
  <2>1. 0 < 1 /\ 0 < 3 /\ 0 < 6 /\ 0 < 7
    OBVIOUS
  <2> QED BY <2>1, Zenon DEF BitsAfter, RefsAfter, LinesAfter, PartAfter
<1>2. Sized(0, e)
  BY DEF Sized
<1> QED BY <1>1, <1>2 DEF AppRead

(* Every request is at its beginning.                                      *)
LEMMA InitInCell == ASSUME Init PROVE RequestInCell
<1>1. PICK r \in Requests : buf = Buffer(r.bytes, r.size)
  BY DEF Init
<1>2. r.bytes \in Seq(Byte) /\ r.size \in 0..Len(r.bytes) /\ r.size < SizeMod
  BY RequestsAssumption
<1>3. buf = [ptr |-> r.bytes, size |-> r.size, offset |-> 0]
  BY <1>1 DEF Buffer
<1>4. InData(buf) /\ buf.offset = 0
  BY <1>2, <1>3 DEF InData
<1>5. data \in Values(Header \o AppLayout)
  <2>1. <<>> \in Seq(Byte)
    OBVIOUS
  <2> QED BY <2>1, Zenon DEF Init, NoValues, Values
<1>6. AppRead(0, data, bits, refs, lines)
  BY NothingRead DEF Init
<1>7. pc = "header" /\ at = 1 /\ status = "read"
  BY DEF Init
<1> QED BY <1>4, <1>5, <1>6, <1>7 DEF RequestInCell, Accepted

(* A refused request is looked at no more.                                 *)
LEMMA RefuseInCell ==
  ASSUME RequestInCell, status = "read", Refuse
  PROVE  RequestInCell'
<1>1. /\ status' = "refused"
      /\ UNCHANGED <<pc, at, buf, data, bits, refs, lines, cell, signed>>
  BY DEF Refuse
<1>2. pc' = "header" =>
        /\ at' \in 1..2 /\ AppRead(0, data', bits', refs', lines')
        /\ buf'.offset = (IF at' = 1 THEN 0 ELSE WordLen)
        /\ (at' = 2 => data'.schema_crc = SubSeq(buf'.ptr, 1, WordLen))
  BY <1>1 DEF RequestInCell
<1>3. pc' = "request" => HeaderRead'
  BY <1>1 DEF RequestInCell, HeaderRead
<1>4. data' \in Values(Header \o AppLayout) /\ InData(buf') /\ pc' \in {"header", "request"}
  BY <1>1 DEF RequestInCell
<1>5. ~Accepted' /\ status' # "signed" /\ status' # "read"
  BY <1>1 DEF Accepted
<1> QED BY <1>1, <1>2, <1>3, <1>4, <1>5 DEF RequestInCell

(* A request that is not looked at stays as it is.                         *)
LEMMA StutterInCell == ASSUME RequestInCell, UNCHANGED vars PROVE RequestInCell'
<1>1. UNCHANGED <<pc, at, buf, data, bits, refs, lines, status, cell, signed>>
  BY DEF vars
<1> QED BY <1>1 DEF RequestInCell, Accepted, HeaderRead, TextRead, SchemaRead

(* The fields of the header.                                               *)
LEMMA HeaderFields ==
  /\ Len(Header) = 2
  /\ Header[1].name = "schema_crc" /\ Header[1].kind = "BE" /\ Header[1].n = WordLen
  /\ Header[2].name = "timestamp" /\ Header[2].kind = "BE" /\ Header[2].n = LongLen
BY DEF Header, Field

(* Reading the schema or the time keeps the cell with the request.         *)
LEMMA ReadHeaderInCell == ASSUME RequestInCell, ReadHeader PROVE RequestInCell'
<1> DEFINE f == Header[at]
           c == [kind |-> f.kind, n |-> f.n]
           r == ReadCall(buf, c)
<1>1. /\ status = "read" /\ pc = "header" /\ at \in 1..2
      /\ IF ~r.ok THEN Refuse
         ELSE /\ buf' = r.buf
              /\ data' = [data EXCEPT ![f.name] = r.value]
              /\ IF at < 2 THEN at' = at + 1 /\ UNCHANGED pc ELSE pc' = "request" /\ at' = 1
              /\ UNCHANGED <<bits, refs, lines, status, cell, signed>>
  BY HeaderFields DEF ReadHeader, RequestInCell
<1>2. /\ data \in [Names -> Seq(Byte)] /\ buf \in GoodBuffers
      /\ AppRead(0, data, bits, refs, lines)
      /\ buf.offset = (IF at = 1 THEN 0 ELSE WordLen)
      /\ at = 2 => data.schema_crc = SubSeq(buf.ptr, 1, WordLen)
  BY <1>1, DataNames, DataIsGood DEF RequestInCell
<1>3. f.kind = "BE" /\ f.n = (IF at = 1 THEN WordLen ELSE LongLen) /\ f.n \in Nat
      /\ f.name = (IF at = 1 THEN "schema_crc" ELSE "timestamp")
      /\ WordLen \in Nat \ {0} /\ LongLen \in Nat \ {0}
  BY <1>1, HeaderFields, WidthsAssumption
<1>4. r = ReadBytes(buf, f.n)
  BY <1>3 DEF ReadCall, ReadUint
<1> HIDE DEF c, r
<1>5. CASE ~r.ok
  BY <1>1, <1>5, RefuseInCell
<1>6. CASE r.ok
  <2>0. f.n \in 0..BytesLeft(buf) /\ Took(buf, r, f.n)
    <3> HIDE DEF f
    <3> QED BY <1>2, <1>3, <1>4, <1>6, BytesTaken
  <2>1. r.value = BytesAt(buf, f.n) /\ r.buf = Skip(buf, f.n)
    BY <2>0 DEF Took
  <2>2. /\ buf' = r.buf /\ data' = [data EXCEPT ![f.name] = r.value]
        /\ (IF at < 2 THEN at' = at + 1 /\ UNCHANGED pc ELSE pc' = "request" /\ at' = 1)
        /\ UNCHANGED <<bits, refs, lines, status, cell, signed>>
    BY <1>1, <1>6
  <2>3. /\ buf' \in GoodBuffers /\ buf'.ptr = buf.ptr /\ buf'.offset = buf.offset + f.n
    <3> HIDE DEF f
    <3> QED BY <1>2, <2>0, <2>1, <2>2, SkipStaysGood
  <2>4. r.value \in Seq(Byte) /\ r.value = SubSeq(buf.ptr, buf.offset + 1, buf.offset + f.n)
    <3> HIDE DEF f
    <3> QED BY <1>2, <2>0, <2>1, BytesAtType DEF BytesAt
  <2>5. f.name \in Names
    BY <1>3 DEF Names
  <2>6. data' \in [Names -> Seq(Byte)]
    <3> HIDE DEF f
    <3> QED BY <1>2, <2>2, <2>4, <2>5
  <2>7. AppRead(0, data', bits', refs', lines')
    BY <1>2, <2>2, StillNothing
  <2>8. InData(buf') /\ data' \in Values(Header \o AppLayout)
    BY <2>3, <2>6, DataIsGood, DataNames
  <2>9. status' = "read" /\ ~Accepted'
    BY <1>1, <2>2 DEF Accepted
  <2>10. CASE at = 1
    <3>1. at' = 2 /\ pc' = "header"
      BY <1>1, <2>2, <2>10
    <3>2. f.name = "schema_crc" /\ f.n = WordLen
      BY <1>3, <2>10
    <3>3. data'.schema_crc = r.value
      <4> HIDE DEF f
      <4> QED BY <1>2, <2>2, <3>2 DEF Names
    <3>4. r.value = SubSeq(buf'.ptr, 1, WordLen) /\ buf'.offset = WordLen
      <4>1. buf.offset = 0 /\ 0 + 1 = 1 /\ 0 + WordLen = WordLen
        BY <1>2, <1>3, <2>10
      <4> HIDE DEF f
      <4> QED BY <2>3, <2>4, <3>2, <4>1
    <3> QED BY <2>7, <2>8, <2>9, <3>1, <3>3, <3>4 DEF RequestInCell
  <2>11. CASE at = 2
    <3>1. at' = 1 /\ pc' = "request"
      BY <1>1, <2>2, <2>11
    <3>2. f.name = "timestamp" /\ f.n = LongLen /\ buf.offset = WordLen
      BY <1>2, <1>3, <2>11
    <3>3. data'.timestamp = r.value /\ data'.schema_crc = data.schema_crc
      <4> HIDE DEF f
      <4> QED BY <1>2, <2>2, <3>2 DEF Names
    <3>4. /\ r.value = SubSeq(buf'.ptr, WordLen + 1, WordLen + LongLen)
          /\ buf'.offset = WordLen + LongLen
      <4> HIDE DEF f
      <4> QED BY <2>3, <2>4, <3>2
    <3>5. data'.schema_crc = SubSeq(buf'.ptr, 1, WordLen)
      BY <1>2, <2>3, <2>11, <3>3
    <3>6. HeaderRead'
      BY <1>3, <3>3, <3>4, <3>5 DEF HeaderRead
    <3>7. AppRead(at' - 1, data', bits', refs', lines') /\ at' \in 1..9
      <4>1. at' - 1 = 0 /\ at' \in 1..9
        BY <3>1
      <4> QED BY <2>7, <3>1, <4>1, Zenon
    <3> QED BY <2>8, <2>9, <3>1, <3>4, <3>6, <3>7 DEF RequestInCell
  <2> QED BY <1>1, <2>10, <2>11
<1> QED BY <1>5, <1>6

(* What holds while a schema is read.                                      *)
LEMMA AtSchema ==
  ASSUME RequestInCell, NEW crc, Schema(crc)
  PROVE  /\ status = "read" /\ pc = "request" /\ SchemaRead = crc /\ HeaderRead
         /\ data \in [Names -> Seq(Byte)] /\ data \in Values(Header \o AppLayout)
         /\ buf \in GoodBuffers
         /\ at \in 1..9 /\ AppRead(at - 1, data, bits, refs, lines)
         /\ crc # AppData => at = 1 /\ buf.offset = WordLen + LongLen
<1>1. status = "read" /\ pc = "request" /\ SchemaRead = crc
  BY DEF Schema, SchemaRead
<1> QED BY <1>1, DataNames, DataIsGood DEF RequestInCell

(* A schema that is not known is refused.                                  *)
LEMMA OtherSchemaInCell == ASSUME RequestInCell, OtherSchema PROVE RequestInCell'
BY RefuseInCell DEF OtherSchema

(* A text is taken whole, and becomes the cell in one step.                *)
LEMMA ReadPlaintextInCell == ASSUME RequestInCell, ReadPlaintext PROVE RequestInCell'
<1> DEFINE text == ReadBytes(buf, Remaining(buf))
<1>1. /\ status = "read" /\ pc = "request" /\ SchemaRead = Plaintext /\ HeaderRead
      /\ data \in [Names -> Seq(Byte)] /\ data \in Values(Header \o AppLayout)
      /\ buf \in GoodBuffers
      /\ buf.offset = WordLen + LongLen
  BY AtSchema, RequestsAssumption DEF ReadPlaintext
<1>2. BytesLeft(buf) \in Nat /\ Remaining(buf) = BytesLeft(buf)
  BY <1>1, RemainingIsUnread
<1>3. Took(buf, text, BytesLeft(buf)) /\ BytesLeft(buf) \in 0..BytesLeft(buf)
  <2>1. BytesLeft(buf) <= BytesLeft(buf)
    BY <1>2
  <2> QED BY <1>1, <1>2, <2>1, ReadBytesReads
<1> HIDE DEF text
<1>4. /\ text.value = BytesAt(buf, BytesLeft(buf)) /\ text.buf = Skip(buf, BytesLeft(buf))
  BY <1>3 DEF Took
<1>5. CASE Remaining(buf) > MaxPlaintext \/ ~IsAscii(text.value)
  <2>1. Refuse
    BY <1>5 DEF ReadPlaintext, text
  <2> QED BY <1>1, <2>1, RefuseInCell
<1>6. CASE ~(Remaining(buf) > MaxPlaintext \/ ~IsAscii(text.value))
  <2>1. /\ buf' = text.buf /\ lines' = <<Line("Text", text.value)>>
        /\ bits' = EncodeText(text.value).bits /\ refs' = EncodeText(text.value).refs
        /\ cell' = Representation(bits', refs') /\ status' = "accepted"
        /\ UNCHANGED <<pc, at, signed, data>>
    BY <1>6 DEF ReadPlaintext, Accept, text
  <2>2. /\ buf' \in GoodBuffers /\ buf'.ptr = buf.ptr
        /\ buf'.offset = buf.offset + BytesLeft(buf)
    BY <1>1, <1>3, <1>4, <2>1, SkipStaysGood
  <2>3. text.value = SubSeq(buf'.ptr, WordLen + LongLen + 1, buf'.offset)
    BY <1>1, <1>4, <2>2 DEF BytesAt
  <2>4. Len(text.value) <= MaxPlaintext
    <3>1. Len(text.value) = BytesLeft(buf)
      BY <1>1, <1>3, <1>4, BytesAtType
    <3>2. MaxPlaintext \in Nat
      BY RequestsAssumption
    <3> QED BY <1>2, <1>6, <3>1, <3>2
  <2>5. TextRead'
    BY <2>1, <2>3, <2>4 DEF TextRead
  <2>6. HeaderRead'
    <3>1. WordLen + LongLen <= buf'.offset
      BY <1>1, <1>2, <2>2, WidthsAssumption
    <3> QED BY <1>1, <2>1, <2>2, <3>1 DEF HeaderRead
  <2>7. SchemaRead' = Plaintext
    BY <1>1, <2>1 DEF SchemaRead
  <2>8. InData(buf') /\ data' \in Values(Header \o AppLayout) /\ pc' = "request"
    BY <1>1, <2>1, <2>2, DataIsGood
  <2> QED BY <2>1, <2>5, <2>6, <2>7, <2>8 DEF RequestInCell
<1> QED BY <1>5, <1>6

(* The last step of the application data hashes what its fields stored.    *)
LEMMA HashAppDataInCell == ASSUME RequestInCell, HashAppData PROVE RequestInCell'
<1>1. /\ status = "read" /\ pc = "request" /\ SchemaRead = AppData /\ HeaderRead
      /\ data \in Values(Header \o AppLayout) /\ buf \in GoodBuffers
      /\ at \in 1..9 /\ AppRead(at - 1, data, bits, refs, lines)
  BY AtSchema DEF HashAppData
<1>2. at - 1 = 8
  BY <1>1, AppFields DEF HashAppData
<1>3. /\ bits' = bits /\ refs' = refs /\ cell' = Representation(bits, refs)
      /\ status' = "accepted" /\ UNCHANGED <<pc, at, signed, buf, data, lines>>
  BY DEF HashAppData, Accept
<1>4. AppRead(8, data', bits', refs', lines')
  BY <1>1, <1>2, <1>3, Zenon
<1>5. HeaderRead' /\ SchemaRead' = AppData /\ SchemaRead' # Plaintext
  BY <1>1, <1>3, RequestsAssumption DEF HeaderRead, SchemaRead
<1>6. InData(buf') /\ data' \in Values(Header \o AppLayout) /\ pc' = "request"
  BY <1>1, <1>3, DataIsGood
<1> QED BY <1>3, <1>4, <1>5, <1>6 DEF RequestInCell

Zeros(n) == [i \in 1..n |-> 0]

(* Two numbers of an array, one behind the other, are all of it.           *)
LEMMA TwoWritten ==
  ASSUME NEW a \in Seq(Byte), NEW b \in Seq(Byte), NEW m \in Nat, NEW n \in Nat,
         Len(a) = m, Len(b) = n
  PROVE  WriteUint(WriteUint(Zeros(m + n), 0, a), m, b) = a \o b
<1> DEFINE zeros == Zeros(m + n)
           first == WriteUint(zeros, 0, a)
           both == WriteUint(first, m, b)
<1>1. Len(zeros) = m + n
  BY DEF Zeros
<1> HIDE DEF zeros
<1>2. first = [i \in 1..(m + n) |-> IF i - 0 \in 1..m THEN a[i - 0] ELSE zeros[i]]
  BY <1>1 DEF WriteUint
<1>3. Len(first) = m + n
  BY <1>2
<1>4. \A i \in 1..(m + n) : i <= m => first[i] = a[i]
  <2> HIDE DEF first
  <2>1. \A i \in 1..(m + n) : i <= m => i - 0 = i /\ i \in 1..m
    OBVIOUS
  <2> QED BY <1>2, <2>1
<1> HIDE DEF first
<1>5. both = [i \in 1..(m + n) |-> IF i - m \in 1..n THEN b[i - m] ELSE first[i]]
  BY <1>3 DEF WriteUint
<1> HIDE DEF both
<1>6. /\ a \o b \in Seq(Byte) /\ Len(a \o b) = m + n
      /\ \A i \in 1..(m + n) : (a \o b)[i] = IF i <= m THEN a[i] ELSE b[i - m]
  BY ConcatProperties
<1>7. \A i \in 1..(m + n) : both[i] = (a \o b)[i]
  <2> TAKE i \in 1..(m + n)
  <2>1. CASE i <= m
    <3>1. i - m \notin 1..n /\ i \in Nat
      BY <2>1
    <3>2. both[i] = first[i]
      BY <1>5, <3>1
    <3>3. (a \o b)[i] = a[i]
      BY <1>6, <2>1
    <3> QED BY <1>4, <2>1, <3>2, <3>3
  <2>2. CASE i > m
    <3>1. i - m \in 1..n /\ ~(i <= m)
      BY <2>2
    <3> QED BY <1>5, <1>6, <3>1
  <2> QED BY <2>1, <2>2
<1>8. both = a \o b
  <2> DEFINE w == a \o b
  <2>1. w \in Seq(Byte) /\ Len(w) = m + n
    BY <1>6
  <2>2. \A i \in 1..(m + n) : both[i] = w[i]
    BY <1>7
  <2> HIDE DEF w
  <2>3. w = [i \in 1..(m + n) |-> w[i]]
    BY <2>1
  <2>4. both = w
    BY <1>5, <2>2, <2>3
  <2> QED BY <2>4 DEF w
<1> QED BY <1>8 DEF both, first, zeros

(* The schema and the time of a request have their lengths.                *)
LEMMA HeaderLengths ==
  ASSUME RequestInCell, pc = "request"
  PROVE  Len(data.schema_crc) = WordLen /\ Len(data.timestamp) = LongLen
<1>1. HeaderRead /\ buf.ptr \in Seq(Byte) /\ buf.offset \in Nat /\ buf.offset <= Len(buf.ptr)
  BY DEF RequestInCell, InData
<1>2. WordLen \in Nat \ {0} /\ LongLen \in Nat \ {0}
  BY WidthsAssumption
<1>3. WordLen + LongLen <= Len(buf.ptr)
  BY <1>1, <1>2 DEF HeaderRead
<1>4. Len(SubSeq(buf.ptr, 1, WordLen)) = WordLen
  BY <1>1, <1>2, <1>3
<1>5. Len(SubSeq(buf.ptr, WordLen + 1, WordLen + LongLen)) = LongLen
  BY <1>1, <1>2, <1>3
<1> QED BY <1>1, <1>4, <1>5 DEF HeaderRead

(* Signing puts the schema and the time of the request before the hash.    *)
LEMMA SignDataInCell == ASSUME RequestInCell, SignData PROVE RequestInCell'
<1> DEFINE zeros == Zeros(WordLen + LongLen)
<1>1. /\ status = "accepted" /\ status' = "signed"
      /\ UNCHANGED <<pc, at, buf, data, bits, refs, lines, cell>>
      /\ signed' = WriteUint(WriteUint(zeros, 0, data.schema_crc), WordLen, data.timestamp) \o cell
  BY DEF SignData, Zeros
<1>2. Accepted /\ Accepted' /\ pc = "request" /\ data \in [Names -> Seq(Byte)]
  BY <1>1, DataNames DEF Accepted, RequestInCell
<1>3. WriteUint(WriteUint(zeros, 0, data.schema_crc), WordLen, data.timestamp)
        = data.schema_crc \o data.timestamp
  <2>1. data.schema_crc \in Seq(Byte) /\ data.timestamp \in Seq(Byte)
    BY <1>2 DEF Names
  <2>2. WordLen \in Nat /\ LongLen \in Nat
    BY WidthsAssumption
  <2>3. Len(data.schema_crc) = WordLen /\ Len(data.timestamp) = LongLen
    BY <1>2, HeaderLengths
  <2> QED BY <2>1, <2>2, <2>3, TwoWritten, Zenon
<1> HIDE DEF zeros
<1>4. signed' = data'.schema_crc \o data'.timestamp \o cell'
  BY <1>1, <1>3
<1>5. HeaderRead' /\ (TextRead <=> TextRead') /\ SchemaRead' = SchemaRead
  BY <1>1, <1>2 DEF RequestInCell, HeaderRead, TextRead, SchemaRead
<1>6. /\ cell' = Representation(bits', refs')
      /\ IF SchemaRead' = Plaintext THEN TextRead'
         ELSE SchemaRead' = AppData /\ AppRead(8, data', bits', refs', lines')
  BY <1>1, <1>2, <1>5 DEF RequestInCell
<1>7. InData(buf') /\ data' \in Values(Header \o AppLayout) /\ pc' = "request"
  BY <1>1, <1>2 DEF RequestInCell
<1> QED BY <1>1, <1>4, <1>5, <1>6, <1>7 DEF RequestInCell

(* A byte is its own number.                                               *)
LEMMA OneByteNumber ==
  ASSUME NEW v \in Seq(Nat), Len(v) = 1
  PROVE  BytesNumber(v) = v[1]
<1>1. PICK run : BytesRun(run, v) /\ BytesNumber(v) = run[1]
  BY BytesNumberRuns
<1>2. run[0] = 0 /\ run[1] = run[1 - 1] * 2^ByteBits + v[1]
  BY <1>1 DEF BytesRun
<1>3. run[1] = 0 * 2^ByteBits + v[1]
  BY <1>2
<1>4. v[1] \in Nat
  <2>1. 1 \in 1..Len(v)
    OBVIOUS
  <2> QED BY <2>1, ElementOfSeq
<1>5. 0 * 2^ByteBits = 0
  <2> DEFINE x == 2^ByteBits
  <2>1. x \in Nat
    BY TwoPower, WidthsAssumption
  <2> HIDE DEF x
  <2>2. 0 * x = 0
    BY <2>1
  <2> QED BY <2>2 DEF x
<1> QED BY <1>1, <1>3, <1>4, <1>5

(* The cell grows by what a field adds.                                    *)
LEMMA ReadGrows ==
  ASSUME NEW d \in [Names -> Seq(Byte)], NEW e \in [Names -> Seq(Byte)], NEW k \in 1..8,
         NEW b, NEW y, NEW z, Grown(k, e, d, b, y, z), Sized(k, e),
         NEW t, NEW links, NEW shown, AppRead(k - 1, d, t, links, shown),
         NEW u, Holds(u, BitsAfter(k - 1, d) \o b)
  PROVE  AppRead(k, e, u, links \o y, shown \o z)
BY DEF AppRead, Grown, Holds

(* The read of a field.                                                    *)
AppCall(b, d, f) ==
  ReadCall(b, [kind |-> f.kind,
               n |-> IF f.name = "domain" THEN BytesNumber(d.domain_len) ELSE f.n])

TakenAs(k, b, d, v, rest) ==
  /\ FieldSized(k, d, v) /\ v \in Seq(Byte)
  /\ rest \in GoodBuffers /\ rest.ptr = b.ptr /\ rest.size = b.size
  /\ rest.offset >= b.offset

(* A read that is taken has the form the stores expect.                    *)
LEMMA TakenForm ==
  ASSUME NEW b \in GoodBuffers, NEW d \in [Names -> Seq(Byte)], NEW k \in 1..8,
         NEW f, f = AppLayout[k],
         NEW r, r = AppCall(b, d, f), r.ok, AppAllowed(f.name, r.value)
  PROVE  TakenAs(k, b, d, r.value, r.buf)
<1> DEFINE n == IF f.name = "domain" THEN BytesNumber(d.domain_len) ELSE f.n
           g == [kind |-> f.kind, n |-> n]
<1>0. g.kind = f.kind /\ g.n = n /\ r = ReadCall(b, [kind |-> g.kind, n |-> g.n])
  BY DEF AppCall
<1>1. f.n \in Nat /\ f.kind \in FieldKinds
  <2>1. k \in {1, 2, 3, 4, 5, 6, 7, 8}
    OBVIOUS
  <2>2. /\ AppLayout[1].n = 0 /\ AppLayout[2].n = 0 /\ AppLayout[3].n = 0
        /\ AppLayout[4].n = 1 /\ AppLayout[5].n = 0 /\ AppLayout[6].n = 0
        /\ AppLayout[7].n = 0 /\ AppLayout[8].n = 0
    BY DEF AppLayout, Field
  <2> QED BY <2>1, <2>2, AppFields DEF FieldKinds
<1>2. n \in Nat
  <2>1. d.domain_len \in Seq(Byte)
    BY DEF Names
  <2>2. BytesNumber(d.domain_len) \in Nat
    BY <2>1, NumberType
  <2> QED BY <1>1, <2>2
<1> HIDE DEF g
<1>3. InForm(g, r.value)
  BY <1>0, <1>1, <1>2, ReadInForm
<1>4. Reads(b, r)
  BY <1>0, <1>1, <1>2, FieldReads
<1>5. PICK m \in 0..BytesLeft(b) : Took(b, r, m)
  BY <1>4, ReadStaysInData
<1>6. r.value \in Seq(Byte)
  BY <1>5, BytesAtType DEF Took
<1>7. r.buf \in GoodBuffers /\ r.buf.ptr = b.ptr /\ r.buf.size = b.size
      /\ r.buf.offset >= b.offset
  <2>1. r.buf = Skip(b, m)
    BY <1>5 DEF Took
  <2>2. /\ r.buf \in GoodBuffers /\ r.buf.ptr = b.ptr /\ r.buf.size = b.size
        /\ r.buf.offset = b.offset + m
    BY <2>1, SkipStaysGood
  <2>3. b.offset \in Nat /\ m \in Nat
    BY RemainingIsUnread DEF GoodBuffers
  <2> QED BY <2>2, <2>3
<1>8. k = 2 => Len(r.value) = 1 + HashLen
  BY <1>0, <1>3, AppFields DEF InForm
<1>9. k = 4 => BytesNumber(r.value) <= MaxDomain
  <2> SUFFICES ASSUME k = 4
               PROVE  BytesNumber(r.value) <= MaxDomain
    OBVIOUS
  <2>1. f.name = "domain_len" /\ f.kind = "bytes" /\ n = 1
    BY AppFields
  <2>2. Len(r.value) = 1
    BY <1>0, <1>3, <2>1 DEF InForm
  <2>3. BytesNumber(r.value) = r.value[1]
    BY <1>6, <2>2, BytesAreNumbers, OneByteNumber
  <2>4. r.value[1] <= MaxDomain
    BY <2>1 DEF AppAllowed
  <2> QED BY <2>3, <2>4
<1>10. k = 5 => IsAscii(r.value) /\ Len(r.value) = BytesNumber(d.domain_len)
  <2> SUFFICES ASSUME k = 5
               PROVE  IsAscii(r.value) /\ Len(r.value) = BytesNumber(d.domain_len)
    OBVIOUS
  <2>1. f.name = "domain" /\ f.kind = "bytes" /\ n = BytesNumber(d.domain_len)
    BY AppFields
  <2>2. Len(r.value) = n
    BY <1>0, <1>3, <2>1 DEF InForm
  <2>3. IsAscii(r.value)
    BY <2>1 DEF AppAllowed
  <2> QED BY <2>1, <2>2, <2>3
<1>11. k = 6 \/ k = 8 => Len(r.value) = ShortLen + HashLen
  <2> SUFFICES ASSUME k = 6 \/ k = 8
               PROVE  Len(r.value) = ShortLen + HashLen
    OBVIOUS
  <2>1. f.kind = "cellref"
    BY AppFields
  <2> QED BY <1>0, <1>3, <2>1 DEF InForm
<1> QED BY <1>6, <1>7, <1>8, <1>9, <1>10, <1>11 DEF FieldSized, TakenAs

(* One field of the application data is read, stored and shown, or refused.*)
LEMMA ReadAppFieldInCell == ASSUME RequestInCell, ReadAppField PROVE RequestInCell'
<1> DEFINE f == AppLayout[at]
           n == IF f.name = "domain" THEN BytesNumber(data.domain_len) ELSE f.n
           r == ReadCall(buf, [kind |-> f.kind, n |-> n])
<1>1. /\ status = "read" /\ pc = "request" /\ SchemaRead = AppData /\ HeaderRead
      /\ data \in [Names -> Seq(Byte)] /\ data \in Values(Header \o AppLayout)
      /\ buf \in GoodBuffers /\ InData(buf)
      /\ at \in 1..9 /\ AppRead(at - 1, data, bits, refs, lines)
  BY AtSchema, DataIsGood DEF ReadAppField
<1>2. at \in 1..8
  <2>1. at <= Len(AppLayout)
    BY DEF ReadAppField
  <2>2. Len(AppLayout) = 8
    BY AppFields
  <2> QED BY <1>1, <2>1, <2>2
<1>3. CASE Missing(f, data)
  <2>1. at' = at + 1
        /\ UNCHANGED <<pc, buf, data, bits, refs, lines, status, cell, signed>>
    BY <1>3 DEF ReadAppField
  <2>2. Grown(at, data, data, <<>>, <<>>, <<>>)
    BY <1>1, <1>2, <1>3, FieldAbsent
  <2>3. Sized(at, data)
    BY <1>1, <1>2, <1>3, AbsentSized DEF AppRead
  <2>4. AppRead(at, data, bits, refs, lines)
    <3>1. Holds(bits, BitsAfter(at - 1, data))
      BY <1>1 DEF AppRead, Holds
    <3>2. BitsAfter(at - 1, data) \o <<>> = BitsAfter(at - 1, data)
      <4>1. BitsAfter(at - 1, data) \in Seq(Bit)
        BY <3>1, HoldsType
      <4> QED BY <4>1
    <3>3. Holds(bits, BitsAfter(at - 1, data) \o <<>>)
      BY <3>1, <3>2
    <3>4. refs \o <<>> = refs /\ lines \o <<>> = lines
      <4> DEFINE R == RefSet(data)
                 L == LineSet(data)
      <4>1. R \subseteq R /\ L \subseteq L
        OBVIOUS
      <4>2. /\ DomainRef(at - 1, data) \in Seq(R) /\ DataRef(at - 1, data) \in Seq(R)
            /\ ExtRef(at - 1, data) \in Seq(R)
            /\ AddrLine(at - 1, data) \in Seq(L) /\ DomainLine(at - 1, data) \in Seq(L)
            /\ DataLine(at - 1, data) \in Seq(L) /\ ExtLine(at - 1, data) \in Seq(L)
        BY <4>1, OtherPartTypes, Zenon
      <4> HIDE DEF R, L
      <4>3. RefsAfter(at - 1, data) \in Seq(R) /\ LinesAfter(at - 1, data) \in Seq(L)
        <5>1. \A T : \A x, y \in Seq(T) : x \o y \in Seq(T)
          OBVIOUS
        <5>2. (DomainRef(at - 1, data) \o DataRef(at - 1, data)) \o ExtRef(at - 1, data) \in Seq(R)
          BY <4>2, <5>1, Zenon
        <5>3. ((AddrLine(at - 1, data) \o DomainLine(at - 1, data)) \o DataLine(at - 1, data))
                \o ExtLine(at - 1, data) \in Seq(L)
          BY <4>2, <5>1, Zenon
        <5> QED BY <5>2, <5>3, AreParts
      <4>4. refs \in Seq(R) /\ lines \in Seq(L)
        BY <1>1, <4>3 DEF AppRead
      <4> QED BY <4>4
    <3>5. AppRead(at, data, bits, refs \o <<>>, lines \o <<>>)
      BY <1>1, <1>2, <2>2, <2>3, <3>3, ReadGrows, Zenon
    <3> QED BY <3>4, <3>5
  <2>5. AppRead(at' - 1, data', bits', refs', lines') /\ at' \in 1..9
    <3>1. at' - 1 = at /\ at' \in 1..9
      BY <1>2, <2>1
    <3> QED BY <2>1, <2>4, <3>1, Zenon
  <2>6. HeaderRead' /\ SchemaRead' = AppData /\ ~Accepted' /\ status' = "read"
        /\ pc' = "request" /\ InData(buf') /\ data' \in Values(Header \o AppLayout)
    BY <1>1, <2>1 DEF HeaderRead, SchemaRead, Accepted
  <2> QED BY <2>5, <2>6 DEF RequestInCell
<1>4. CASE ~Missing(f, data) /\ (~r.ok \/ ~AppAllowed(f.name, r.value))
  <2>1. Refuse
    BY <1>4 DEF ReadAppField
  <2> QED BY <1>1, <2>1, RefuseInCell
<1>5. CASE ~Missing(f, data) /\ ~(~r.ok \/ ~AppAllowed(f.name, r.value))
  <2>1. /\ buf' = r.buf
        /\ data' = Stored(data, f.name, r.value)
        /\ bits' = AppStored(f, r.value)
        /\ refs' = refs \o AppRefs(f, r.value)
        /\ lines' = lines \o AppLines(f, r.value)
        /\ at' = at + 1
        /\ UNCHANGED <<pc, status, cell, signed>>
    BY <1>5 DEF ReadAppField, Stored
  <2> DEFINE w == BitsAfter(at - 1, data)
  <2>2. /\ FieldSized(at, data, r.value) /\ r.value \in Seq(Byte)
        /\ r.buf \in GoodBuffers /\ r.buf.ptr = buf.ptr /\ r.buf.size = buf.size
        /\ r.buf.offset >= buf.offset
    <3>1. r.ok /\ AppAllowed(f.name, r.value)
      BY <1>5
    <3>2. f = AppLayout[at] /\ r = AppCall(buf, data, f)
      BY DEF AppCall
    <3> HIDE DEF f, n, r
    <3>3. buf \in GoodBuffers /\ data \in [Names -> Seq(Byte)]
      BY <1>1
    <3>4. TakenAs(at, buf, data, r.value, r.buf)
      BY <1>2, <3>1, <3>2, <3>3, TakenForm, Zenon
    <3> QED BY <3>4 DEF TakenAs
  <2>3. f = AppLayout[at] /\ ~Missing(f, data)
    BY <1>5
  <2> HIDE DEF f, n, r
  <2>4. Sized(at, data')
    BY <1>1, <1>2, <2>1, <2>2, <2>3, TakenSized DEF AppRead
  <2>5. Grown(at, data', data, BitsOf(f, r.value), AppRefs(f, r.value), AppLines(f, r.value))
    BY <1>1, <1>2, <2>1, <2>2, <2>3, FieldGrows
  <2>6. data' \in [Names -> Seq(Byte)]
    BY <1>1, <2>1, <2>2 DEF Stored
  <2>7. Len(w \o BitsOf(f, r.value)) <= Room
    <3>1. BitsAfter(at, data') = w \o BitsOf(f, r.value)
      BY <2>5 DEF Grown
    <3>2. at \in 0..8
      BY <1>2
    <3>3. Len(BitsAfter(at, data')) <= Room
      BY <2>4, <2>6, <3>2, BitsRoom, Zenon
    <3> QED BY <3>1, <3>3
  <2>8. Holds(bits, w)
    BY <1>1 DEF AppRead, Holds
  <2> HIDE DEF w
  <2>9. Holds(bits', w \o BitsOf(f, r.value))
    BY <1>2, <2>1, <2>2, <2>3, <2>7, <2>8, AppStoredHolds
  <2>10. AppRead(at, data', bits', refs', lines')
    <3>1. Holds(bits', BitsAfter(at - 1, data) \o BitsOf(f, r.value))
      BY <2>9 DEF w
    <3>2. AppRead(at, data', bits', refs \o AppRefs(f, r.value), lines \o AppLines(f, r.value))
      BY <1>1, <1>2, <2>4, <2>5, <2>6, <3>1, ReadGrows, Zenon
    <3> QED BY <2>1, <3>2
  <2>11. AppRead(at' - 1, data', bits', refs', lines') /\ at' \in 1..9
    <3>1. at' - 1 = at /\ at' \in 1..9
      BY <1>2, <2>1
    <3> QED BY <2>10, <3>1, Zenon
  <2>12. data'.schema_crc = data.schema_crc /\ data'.timestamp = data.timestamp
    <3>1. f.name # "schema_crc" /\ f.name # "timestamp"
      <4>1. at \in {1, 2, 3, 4, 5, 6, 7, 8}
        BY <1>2
      <4> QED BY <2>3, <4>1, AppFields
    <3> QED BY <1>1, <2>1, <3>1 DEF Stored, Names
  <2>13. HeaderRead'
    <3>1. WordLen + LongLen <= buf'.offset
      <4>1. buf.offset \in Nat /\ buf'.offset \in Nat
        BY <1>1, <2>1, <2>2 DEF GoodBuffers
      <4> QED BY <1>1, <2>1, <2>2, <4>1, WidthsAssumption, SMTT(30) DEF HeaderRead
    <3> QED BY <1>1, <2>1, <2>2, <2>12, <3>1 DEF HeaderRead
  <2>14. SchemaRead' = AppData /\ ~Accepted' /\ status' = "read" /\ pc' = "request"
    BY <1>1, <2>1, <2>12 DEF SchemaRead, Accepted
  <2>15. InData(buf') /\ data' \in Values(Header \o AppLayout)
    BY <2>1, <2>2, <2>6, DataIsGood, DataNames
  <2> QED BY <2>11, <2>13, <2>14, <2>15 DEF RequestInCell
<1> QED BY <1>3, <1>4, <1>5

-----------------------------------------------------------------------------
(* sign_data_deserialize: wherever the parser is, the cell it builds, its  *)
(* references and the lines it shows are those of the fields it has read.  *)
THEOREM CellGrowsWithLines == Spec => []RequestInCell
<1>1. Init => RequestInCell
  BY InitInCell
<1>2. RequestInCell /\ [Next]_vars => RequestInCell'
  BY ReadHeaderInCell, ReadPlaintextInCell, ReadAppFieldInCell, HashAppDataInCell,
     OtherSchemaInCell, SignDataInCell, StutterInCell DEF Next
<1> QED BY <1>1, <1>2, PTL DEF Spec

-----------------------------------------------------------------------------
(***************************************************************************)
(* encode_text: a text takes one cell or two.                              *)
(***************************************************************************)

(* A cell has room for a byte, and for the bytes that encode_text counts.  *)
LEMMA StoreMaxIs ==
  /\ StoreMax \in Nat \ {0} /\ ByteBits * StoreMax <= CellBits
  /\ MaxPlaintext \in Nat /\ MaxPlaintext <= 2 * StoreMax
<1> DEFINE q == CellBits \div ByteBits
           m == 2^ByteBits
           z == Capacity * ByteBits
<1>1. ByteBits \in Nat \ {0} /\ Capacity \in Nat \ {0} /\ MaxPlaintext \in Nat
  BY WidthsAssumption, BitStringAssumption, RequestsAssumption
<1>2. m \in Nat \ {0} /\ z \in Nat
  BY <1>1, TwoPower
<1>3. CellBits \in ByteBits..z /\ q < m /\ MaxPlaintext <= 2 * q
  BY CellAssumption
<1>4. q \in Nat /\ CellBits = ByteBits * q + (CellBits % ByteBits) /\ CellBits % ByteBits \in Nat
  <2> HIDE DEF z
  <2> QED BY <1>1, <1>2, <1>3, Division
<1>5. q # 0
  <2>1. q = 0 => CellBits < ByteBits
    <3> HIDE DEF z
    <3>1. CellBits % ByteBits < ByteBits
      BY <1>1, <1>2, <1>3
    <3> HIDE DEF q
    <3> QED BY <1>1, <1>4, <3>1
  <2> HIDE DEF q, z
  <2> QED BY <1>1, <1>2, <1>3, <2>1
<1>6. StoreMax = q
  <2>1. StoreMax = q % m
    BY DEF StoreMax
  <2> HIDE DEF q, m
  <2> QED BY <1>2, <1>3, <1>4, <2>1
<1>7. ByteBits * q <= CellBits
  <2> DEFINE p == ByteBits * q
  <2>1. p \in Nat
    <3> HIDE DEF q
    <3> QED BY <1>1, <1>4
  <2> HIDE DEF p
  <2>2. CellBits = p + (CellBits % ByteBits)
    BY <1>4 DEF p
  <2>3. p <= CellBits
    <3> HIDE DEF q
    <3> QED BY <1>4, <2>1, <2>2
  <2> QED BY <2>3 DEF p
<1> QED BY <1>1, <1>3, <1>4, <1>5, <1>6, <1>7

OneCell(text) == [bits |-> StoreBuffer(NoBits, text), refs |-> <<>>]
TwoCells(text, next) ==
  [bits |-> StoreBuffer(NoBits, text), refs |-> <<HashCell(StoreBuffer(NoBits, next), <<>>)>>]

(* What does not fit into the first cell is all in the second.             *)
LEMMA TextInCells ==
  ASSUME NEW text \in Seq(Nat), Len(text) <= 2 * StoreMax
  PROVE  EncodeText(text)
           = IF Len(text) <= StoreMax THEN OneCell(text)
             ELSE TwoCells(SubSeq(text, 1, StoreMax), SubSeq(text, StoreMax + 1, Len(text)))
<1> DEFINE n == Len(text)
           rest(k) == SubSeq(text, k, n)
           step(k, next) ==
             IF Len(rest(k)) > StoreMax
             THEN [bits |-> StoreBuffer(NoBits, SubSeq(rest(k), 1, StoreMax)),
                   refs |-> <<HashCell(next.bits, next.refs)>>]
             ELSE [bits |-> StoreBuffer(NoBits, rest(k)), refs |-> <<>>]
           Steps(g) == g = [k \in 1..(n + 1) |-> step(k, g[k + StoreMax])]
           h == [k \in 1..(n + 1) |-> step(k, OneCell(rest(k + StoreMax)))]
           chosen == CHOOSE g : Steps(g)
<1>1. StoreMax \in Nat \ {0} /\ n \in Nat /\ n <= 2 * StoreMax
  BY StoreMaxIs
<1>2. EncodeText(text) = chosen[1]
  BY DEF EncodeText
<1>3. \A k \in 1..(n + 1) : Len(rest(k)) = n - k + 1
  OBVIOUS
<1>4. \A k \in 1..(n + 1) : Len(rest(k)) > StoreMax => h[k + StoreMax] = OneCell(rest(k + StoreMax))
  <2> SUFFICES ASSUME NEW k \in 1..(n + 1), Len(rest(k)) > StoreMax
               PROVE  h[k + StoreMax] = OneCell(rest(k + StoreMax))
    OBVIOUS
  <2>1. k + StoreMax \in 1..(n + 1) /\ ~(Len(rest(k + StoreMax)) > StoreMax)
    <3>1. n - k + 1 > StoreMax
      BY <1>3
    <3>2. k + StoreMax \in 1..(n + 1)
      BY <1>1, <3>1
    <3>3. Len(rest(k + StoreMax)) = n - (k + StoreMax) + 1
      BY <1>3, <3>2
    <3> QED BY <1>1, <3>2, <3>3
  <2> QED BY <2>1 DEF OneCell
<1>5. Steps(h)
  <2>1. \A k \in 1..(n + 1) : step(k, OneCell(rest(k + StoreMax))) = step(k, h[k + StoreMax])
    BY <1>4
  <2> QED BY <2>1
<1>6. Steps(chosen)
  BY <1>5
<1>7. 1 \in 1..(n + 1) /\ rest(1) = text
  BY <1>1
<1> HIDE DEF chosen, h
<1>8. \A k \in 1..(n + 1) : chosen[k] = step(k, chosen[k + StoreMax])
  BY <1>6
<1>9. \A k, next : ~(Len(rest(k)) > StoreMax) => step(k, next) = OneCell(rest(k))
  BY DEF OneCell
<1>10. CASE n <= StoreMax
  <2>1. ~(Len(rest(1)) > StoreMax)
    BY <1>1, <1>7, <1>10
  <2>2. chosen[1] = OneCell(rest(1))
    <3> HIDE DEF step, rest
    <3> QED BY <1>7, <1>8, <1>9, <2>1
  <2> QED BY <1>2, <1>7, <1>10, <2>2
<1>11. CASE n > StoreMax
  <2>1. 1 + StoreMax \in 1..(n + 1) /\ Len(rest(1 + StoreMax)) = n - StoreMax
    <3>1. 1 + StoreMax \in 1..(n + 1)
      BY <1>1, <1>11
    <3> QED BY <1>1, <1>3, <3>1
  <2>2. ~(Len(rest(1 + StoreMax)) > StoreMax)
    BY <1>1, <2>1
  <2>3. chosen[1 + StoreMax] = OneCell(rest(1 + StoreMax))
    <3> HIDE DEF step, rest
    <3> QED BY <1>8, <1>9, <2>1, <2>2
  <2>4. rest(1 + StoreMax) = SubSeq(text, StoreMax + 1, Len(text))
    BY <1>1
  <2>5. step(1, OneCell(rest(1 + StoreMax))) = TwoCells(SubSeq(text, 1, StoreMax), rest(1 + StoreMax))
    <3> DEFINE last == rest(1 + StoreMax)
    <3>1. Len(rest(1)) > StoreMax
      BY <1>7, <1>11
    <3> HIDE DEF last
    <3>2. OneCell(last).bits = StoreBuffer(NoBits, last) /\ OneCell(last).refs = <<>>
      BY DEF OneCell
    <3>3. step(1, OneCell(last))
            = [bits |-> StoreBuffer(NoBits, SubSeq(rest(1), 1, StoreMax)),
               refs |-> <<HashCell(OneCell(last).bits, OneCell(last).refs)>>]
      <4> HIDE DEF rest
      <4> QED BY <3>1
    <3>4. step(1, OneCell(last)) = TwoCells(SubSeq(text, 1, StoreMax), last)
      <4> HIDE DEF step, rest
      <4> QED BY <1>7, <3>2, <3>3 DEF TwoCells
    <3> QED BY <3>4 DEF last
  <2>6. chosen[1] = step(1, OneCell(rest(1 + StoreMax)))
    <3> HIDE DEF step, rest
    <3> QED BY <1>7, <1>8, <2>3
  <2>7. chosen[1] = TwoCells(SubSeq(text, 1, StoreMax), SubSeq(text, StoreMax + 1, Len(text)))
    <3> HIDE DEF step, rest
    <3> QED BY <2>4, <2>5, <2>6
  <2>8. ~(Len(text) <= StoreMax)
    BY <1>1, <1>11
  <2> QED BY <1>2, <2>7, <2>8
<1> QED BY <1>1, <1>10, <1>11

-----------------------------------------------------------------------------
(***************************************************************************)
(* encode_domain: the labels from the last to the first.                   *)
(***************************************************************************)
Follows(g, m, F, prev, base) == g[m] = IF m = 0 THEN base ELSE F[<<m, g[prev[m]]>>]

(* A value that depends on one before it, for every number up to n.        *)
LEMMA DependentRun ==
  ASSUME NEW S, NEW base \in S, NEW n \in Nat, NEW prev, \A m \in 1..n : prev[m] \in 0..(m - 1),
         NEW F, \A m \in 1..n : \A v \in S : F[<<m, v>>] \in S
  PROVE  \E g \in [0..n -> S] : \A m \in 0..n : Follows(g, m, F, prev, base)
<1> DEFINE Run(k) == \E g \in [0..k -> S] : \A m \in 0..k : Follows(g, m, F, prev, base)
           T == {k \in 0..n : Run(k)}
<1>1. 0 \in T
  <2> DEFINE g == [m \in 0..0 |-> base]
  <2>1. g \in [0..0 -> S] /\ \A m \in 0..0 : Follows(g, m, F, prev, base)
    BY DEF Follows
  <2> QED BY <2>1
<1>2. ASSUME NEW k \in 1..n, k - 1 \in T PROVE k \in T
  <2>1. PICK g \in [0..(k - 1) -> S] : \A m \in 0..(k - 1) : Follows(g, m, F, prev, base)
    BY <1>2
  <2> DEFINE h == [m \in 0..k |-> IF m = k THEN F[<<k, g[prev[k]]>>] ELSE g[m]]
  <2>2. prev[k] \in 0..(k - 1) /\ g[prev[k]] \in S
    BY <2>1
  <2>3. F[<<k, g[prev[k]]>>] \in S
    BY <2>2
  <2>4. \A m \in 0..k : m # k => m \in 0..(k - 1)
    OBVIOUS
  <2>5. h \in [0..k -> S]
    BY <2>1, <2>3, <2>4
  <2>6. \A m \in 0..(k - 1) : h[m] = g[m]
    OBVIOUS
  <2>7. h[k] = F[<<k, g[prev[k]]>>]
    OBVIOUS
  <2> HIDE DEF h
  <2>8. ASSUME NEW m \in 0..k PROVE Follows(h, m, F, prev, base)
    <3>1. CASE m = k
      <4>1. h[prev[k]] = g[prev[k]]
        BY <2>2, <2>6
      <4> QED BY <2>7, <3>1, <4>1 DEF Follows
    <3>2. CASE m # k
      <4>1. m \in 0..(k - 1) /\ Follows(g, m, F, prev, base)
        BY <2>1, <2>4, <3>2
      <4>2. CASE m = 0
        BY <2>6, <4>1, <4>2 DEF Follows
      <4>3. CASE m # 0
        <5>1. m \in 1..n /\ prev[m] \in 0..(m - 1)
          BY <4>1, <4>3
        <5>2. prev[m] \in 0..(k - 1)
          BY <4>1, <5>1
        <5> QED BY <2>6, <4>1, <4>3, <5>2 DEF Follows
      <4> QED BY <4>2, <4>3
    <3> QED BY <3>1, <3>2
  <2> QED BY <2>5, <2>8
<1>3. \A k \in 0..n : k \in T
  <2> HIDE DEF T
  <2> QED BY <1>1, <1>2, BoundedInduction
<1> QED BY <1>3

(* The last dot is there, or there is none.                                *)
LEMMA LastDotIs ==
  ASSUME NEW text \in Seq(Nat), NEW dot, dot = LastDot(text)
  PROVE  /\ dot \in 0..Len(text) /\ (dot > 0 => text[dot] = Dot)
         /\ \A j \in (dot + 1)..Len(text) : text[j] # Dot
<1> DEFINE n == Len(text)
           EndsHere(i) == /\ i > 0 => text[i] = Dot
                          /\ \A j \in (i + 1)..n : text[j] # Dot
           None(k) == \A j \in (n - k + 1)..n : text[j] # Dot
           Found == \E i \in 0..n : EndsHere(i)
           T == {k \in 0..n : Found \/ None(k)}
<1>1. n \in Nat
  OBVIOUS
<1>2. 0 \in T
  BY <1>1
<1>3. ASSUME NEW k \in 1..n, k - 1 \in T PROVE k \in T
  <2>1. CASE Found
    BY <2>1
  <2>2. CASE None(k - 1)
    <3> DEFINE i == n - k + 1
    <3>1. i \in 1..n /\ (n - (k - 1) + 1) = i + 1
      BY <1>1
    <3>2. \A j \in (i + 1)..n : text[j] # Dot
      BY <2>2, <3>1
    <3>3. CASE text[i] = Dot
      <4>1. EndsHere(i) /\ i \in 0..n
        BY <3>1, <3>2, <3>3
      <4> QED BY <4>1
    <3>4. CASE text[i] # Dot
      <4>1. \A j \in i..n : j = i \/ j \in (i + 1)..n
        BY <1>1, <3>1
      <4>2. None(k)
        BY <3>2, <3>4, <4>1
      <4> QED BY <4>2
    <3> QED BY <3>3, <3>4
  <2> QED BY <1>3, <2>1, <2>2
<1>4. \A k \in 0..n : k \in T
  <2> HIDE DEF T, n
  <2> QED BY <1>1, <1>2, <1>3, BoundedInduction
<1>5. Found
  <2>1. Found \/ None(n)
    <3>1. n \in T
      <4> HIDE DEF T, n
      <4> QED BY <1>1, <1>4
    <3> HIDE DEF Found, None
    <3> QED BY <3>1
  <2>2. None(n) => EndsHere(0) /\ 0 \in 0..n
    BY <1>1
  <2> QED BY <2>1, <2>2
<1>6. dot = CHOOSE i \in 0..n : EndsHere(i)
  BY DEF LastDot
<1> HIDE DEF EndsHere
<1>7. dot \in 0..n /\ EndsHere(dot)
  BY <1>5, <1>6
<1> QED BY <1>7 DEF EndsHere

DotBefore(domain, m) == LastDot(SubSeq(domain, 1, m))
LabelAt(domain, m)   == SubSeq(domain, DotBefore(domain, m) + 1, m) \o << 0 >>

(* The first m bytes of a domain: their last label, then what is before it.*)
Labelled(enc, domain) ==
  \A m \in 0..Len(domain) :
    enc[m] = LabelAt(domain, m)
               \o (IF DotBefore(domain, m) = 0 THEN <<>> ELSE enc[DotBefore(domain, m) - 1])

(* Where the last dot of the first m bytes is.                             *)
LEMMA DotBeforeIs ==
  ASSUME NEW domain \in Seq(Nat), NEW m \in 0..Len(domain), NEW dot, dot = DotBefore(domain, m)
  PROVE  /\ dot \in 0..m /\ (dot > 0 => domain[dot] = Dot)
         /\ \A j \in (dot + 1)..m : domain[j] # Dot
<1> DEFINE text == SubSeq(domain, 1, m)
<1>1. text \in Seq(Nat) /\ Len(text) = m /\ \A i \in 1..m : text[i] = domain[i]
  OBVIOUS
<1>2. dot = LastDot(text)
  BY DEF DotBefore
<1> HIDE DEF text
<1>3. /\ dot \in 0..m /\ (dot > 0 => text[dot] = Dot)
      /\ \A j \in (dot + 1)..m : text[j] # Dot
  BY <1>1, <1>2, LastDotIs
<1> QED BY <1>1, <1>3

(* encode_domain stores these bytes.                                       *)
LEMMA DomainLabels ==
  ASSUME NEW domain \in Seq(Byte)
  PROVE  \E enc : /\ Labelled(enc, domain)
                  /\ EncodeDomain(domain) = StoreBuffer(NoBits, enc[Len(domain)])
<1> DEFINE n == Len(domain)
           dot(m) == DotBefore(domain, m)
           head(m) == LabelAt(domain, m)
           base == head(0) \o <<>>
           prev == [m \in 1..n |-> IF dot(m) = 0 THEN 0 ELSE dot(m) - 1]
           F == [p \in (1..n) \X Seq(Nat) |->
                   head(p[1]) \o (IF dot(p[1]) = 0 THEN <<>> ELSE p[2])]
           step(m, v) == head(m) \o (IF dot(m) = 0 THEN <<>> ELSE v)
           Steps(g) == g = [m \in 0..n |-> step(m, g[dot(m) - 1])]
           chosen == CHOOSE g : Steps(g)
<1>1. domain \in Seq(Nat) /\ n \in Nat
  BY BytesAreNumbers
<1>2. \A m \in 0..n : /\ dot(m) \in 0..m /\ head(m) \in Seq(Nat)
  <2> SUFFICES ASSUME NEW m \in 0..n PROVE dot(m) \in 0..m /\ head(m) \in Seq(Nat)
    OBVIOUS
  <2>1. dot(m) \in 0..m
    BY <1>1, DotBeforeIs, Zenon
  <2> DEFINE k == dot(m) + 1
             x == SubSeq(domain, k, m)
  <2>2. k \in 1..(n + 1)
    <3> HIDE DEF dot
    <3> QED BY <1>1, <2>1
  <2> HIDE DEF k
  <2>3. x \in Seq(Nat)
    BY <1>1, <2>2
  <2> HIDE DEF x
  <2>4. x \o << 0 >> \in Seq(Nat)
    BY <2>3
  <2>5. head(m) = x \o << 0 >>
    BY DEF LabelAt, x, k
  <2> QED BY <2>1, <2>4, <2>5
<1>3. dot(0) = 0 /\ base \in Seq(Nat)
  <2>1. 0 \in 0..n
    BY <1>1
  <2>2. dot(0) \in 0..0 /\ head(0) \in Seq(Nat)
    BY <1>2, <2>1
  <2> HIDE DEF dot, head
  <2> QED BY <2>2
<1>4. \A m \in 1..n : prev[m] \in 0..(m - 1)
  <2> SUFFICES ASSUME NEW m \in 1..n PROVE prev[m] \in 0..(m - 1)
    OBVIOUS
  <2>1. dot(m) \in 0..m
    BY <1>1, <1>2
  <2> HIDE DEF dot
  <2> QED BY <2>1
<1>5. \A m \in 1..n : \A v \in Seq(Nat) : F[<<m, v>>] = step(m, v) /\ F[<<m, v>>] \in Seq(Nat)
  <2> SUFFICES ASSUME NEW m \in 1..n, NEW v \in Seq(Nat)
               PROVE  F[<<m, v>>] = step(m, v) /\ F[<<m, v>>] \in Seq(Nat)
    OBVIOUS
  <2>1. head(m) \in Seq(Nat)
    BY <1>1, <1>2
  <2> HIDE DEF head, dot
  <2>2. F[<<m, v>>] = step(m, v)
    OBVIOUS
  <2>3. step(m, v) \in Seq(Nat)
    BY <2>1
  <2> QED BY <2>2, <2>3
<1> HIDE DEF F
<1>6. \E g \in [0..n -> Seq(Nat)] : \A m \in 0..n : Follows(g, m, F, prev, base)
  <2> HIDE DEF n, prev, base
  <2> QED BY <1>1, <1>3, <1>4, <1>5, DependentRun
<1>7. PICK g \in [0..n -> Seq(Nat)] : \A m \in 0..n : Follows(g, m, F, prev, base)
  BY <1>6
<1>8. ASSUME NEW m \in 0..n PROVE g[m] = step(m, g[dot(m) - 1])
  <2>1. Follows(g, m, F, prev, base)
    BY <1>7
  <2>2. CASE m = 0
    <3> HIDE DEF dot, head
    <3> QED BY <1>3, <2>1, <2>2 DEF Follows
  <2>3. CASE m # 0
    <3>1. m \in 1..n /\ prev[m] \in 0..(m - 1)
      BY <1>4, <2>3
    <3>2. g[prev[m]] \in Seq(Nat)
      <4> HIDE DEF prev
      <4>1. prev[m] \in 0..n
        BY <1>1, <3>1
      <4> QED BY <1>7, <4>1
    <3>3. g[m] = step(m, g[prev[m]])
      <4>1. g[m] = F[<<m, g[prev[m]]>>]
        BY <2>1, <2>3 DEF Follows
      <4> HIDE DEF prev, step
      <4> QED BY <1>5, <3>1, <3>2, <4>1
    <3>4. prev[m] = IF dot(m) = 0 THEN 0 ELSE dot(m) - 1
      BY <3>1
    <3> HIDE DEF prev, dot, head
    <3> QED BY <3>3, <3>4
  <2> QED BY <2>2, <2>3
<1>9. Steps(g)
  <2> HIDE DEF step, dot
  <2>1. g = [m \in 0..n |-> g[m]]
    BY <1>7
  <2> QED BY <1>8, <2>1
<1>10. Steps(chosen)
  BY <1>9
<1>11. EncodeDomain(domain) = StoreBuffer(NoBits, chosen[n])
  BY DEF EncodeDomain, LabelAt, DotBefore
<1> HIDE DEF chosen
<1>12. Labelled(chosen, domain)
  <2>1. \A m \in 0..n : chosen[m] = step(m, chosen[dot(m) - 1])
    <3> HIDE DEF step, dot
    <3> QED BY <1>10
  <2> QED BY <2>1 DEF Labelled
<1> QED BY <1>11, <1>12

(* Each dot becomes a zero byte, and one is added.                         *)
LEMMA LabelledForm ==
  ASSUME NEW domain \in Seq(Byte), NEW enc, Labelled(enc, domain), NEW m \in 0..Len(domain)
  PROVE  enc[m] \in Seq(Byte) /\ Len(enc[m]) = m + 1
<1> DEFINE n == Len(domain)
           Good(k) == enc[k] \in Seq(Byte) /\ Len(enc[k]) = k + 1
           T == {k \in 0..n : \A j \in 0..k : Good(j)}
<1>1. n \in Nat /\ domain \in Seq(Nat) /\ 0 \in Byte
  <2>1. 2^ByteBits \in Nat \ {0}
    BY TwoPower, WidthsAssumption
  <2>2. 0 \in Byte
    <3> DEFINE b == 2^ByteBits
    <3>1. b \in Nat \ {0} /\ Byte = 0..(b - 1)
      BY <2>1 DEF Byte
    <3> HIDE DEF b
    <3> QED BY <3>1
  <2> QED BY <2>2, BytesAreNumbers
<1>2. ASSUME NEW k \in 0..n, \A j \in 0..(k - 1) : Good(j) PROVE Good(k)
  <2> DEFINE dot == DotBefore(domain, k)
             x == SubSeq(domain, dot + 1, k)
             y == IF dot = 0 THEN <<>> ELSE enc[dot - 1]
  <2>1. dot \in 0..k
    BY <1>1, DotBeforeIs, Zenon
  <2>2. enc[k] = (x \o << 0 >>) \o y
    BY DEF Labelled, LabelAt
  <2> HIDE DEF dot
  <2>3. x \in Seq(Byte) /\ Len(x) = k - dot
    BY <1>1, <2>1
  <2>4. y \in Seq(Byte) /\ Len(y) = dot
    <3>1. CASE dot = 0
      BY <3>1
    <3>2. CASE dot # 0
      <4>1. dot - 1 \in 0..(k - 1)
        BY <1>1, <2>1, <3>2
      <4>2. enc[dot - 1] \in Seq(Byte) /\ Len(enc[dot - 1]) = (dot - 1) + 1
        BY <1>2, <4>1
      <4> QED BY <2>1, <3>2, <4>2
    <3> QED BY <3>1, <3>2
  <2> HIDE DEF x, y
  <2>5. << 0 >> \in Seq(Byte) /\ Len(<< 0 >>) = 1
    <3> HIDE DEF n
    <3> QED BY <1>1
  <2>6. (x \o << 0 >>) \o y \in Seq(Byte) /\ Len((x \o << 0 >>) \o y) = (k - dot) + 1 + dot
    <3> DEFINE z == << 0 >>
    <3>1. z \in Seq(Byte) /\ Len(z) = 1
      BY <2>5
    <3> HIDE DEF z
    <3>2. (x \o z) \o y \in Seq(Byte) /\ Len((x \o z) \o y) = Len(x) + Len(z) + Len(y)
      <4>1. \A S : \A a, b \in Seq(S) : a \o b \in Seq(S) /\ Len(a \o b) = Len(a) + Len(b)
        OBVIOUS
      <4> DEFINE u == x \o z
      <4>2. u \in Seq(Byte) /\ Len(u) = Len(x) + Len(z)
        BY <2>3, <3>1, <4>1
      <4> HIDE DEF u
      <4>3. u \o y \in Seq(Byte) /\ Len(u \o y) = Len(u) + Len(y)
        BY <2>4, <4>1, <4>2
      <4> QED BY <4>2, <4>3 DEF u
    <3>3. (x \o z) \o y \in Seq(Byte) /\ Len((x \o z) \o y) = (k - dot) + 1 + dot
      BY <2>3, <2>4, <3>1, <3>2
    <3> QED BY <3>3 DEF z
  <2>7. (k - dot) + 1 + dot = k + 1
    BY <1>1, <2>1
  <2> QED BY <2>2, <2>6, <2>7
<1> HIDE DEF Good, n
<1>3. 0 \in T
  <2>1. 0 \in 0..n /\ \A j \in 0..(0 - 1) : Good(j)
    BY <1>1
  <2>2. Good(0)
    BY <1>2, <2>1
  <2>3. \A j \in 0..0 : j = 0
    OBVIOUS
  <2> QED BY <2>1, <2>2, <2>3
<1>4. ASSUME NEW k \in 1..n, k - 1 \in T PROVE k \in T
  <2>1. \A j \in 0..(k - 1) : Good(j)
    BY <1>4
  <2>2. k \in 0..n /\ \A j \in 0..k : j = k \/ j \in 0..(k - 1)
    BY <1>1
  <2>3. Good(k)
    BY <1>2, <2>1, <2>2
  <2> QED BY <2>1, <2>2, <2>3
<1>5. \A k \in 0..n : k \in T
  <2> HIDE DEF T
  <2> QED BY <1>1, <1>3, <1>4, BoundedInduction
<1>6. Good(m)
  <2>1. m \in T /\ m \in 0..m
    BY <1>5 DEF n
  <2> QED BY <2>1
<1> QED BY <1>6 DEF Good

(* A domain of the largest length fits into a cell.                        *)
LEMMA DomainCellHolds ==
  ASSUME NEW domain \in Seq(Byte), Len(domain) <= MaxDomain,
         NEW enc, Labelled(enc, domain), NEW bytes, bytes = enc[Len(domain)],
         EncodeDomain(domain) = StoreBuffer(NoBits, bytes)
  PROVE  /\ bytes \in Seq(Byte) /\ bytes \in Seq(Nat) /\ Len(bytes) = Len(domain) + 1
         /\ Holds(EncodeDomain(domain), BytesBits(bytes))
         /\ Len(BytesBits(bytes)) <= CellBits
<1>1. Len(domain) \in Nat /\ Len(domain) \in 0..Len(domain)
  OBVIOUS
<1>2. bytes \in Seq(Byte) /\ bytes \in Seq(Nat) /\ Len(bytes) = Len(domain) + 1
  BY <1>1, LabelledForm, BytesAreNumbers
<1>3. BytesBits(bytes) \in Seq(Bit) /\ Len(BytesBits(bytes)) = ByteBits * Len(bytes)
  BY <1>2, BytesBitsType
<1>4. ByteBits * Len(bytes) <= CellBits /\ CellBits <= Room /\ ByteBits * Len(bytes) \in Nat
      /\ Room \in Nat /\ CellBits \in Nat
  <2> DEFINE k == Len(bytes)
             p == ByteBits * k
             q == (MaxDomain + 1) * ByteBits
  <2>1. ByteBits \in Nat /\ MaxDomain \in Nat
    BY WidthsAssumption, RequestsAssumption
  <2>2. k \in Nat /\ k <= MaxDomain + 1
    <3> HIDE DEF k
    <3>1. k = Len(domain) + 1
      BY <1>2 DEF k
    <3> QED BY <1>1, <2>1, <3>1
  <2> HIDE DEF k
  <2>3. p \in Nat /\ p <= q
    <3>1. \A a, b, c \in Nat : a <= b => c * a <= b * c
      OBVIOUS
    <3>2. MaxDomain + 1 \in Nat
      BY <2>1
    <3> QED BY <2>1, <2>2, <3>1, <3>2
  <2>4. q \in Nat /\ q <= CellBits
    <3>1. q \in Nat
      BY <2>1
    <3> QED BY <3>1, CellAssumption
  <2> HIDE DEF p, q
  <2>5. p <= CellBits
    BY <2>3, <2>4, AddressFits
  <2> QED BY <2>3, <2>5, AddressFits DEF p, k
<1>5. Holds(StoreBuffer(NoBits, bytes), <<>> \o BytesBits(bytes))
  <2>1. Len(<<>>) = 0
    OBVIOUS
  <2> DEFINE p == ByteBits * Len(bytes)
  <2>2. p \in Nat /\ p <= Room
    <3> HIDE DEF p
    <3> QED BY <1>4 DEF p
  <2>3. Len(<<>>) + p <= Room
    <3> HIDE DEF p
    <3> QED BY <2>1, <2>2
  <2> QED BY <1>2, <2>3, NoBitsHolds, StoreBufferHolds
<1>6. <<>> \o BytesBits(bytes) = BytesBits(bytes)
  BY <1>3
<1> QED BY <1>2, <1>3, <1>4, <1>5, <1>6

-----------------------------------------------------------------------------
(***************************************************************************)
(* What a reader finds in the signed cell.                                 *)
(***************************************************************************)

(* The bytes that encode_text counts fit into a cell.                      *)
LEMMA TextCellHolds ==
  ASSUME NEW text \in Seq(Byte), Len(text) <= StoreMax
  PROVE  /\ Holds(StoreBuffer(NoBits, text), BytesBits(text))
         /\ BytesBits(text) \in Seq(Bit) /\ Len(BytesBits(text)) <= CellBits
<1>1. text \in Seq(Nat) /\ Len(text) \in Nat
  BY BytesAreNumbers
<1>2. BytesBits(text) \in Seq(Bit) /\ Len(BytesBits(text)) = ByteBits * Len(text)
  BY <1>1, BytesBitsType
<1> DEFINE n == Len(text)
           p == ByteBits * n
           q == ByteBits * StoreMax
<1>3. p \in Nat /\ q \in Nat /\ p <= q
  <2>1. \A a, b, c \in Nat : a <= b => c * a <= c * b /\ c * a \in Nat /\ c * b \in Nat
    OBVIOUS
  <2>2. n \in Nat /\ n <= StoreMax /\ StoreMax \in Nat /\ ByteBits \in Nat
    BY <1>1, StoreMaxIs, WidthsAssumption
  <2> HIDE DEF n
  <2> QED BY <2>1, <2>2
<1>4. q <= CellBits /\ CellBits \in Nat /\ CellBits <= Room /\ Room \in Nat
  BY StoreMaxIs, AddressFits
<1> HIDE DEF q
<1>5. p <= CellBits /\ Len(<<>>) + p <= Room
  <2>1. Len(<<>>) = 0
    OBVIOUS
  <2> HIDE DEF p
  <2> QED BY <1>3, <1>4, <2>1
<1>6. Holds(StoreBuffer(NoBits, text), <<>> \o BytesBits(text))
  BY <1>1, <1>5, NoBitsHolds, StoreBufferHolds
<1>7. <<>> \o BytesBits(text) = BytesBits(text)
  BY <1>2
<1> QED BY <1>2, <1>5, <1>6, <1>7

(* A cell without references, behind the reference to it.                  *)
LEMMA LeafIs ==
  ASSUME NEW t, NEW w, Holds(t, w), NEW ref, ref = HashCell(t, <<>>)
  PROVE  /\ CellOf(ref.hash) = [bits |-> w, refs |-> <<>>]
         /\ ref = [max_depth |-> 0, hash |-> ref.hash] /\ ref.max_depth = 0
<1>1. <<>> \in Seq([max_depth : Nat, hash : {}])
  OBVIOUS
<1>2. CellOf(Representation(t, <<>>)) = [bits |-> w, refs |-> <<>>]
  BY <1>1, CellReadsBack
<1>3. ref = [max_depth |-> 0, hash |-> Representation(t, <<>>)]
  <2>1. CellDepth(<<>>) = 0
    BY DEF CellDepth
  <2> QED BY <2>1 DEF HashCell, Ref
<1> HIDE DEF Ref
<1> QED BY <1>2, <1>3

(* The cell that is signed has the bits and the references it was given.   *)
LEMMA RootReadsBack ==
  ASSUME NEW t, NEW w, Holds(t, w), NEW links, NEW R, links \in Seq(R),
         \A r \in R : r.max_depth \in Nat /\ r = [max_depth |-> r.max_depth, hash |-> r.hash]
  PROVE  CellOf(Representation(t, links)) = [bits |-> w, refs |-> links]
<1> DEFINE H == {r.hash : r \in R}
           All == [max_depth : Nat, hash : H]
<1>1. R \subseteq All
  <2> SUFFICES ASSUME NEW r \in R PROVE r \in All
    OBVIOUS
  <2>1. r.hash \in H /\ r.max_depth \in Nat
    OBVIOUS
  <2> HIDE DEF H
  <2>2. [max_depth |-> r.max_depth, hash |-> r.hash] \in All
    BY <2>1
  <2> QED BY <2>2
<1> HIDE DEF All
<1>2. links \in Seq(All)
  BY <1>1, SeqOfMore, Zenon
<1> QED BY <1>2, CellReadsBack DEF All

TextOf == SubSeq(buf.ptr, WordLen + LongLen + 1, buf.offset)

(* The text of a request: its bytes, in one cell or two.                   *)
OneCellText(text) ==
  Holds(bits, BytesBits(text)) /\ refs = <<>> /\ Len(BytesBits(text)) <= CellBits

TwoCellText(text, a, b, ref) ==
  /\ a \in Seq(Byte) /\ b \in Seq(Byte) /\ text = a \o b
  /\ Holds(bits, BytesBits(a)) /\ refs = <<ref>>
  /\ ref.max_depth = 0 /\ ref = [max_depth |-> 0, hash |-> ref.hash]
  /\ CellOf(ref.hash) = [bits |-> BytesBits(b), refs |-> <<>>]
  /\ Len(BytesBits(a)) <= CellBits /\ Len(BytesBits(b)) <= CellBits

(* encode_text: the end of a long text is in the cell referred to.         *)
LEMMA TextIsInCells ==
  ASSUME TextRead, InData(buf), WordLen + LongLen <= buf.offset
  PROVE  /\ TextOf \in Seq(Byte) /\ lines = <<Line("Text", TextOf)>>
         /\ OneCellText(TextOf) \/ \E a, b, ref : TwoCellText(TextOf, a, b, ref)
<1> DEFINE text == TextOf
           n == Len(text)
           a == SubSeq(text, 1, StoreMax)
           b == SubSeq(text, StoreMax + 1, n)
           s == StoreBuffer(NoBits, b)
           ref == HashCell(s, <<>>)
<1>1. /\ n <= MaxPlaintext /\ lines = <<Line("Text", text)>>
      /\ bits = EncodeText(text).bits /\ refs = EncodeText(text).refs
  BY DEF TextRead, TextOf
<1>2. text \in Seq(Byte)
  <2> DEFINE from == WordLen + LongLen + 1
             to == buf.offset
             p == buf.ptr
  <2>1. from \in Nat /\ from >= 1
    BY WidthsAssumption
  <2>2. p \in Seq(Byte) /\ to \in Nat /\ to <= Len(p)
    BY DEF InData
  <2> HIDE DEF from, to, p
  <2>3. SubSeq(p, from, to) \in Seq(Byte)
    BY <2>1, <2>2
  <2> QED BY <2>3 DEF TextOf, p, from, to
<1> HIDE DEF text
<1>3. StoreMax \in Nat \ {0} /\ n <= 2 * StoreMax /\ n \in Nat /\ text \in Seq(Nat)
  <2>1. n \in Nat
    BY <1>2
  <2> HIDE DEF n
  <2> QED BY <1>1, <1>2, <2>1, StoreMaxIs, BytesAreNumbers
<1>4. EncodeText(text) = IF n <= StoreMax THEN OneCell(text) ELSE TwoCells(a, b)
  BY <1>3, TextInCells
<1>5. CASE n <= StoreMax
  <2>1. bits = StoreBuffer(NoBits, text) /\ refs = <<>>
    BY <1>1, <1>4, <1>5 DEF OneCell
  <2>2. OneCellText(text)
    BY <1>2, <1>5, <2>1, TextCellHolds DEF OneCellText
  <2> QED BY <1>1, <1>2, <2>2 DEF text
<1>6. CASE ~(n <= StoreMax)
  <2>1. bits = StoreBuffer(NoBits, a) /\ refs = <<ref>>
    BY <1>1, <1>4, <1>6 DEF TwoCells
  <2>2. /\ a \in Seq(Byte) /\ b \in Seq(Byte) /\ text = a \o b
        /\ Len(a) <= StoreMax /\ Len(b) <= StoreMax
    <3>1. \A S : \A x \in Seq(S) : \A k \in 1..Len(x) :
            /\ SubSeq(x, 1, k) \in Seq(S) /\ SubSeq(x, k + 1, Len(x)) \in Seq(S)
            /\ x = SubSeq(x, 1, k) \o SubSeq(x, k + 1, Len(x))
            /\ Len(SubSeq(x, 1, k)) = k /\ Len(SubSeq(x, k + 1, Len(x))) = Len(x) - k
      OBVIOUS
    <3>2. StoreMax \in 1..n
      BY <1>3, <1>6
    <3>3. Len(a) = StoreMax /\ Len(b) = n - StoreMax
      BY <1>2, <3>1, <3>2
    <3>4. n - StoreMax <= StoreMax
      <4> HIDE DEF n
      <4> QED BY <1>3
    <3>5. a \in Seq(Byte) /\ b \in Seq(Byte) /\ text = a \o b
      BY <1>2, <3>1, <3>2
    <3> HIDE DEF n, a, b
    <3> QED BY <1>3, <3>3, <3>4, <3>5
  <2> HIDE DEF a, b
  <2>3. Holds(StoreBuffer(NoBits, a), BytesBits(a)) /\ Len(BytesBits(a)) <= CellBits
    BY <2>2, TextCellHolds
  <2>4. Holds(s, BytesBits(b)) /\ Len(BytesBits(b)) <= CellBits
    BY <2>2, TextCellHolds
  <2> HIDE DEF s
  <2>5. /\ CellOf(ref.hash) = [bits |-> BytesBits(b), refs |-> <<>>]
        /\ ref = [max_depth |-> 0, hash |-> ref.hash] /\ ref.max_depth = 0
    BY <2>4, LeafIs
  <2> HIDE DEF ref
  <2>6. TwoCellText(text, a, b, ref)
    BY <2>1, <2>2, <2>3, <2>4, <2>5 DEF TwoCellText
  <2> QED BY <1>1, <1>2, <2>6 DEF text
<1> QED BY <1>5, <1>6

(* The references of app data that there are.                              *)
DomainCell(d) == HashCell(EncodeDomain(d.domain), <<>>)
OwnRefs(d)   == IF Is(d.has_domain) THEN {DomainCell(d)} ELSE {}
GivenRefs(d) == {CellRef(d.data)} \cup (IF Is(d.has_ext) THEN {CellRef(d.ext)} ELSE {})

(* There are no other references.                                          *)
LEMMA AppRefsAre ==
  ASSUME NEW d
  PROVE  RefsAfter(8, d) \in Seq(OwnRefs(d) \cup GivenRefs(d))
<1> DEFINE R == OwnRefs(d) \cup GivenRefs(d)
<1>1. DomainRef(8, d) \in Seq(R)
  <2>1. CASE Is(d.has_domain)
    <3>1. DomainCell(d) \in R
      BY <2>1 DEF OwnRefs
    <3> HIDE DEF R
    <3> QED BY <2>1, <3>1 DEF DomainRef, DomainCell, PartAfter
  <2>2. CASE ~Is(d.has_domain)
    <3> HIDE DEF R
    <3> QED BY <2>2 DEF DomainRef, PartAfter
  <2> QED BY <2>1, <2>2
<1>2. DataRef(8, d) \in Seq(R)
  <2>1. CellRef(d.data) \in R
    BY DEF GivenRefs
  <2> HIDE DEF R
  <2> QED BY <2>1 DEF DataRef
<1>3. ExtRef(8, d) \in Seq(R)
  <2>1. CASE Is(d.has_ext)
    <3>1. CellRef(d.ext) \in R
      BY <2>1 DEF GivenRefs
    <3> HIDE DEF R
    <3> QED BY <2>1, <3>1 DEF ExtRef, PartAfter
  <2>2. CASE ~Is(d.has_ext)
    <3> HIDE DEF R
    <3> QED BY <2>2 DEF ExtRef, PartAfter
  <2> QED BY <2>1, <2>2
<1>4. \A S : \A x, y \in Seq(S) : x \o y \in Seq(S)
  OBVIOUS
<1> HIDE DEF R
<1>5. (DomainRef(8, d) \o DataRef(8, d)) \o ExtRef(8, d) \in Seq(R)
  BY <1>1, <1>2, <1>3, <1>4, Zenon
<1> QED BY <1>5, AreParts DEF R

(* The cell of a domain, behind the reference to it.                       *)
LEMMA DomainCellIs ==
  ASSUME NEW d \in [Names -> Seq(Byte)], Sized(8, d), Is(d.has_domain)
  PROVE  \E enc, bytes :
           /\ Labelled(enc, d.domain) /\ bytes = enc[Len(d.domain)]
           /\ bytes \in Seq(Byte) /\ Len(bytes) = Len(d.domain) + 1
           /\ CellOf(DomainCell(d).hash) = [bits |-> BytesBits(bytes), refs |-> <<>>]
           /\ Len(BytesBits(bytes)) <= CellBits
           /\ DomainCell(d) = [max_depth |-> 0, hash |-> DomainCell(d).hash]
           /\ DomainCell(d).max_depth = 0
<1>1. d.domain \in Seq(Byte) /\ Len(d.domain) <= MaxDomain
  BY DEF Names, Sized
<1>2. PICK enc : /\ Labelled(enc, d.domain)
                 /\ EncodeDomain(d.domain) = StoreBuffer(NoBits, enc[Len(d.domain)])
  BY <1>1, DomainLabels
<1> DEFINE bytes == enc[Len(d.domain)]
           t == EncodeDomain(d.domain)
           ref == DomainCell(d)
<1>3. /\ bytes \in Seq(Byte) /\ Len(bytes) = Len(d.domain) + 1
      /\ Holds(t, BytesBits(bytes)) /\ Len(BytesBits(bytes)) <= CellBits
  <2> HIDE DEF bytes
  <2> QED BY <1>1, <1>2, DomainCellHolds DEF bytes
<1>4. ref = HashCell(t, <<>>)
  BY DEF DomainCell
<1> HIDE DEF t, ref
<1>5. /\ CellOf(ref.hash) = [bits |-> BytesBits(bytes), refs |-> <<>>]
      /\ ref = [max_depth |-> 0, hash |-> ref.hash] /\ ref.max_depth = 0
  <2> DEFINE w == BytesBits(bytes)
  <2>1. Holds(t, w)
    BY <1>3
  <2> HIDE DEF w
  <2>2. /\ CellOf(ref.hash) = [bits |-> w, refs |-> <<>>]
        /\ ref = [max_depth |-> 0, hash |-> ref.hash] /\ ref.max_depth = 0
    BY <1>4, <2>1, LeafIs
  <2> QED BY <2>2 DEF w
<1> QED BY <1>2, <1>3, <1>5 DEF ref

(* Each reference has the form of one.                                     *)
LEMMA AppRefForms ==
  ASSUME NEW d \in [Names -> Seq(Byte)], Sized(8, d), NEW r \in OwnRefs(d) \cup GivenRefs(d)
  PROVE  r.max_depth \in Nat /\ r = [max_depth |-> r.max_depth, hash |-> r.hash]
<1>1. CASE r \in OwnRefs(d)
  <2>1. Is(d.has_domain) /\ r = DomainCell(d)
    BY <1>1 DEF OwnRefs
  <2>2. DomainCell(d) = [max_depth |-> 0, hash |-> DomainCell(d).hash]
        /\ DomainCell(d).max_depth = 0
    BY <2>1, DomainCellIs
  <2> QED BY <2>1, <2>2
<1>2. CASE r \in GivenRefs(d)
  <2>1. r = CellRef(d.data) \/ (Is(d.has_ext) /\ r = CellRef(d.ext))
    BY <1>2 DEF GivenRefs
  <2>2. d.data \in Seq(Nat) /\ d.ext \in Seq(Nat)
    <3>1. d.data \in Seq(Byte) /\ d.ext \in Seq(Byte)
      BY DEF Names
    <3> QED BY <3>1, BytesAreNumbers
  <2>3. Len(d.data) = ShortLen + HashLen /\ (Is(d.has_ext) => Len(d.ext) = ShortLen + HashLen)
    BY DEF Sized
  <2>4. r \in References
    BY <2>1, <2>2, <2>3, CellRefType
  <2> QED BY <2>4 DEF References
<1> QED BY <1>1, <1>2

(* The signed cell of app data.                                            *)
LEMMA AppRoot ==
  ASSUME NEW d \in [Names -> Seq(Byte)], NEW t, NEW links, NEW shown, AppRead(8, d, t, links, shown)
  PROVE  /\ CellOf(Representation(t, links)) = [bits |-> BitsAfter(8, d), refs |-> links]
         /\ links = RefsAfter(8, d) /\ shown = LinesAfter(8, d) /\ Sized(8, d)
         /\ Len(BitsAfter(8, d)) <= CellBits
<1>1. /\ Holds(t, BitsAfter(8, d)) /\ links = RefsAfter(8, d) /\ shown = LinesAfter(8, d)
      /\ Sized(8, d)
  BY DEF AppRead, Holds
<1>2. 8 \in 0..8
  OBVIOUS
<1>3. Len(BitsAfter(8, d)) <= CellBits
  BY <1>1, <1>2, BitsRoom, Zenon
<1> DEFINE R == OwnRefs(d) \cup GivenRefs(d)
           w == BitsAfter(8, d)
<1>4. links \in Seq(R)
  BY <1>1, AppRefsAre
<1>5. \A r \in R : r.max_depth \in Nat /\ r = [max_depth |-> r.max_depth, hash |-> r.hash]
  BY <1>1, AppRefForms
<1>6. Holds(t, w)
  BY <1>1
<1> HIDE DEF R, w
<1>7. CellOf(Representation(t, links)) = [bits |-> w, refs |-> links]
  BY <1>4, <1>5, <1>6, RootReadsBack
<1> QED BY <1>1, <1>3, <1>7 DEF w

-----------------------------------------------------------------------------
(***************************************************************************)
(* CellsFit.                                                               *)
(***************************************************************************)
Given == {CellRef(data[name]) : name \in {n \in {"data", "ext"} : data[n] # <<>>}}

(* The signed cell of a text.                                              *)
LEMMA NoRefReadsBack ==
  ASSUME NEW t, NEW w, Holds(t, w), NEW links, links = <<>>
  PROVE  CellOf(Representation(t, links)) = [bits |-> w, refs |-> <<>>]
<1>1. links \in Seq([max_depth : Nat, hash : {}])
  OBVIOUS
<1>2. CellOf(Representation(t, links)) = [bits |-> w, refs |-> links]
  BY <1>1, CellReadsBack
<1> QED BY <1>2

(* The same with a second cell.                                            *)
LEMMA OneRefReadsBack ==
  ASSUME NEW t, NEW w, Holds(t, w), NEW links, NEW link, links = <<link>>,
         link.max_depth = 0, link = [max_depth |-> 0, hash |-> link.hash]
  PROVE  CellOf(Representation(t, links)) = [bits |-> w, refs |-> <<link>>]
<1> DEFINE H == {link.hash}
<1>1. link \in [max_depth : Nat, hash : H]
  OBVIOUS
<1>2. links \in Seq([max_depth : Nat, hash : H])
  <2> DEFINE S == [max_depth : Nat, hash : H]
  <2>1. link \in S
    BY <1>1
  <2> HIDE DEF S
  <2> QED BY <2>1 DEF S
<1> HIDE DEF H
<1>3. CellOf(Representation(t, links)) = [bits |-> w, refs |-> links]
  BY <1>2, CellReadsBack
<1> QED BY <1>3, Zenon

(* A text: the first cell and the one behind it.                           *)
LEMMA TextFits ==
  ASSUME RequestInCell, Accepted, SchemaRead = Plaintext,
         NEW ref \in ToSet(CellOf(cell).refs)
  PROVE  Len(CellOf(ref.hash).bits) <= CellBits
<1>1. /\ cell = Representation(bits, refs) /\ TextRead /\ InData(buf)
      /\ WordLen + LongLen <= buf.offset
  BY DEF RequestInCell, HeaderRead
<1>2. OneCellText(TextOf) \/ \E a, b, link : TwoCellText(TextOf, a, b, link)
  BY <1>1, TextIsInCells
<1>3. CASE OneCellText(TextOf)
  <2>1. Holds(bits, BytesBits(TextOf)) /\ refs = <<>>
    BY <1>3 DEF OneCellText
  <2>2. CellOf(Representation(bits, refs)) = [bits |-> BytesBits(TextOf), refs |-> <<>>]
    BY <2>1, NoRefReadsBack, Zenon
  <2>3. CellOf(cell).refs = <<>>
    BY <1>1, <2>2
  <2> QED BY <2>3 DEF ToSet
<1>4. CASE \E a, b, link : TwoCellText(TextOf, a, b, link)
  <2>1. PICK a, b, link : TwoCellText(TextOf, a, b, link)
    BY <1>4
  <2>2. /\ Holds(bits, BytesBits(a)) /\ refs = <<link>> /\ link.max_depth = 0
        /\ link = [max_depth |-> 0, hash |-> link.hash]
        /\ CellOf(link.hash) = [bits |-> BytesBits(b), refs |-> <<>>]
        /\ Len(BytesBits(b)) <= CellBits
    BY <2>1 DEF TwoCellText
  <2>4. CellOf(Representation(bits, refs)) = [bits |-> BytesBits(a), refs |-> <<link>>]
    BY <2>2, OneRefReadsBack, Zenon
  <2>5. ToSet(CellOf(cell).refs) = {link}
    BY <1>1, <2>2, <2>4 DEF ToSet
  <2> QED BY <2>2, <2>5
<1> QED BY <1>2, <1>3, <1>4

(* App data: of its references only the domain is to a cell made here.     *)
LEMMA AppFits ==
  ASSUME RequestInCell, Accepted, SchemaRead # Plaintext,
         NEW ref \in ToSet(CellOf(cell).refs) \ Given
  PROVE  Len(CellOf(ref.hash).bits) <= CellBits
<1>1. /\ cell = Representation(bits, refs) /\ AppRead(8, data, bits, refs, lines)
      /\ data \in [Names -> Seq(Byte)]
  BY DataNames DEF RequestInCell
<1>2. /\ CellOf(Representation(bits, refs)) = [bits |-> BitsAfter(8, data), refs |-> refs]
      /\ refs = RefsAfter(8, data) /\ Sized(8, data)
  BY <1>1, AppRoot
<1>3. CellOf(cell).refs = RefsAfter(8, data)
  BY <1>1, <1>2
<1>4. ref \in OwnRefs(data) \cup GivenRefs(data)
  <2> DEFINE R == OwnRefs(data) \cup GivenRefs(data)
             s == RefsAfter(8, data)
  <2>1. s \in Seq(R)
    BY AppRefsAre
  <2> HIDE DEF R, s
  <2>2. ToSet(s) \subseteq R
    BY <2>1 DEF ToSet
  <2>3. ref \in ToSet(s)
    BY <1>3 DEF s
  <2> QED BY <2>2, <2>3 DEF R
<1>5. GivenRefs(data) \subseteq Given
  <2>1. Len(data.data) = ShortLen + HashLen /\ (Is(data.has_ext) => Len(data.ext) = ShortLen + HashLen)
    BY <1>2 DEF Sized
  <2>2. ShortLen + HashLen # 0 /\ Len(<<>>) = 0
    BY WidthsAssumption
  <2>3. data.data # <<>> /\ (Is(data.has_ext) => data.ext # <<>>)
    BY <2>1, <2>2
  <2> QED BY <2>3 DEF Given, GivenRefs
<1>6. Is(data.has_domain) /\ ref = DomainCell(data)
  BY <1>4, <1>5 DEF OwnRefs
<1>7. \E bytes : /\ CellOf(ref.hash) = [bits |-> BytesBits(bytes), refs |-> <<>>]
                 /\ Len(BytesBits(bytes)) <= CellBits
  BY <1>1, <1>2, <1>6, DomainCellIs
<1> QED BY <1>7

(* The signed cell itself.                                                 *)
LEMMA RootFits ==
  ASSUME RequestInCell, Accepted
  PROVE  Len(CellOf(cell).bits) <= CellBits
<1>1. /\ cell = Representation(bits, refs) /\ InData(buf) /\ WordLen + LongLen <= buf.offset
      /\ data \in [Names -> Seq(Byte)]
      /\ IF SchemaRead = Plaintext THEN TextRead ELSE AppRead(8, data, bits, refs, lines)
  BY DataNames DEF RequestInCell, HeaderRead
<1>2. CASE SchemaRead # Plaintext
  BY <1>1, <1>2, AppRoot
<1>3. CASE SchemaRead = Plaintext
  <2>1. OneCellText(TextOf) \/ \E a, b, link : TwoCellText(TextOf, a, b, link)
    BY <1>1, <1>3, TextIsInCells
  <2>2. CASE OneCellText(TextOf)
    <3>1. Holds(bits, BytesBits(TextOf)) /\ refs = <<>> /\ Len(BytesBits(TextOf)) <= CellBits
      BY <2>2 DEF OneCellText
    <3>2. CellOf(Representation(bits, refs)) = [bits |-> BytesBits(TextOf), refs |-> <<>>]
      BY <3>1, NoRefReadsBack, Zenon
    <3> QED BY <1>1, <3>1, <3>2
  <2>3. CASE \E a, b, link : TwoCellText(TextOf, a, b, link)
    <3>1. PICK a, b, link : TwoCellText(TextOf, a, b, link)
      BY <2>3
    <3>2. /\ Holds(bits, BytesBits(a)) /\ refs = <<link>> /\ link.max_depth = 0
          /\ link = [max_depth |-> 0, hash |-> link.hash] /\ Len(BytesBits(a)) <= CellBits
      BY <3>1 DEF TwoCellText
    <3>4. CellOf(Representation(bits, refs)) = [bits |-> BytesBits(a), refs |-> <<link>>]
      BY <3>2, OneRefReadsBack, Zenon
    <3> QED BY <1>1, <3>2, <3>4
  <2> QED BY <2>1, <2>2, <2>3
<1> QED BY <1>2, <1>3

(* encode_text and encode_domain: no cell that is made here holds more     *)
(* than its bits, for any text and any domain of a length the app takes.   *)
THEOREM CellsAlwaysFit == Spec => []CellsFit
<1>1. RequestInCell => CellsFit
  <2> SUFFICES ASSUME RequestInCell, Accepted
               PROVE  LET root  == CellOf(cell)
                          inner == {CellOf(ref.hash) : ref \in ToSet(root.refs) \ Given}
                      IN  \A c \in {root} \cup inner : Len(c.bits) <= CellBits
    BY DEF CellsFit, Given
  <2>1. Len(CellOf(cell).bits) <= CellBits
    BY RootFits
  <2>2. \A ref \in ToSet(CellOf(cell).refs) \ Given : Len(CellOf(ref.hash).bits) <= CellBits
    BY TextFits, AppFits
  <2> QED BY <2>1, <2>2
<1> QED BY <1>1, CellGrowsWithLines, PTL

-----------------------------------------------------------------------------
(***************************************************************************)
(* LinesDescribeCell.                                                      *)
(***************************************************************************)

(* What is hashed is a sequence.                                           *)
LEMMA RepresentationType ==
  ASSUME NEW t, NEW w, Holds(t, w), NEW H, NEW links \in Seq([max_depth : Nat, hash : H])
  PROVE  Representation(t, links) \in Seq(Nat \cup H)
<1> DEFINE n == Len(links)
           S == Nat \cup H
           head == <<n, Descriptor(Len(w))>>
           body == DataBytes(Finalize(t))
           depths == Depths(links)
           hashes == [i \in 1..n |-> links[i].hash]
<1>1. w \in Seq(Bit) /\ Len(w) <= Room /\ t.cursor = Len(w) /\ n \in Nat
  BY HoldsType
<1>2. PICK m \in Nat : Len(w \o Padding(w)) = ByteBits * m /\ Descriptor(Len(w)) \in Nat
  BY <1>1, DescriptorSays
<1>3. Holds(Finalize(t), w \o Padding(w))
  BY FinalizeHolds
<1>4. body \in Seq(Nat)
  BY <1>2, <1>3, DataBytesBits
<1>5. depths \in Seq(Nat)
  BY DepthsReadBack
<1>6. \A i \in 1..n : links[i] \in [max_depth : Nat, hash : H]
  BY <1>1, ElementOfSeq
<1>7. Representation(t, links) = head \o body \o depths \o hashes
  BY <1>1 DEF Representation, Depths
<1>8. head \in Seq(Nat)
  <2> HIDE DEF n
  <2> QED BY <1>1, <1>2
<1>9. hashes \in Seq(S)
  <2>1. hashes \in [1..n -> S]
    BY <1>6
  <2> QED BY <1>1, <2>1
<1>10. Nat \subseteq S
  OBVIOUS
<1> HIDE DEF head, body, depths, hashes, S
<1>11. head \in Seq(S) /\ body \in Seq(S) /\ depths \in Seq(S)
  BY <1>4, <1>5, <1>8, <1>10, SeqOfMore
<1>12. \A x, y \in Seq(S) : x \o y \in Seq(S)
  OBVIOUS
<1>13. ((head \o body) \o depths) \o hashes \in Seq(S)
  BY <1>9, <1>11, <1>12, Zenon
<1> QED BY <1>7, <1>13 DEF S

(* A cell without references is referred to like one of the request.       *)
LEMMA LeafIsReference ==
  ASSUME NEW t, NEW w, Holds(t, w)
  PROVE  HashCell(t, <<>>) \in References
<1> DEFINE links == <<>>
           H == {}
<1>1. links \in Seq([max_depth : Nat, hash : H])
  OBVIOUS
<1> HIDE DEF links, H
<1>2. Representation(t, links) \in Seq(Nat \cup H)
  BY <1>1, RepresentationType
<1>3. Representation(t, <<>>) \in Seq(Nat)
  BY <1>2 DEF links, H
<1>4. HashCell(t, <<>>) = [max_depth |-> 0, hash |-> Representation(t, <<>>)]
  <2>1. CellDepth(<<>>) = 0
    BY DEF CellDepth
  <2> QED BY <2>1 DEF HashCell, Ref
<1> DEFINE h == Representation(t, <<>>)
<1>5. h \in Seq(Nat) /\ HashCell(t, <<>>) = [max_depth |-> 0, hash |-> h]
  BY <1>3, <1>4
<1> HIDE DEF h
<1> QED BY <1>5 DEF References

(* An address that is there: its tag, then its bits.                       *)
LEMMA ReadMaybeAddress ==
  ASSUME NEW r, NEW tag \in Seq(Bit), NEW x \in Seq(Bit), NEW w \in Seq(Bit), NEW links,
         NEW vals, At(r, tag \o (x \o w), links, vals), NEW name,
         Len(x) = ByteBits * (1 + HashLen)
  PROVE  At(ReadPart(r, Part(name, "maybeAddress", tag)), w, links, Holding(vals, name, x))
<1> DEFINE p == Part(name, "maybeAddress", tag)
           t == [r EXCEPT !.bits = Rest(@, Len(tag))]
<1>1. r.ok /\ p.kind = "maybeAddress" /\ p.name = name /\ p.n = tag
  BY AtSays DEF Part
<1>2. StartsWith(r, tag) /\ At(t, x \o w, links, vals)
  <2>1. x \o w \in Seq(Bit)
    BY ConcatProperties
  <2> QED BY <2>1, TagFound
<1> HIDE DEF p
<1>3. ReadPart(r, p) =
        Choice(r, p, << 0 >>, LAMBDA t_1 : Bits(t_1, p.name, ByteBits * (1 + HashLen)))
  BY <1>1 DEF ReadPart
<1>4. Choice(r, p, << 0 >>, LAMBDA t_1 : Bits(t_1, p.name, ByteBits * (1 + HashLen)))
        = Bits(t, name, Len(x))
  BY <1>1, <1>2 DEF Choice
<1> HIDE DEF t
<1>5. At(Bits(t, name, Len(x)), w, links, Holding(vals, name, x))
  BY <1>2, ReadsBits
<1> QED BY <1>3, <1>4, <1>5 DEF p

(* An address that is not there.                                           *)
LEMMA ReadNoAddress ==
  ASSUME NEW r, NEW tag \in Seq(Bit), Len(tag) > 0, tag[1] = 1, NEW w \in Seq(Bit), NEW links,
         NEW vals, At(r, << 0 >> \o w, links, vals), NEW name
  PROVE  At(ReadPart(r, Part(name, "maybeAddress", tag)), w, links, Holding(vals, name, <<>>))
<1> DEFINE p == Part(name, "maybeAddress", tag)
           zero == <<0>>
           u == zero \o w
           t == [r EXCEPT !.bits = Rest(@, Len(zero))]
<1>1. r.ok /\ r.bits = u /\ p.kind = "maybeAddress" /\ p.name = name /\ p.n = tag
  BY AtSays DEF Part
<1>2. zero \in Seq(Bit) /\ Len(zero) = 1 /\ zero # <<>>
  BY DEF Bit
<1>3. ~StartsWith(r, tag)
  <2>1. u \in Seq(Bit) /\ Len(u) = 1 + Len(w) /\ u[1] = 0 /\ Len(w) \in Nat /\ Len(tag) \in Nat
    BY <1>2, ConcatProperties
  <2>2. ASSUME Len(u) >= Len(tag)
        PROVE  First(u, Len(tag))[1] = 0
    <3> HIDE DEF u
    <3>1. SubSeq(u, 1, Len(tag))[1] = u[1]
      BY <2>1, <2>2
    <3> QED BY <2>1, <3>1 DEF First
  <2> QED BY <1>1, <2>2 DEF StartsWith
<1> HIDE DEF zero
<1>4. StartsWith(r, zero) /\ At(t, w, links, vals)
  BY <1>2, TagFound DEF zero
<1> HIDE DEF p
<1>5. ReadPart(r, p) =
        Choice(r, p, zero, LAMBDA t_1 : Bits(t_1, p.name, ByteBits * (1 + HashLen)))
  BY <1>1 DEF ReadPart, zero
<1>6. Choice(r, p, zero, LAMBDA t_1 : Bits(t_1, p.name, ByteBits * (1 + HashLen)))
        = Absent(t, name)
  BY <1>1, <1>2, <1>3, <1>4 DEF Choice
<1> HIDE DEF t
<1>7. Absent(t, name) = [t EXCEPT !.values = Holding(vals, name, <<>>)]
  BY <1>4, AtSays DEF Absent
<1> DEFINE v == Holding(vals, name, <<>>)
<1> HIDE DEF v
<1>8. At([t EXCEPT !.values = v], w, links, v)
  BY <1>4, AtWithValues
<1> QED BY <1>5, <1>6, <1>7, <1>8 DEF p, v

DomainRefs(d) == IF Is(d.has_domain) THEN <<DomainCell(d)>> ELSE <<>>
ExtRefs(d)    == IF Is(d.has_ext) THEN <<CellRef(d.ext)>> ELSE <<>>
AddrRead(d)   == IF Is(d.has_address) THEN BytesBits(d.addr) ELSE <<>>
AddrTag == <<1, 1, 0, 0>>

(* All parts of app data are there when its fields are read.               *)
LEMMA WholeParts ==
  ASSUME NEW d
  PROVE  /\ AddrBits(8, d) = IF Is(d.has_address) THEN AddrTag \o AddrRead(d) ELSE << 0 >>
         /\ DomainBits(8, d) = FlagOfRef(DomainRefs(d)) /\ ExtBits(8, d) = FlagOfRef(ExtRefs(d))
         /\ DomainRef(8, d) = DomainRefs(d) /\ DataRef(8, d) = <<CellRef(d.data)>>
         /\ ExtRef(8, d) = ExtRefs(d)
<1>1. DomainRefs(d) = <<>> <=> ~Is(d.has_domain)
  BY DEF DomainRefs
<1>2. ExtRefs(d) = <<>> <=> ~Is(d.has_ext)
  BY DEF ExtRefs
<1>3. AddrBits(8, d) = IF Is(d.has_address) THEN AddrTag \o AddrRead(d) ELSE << 0 >>
  BY DEF AddrBits, PartAfter, AddrRead, AddrTag
<1>4. DomainBits(8, d) = FlagOfRef(DomainRefs(d)) /\ ExtBits(8, d) = FlagOfRef(ExtRefs(d))
  BY <1>1, <1>2 DEF DomainBits, ExtBits, PartAfter, FlagOfRef
<1>5. DomainRef(8, d) = DomainRefs(d)
  BY DEF DomainRef, DomainRefs, DomainCell, PartAfter
<1>6. DataRef(8, d) = <<CellRef(d.data)>>
  BY DEF DataRef
<1>7. ExtRef(8, d) = ExtRefs(d)
  BY DEF ExtRef, ExtRefs, PartAfter
<1> QED BY <1>3, <1>4, <1>5, <1>6, <1>7

(* The references are references.                                          *)
LEMMA AppRefTypes ==
  ASSUME NEW d \in [Names -> Seq(Byte)], Sized(8, d)
  PROVE  /\ DomainRefs(d) \in OneOrNone /\ ExtRefs(d) \in OneOrNone
         /\ CellRef(d.data) \in References
         /\ Is(d.has_domain) => DomainCell(d) \in References
<1>1. d.data \in Seq(Nat) /\ d.ext \in Seq(Nat)
  <2>1. d.data \in Seq(Byte) /\ d.ext \in Seq(Byte)
    BY DEF Names
  <2> QED BY <2>1, BytesAreNumbers
<1>2. Len(d.data) = ShortLen + HashLen /\ (Is(d.has_ext) => Len(d.ext) = ShortLen + HashLen)
  BY DEF Sized
<1>3. CellRef(d.data) \in References /\ (Is(d.has_ext) => CellRef(d.ext) \in References)
  BY <1>1, <1>2, CellRefType
<1>4. Is(d.has_domain) => DomainCell(d) \in References
  <2> SUFFICES ASSUME Is(d.has_domain) PROVE DomainCell(d) \in References
    OBVIOUS
  <2>1. d.domain \in Seq(Byte) /\ Len(d.domain) <= MaxDomain
    BY DEF Names, Sized
  <2>2. PICK enc : /\ Labelled(enc, d.domain)
                   /\ EncodeDomain(d.domain) = StoreBuffer(NoBits, enc[Len(d.domain)])
    BY <2>1, DomainLabels
  <2> DEFINE bytes == enc[Len(d.domain)]
  <2>3. bytes = enc[Len(d.domain)]
    OBVIOUS
  <2> HIDE DEF bytes
  <2>4. Holds(EncodeDomain(d.domain), BytesBits(bytes))
    BY <2>1, <2>2, <2>3, DomainCellHolds
  <2> QED BY <2>4, LeafIsReference DEF DomainCell
<1> QED BY <1>3, <1>4 DEF DomainRefs, ExtRefs, OneOrNone

(* The schema of app data.                                                 *)
LEMMA AppSchemaParts ==
  /\ \E P : AppSchema \in Seq(P)
  /\ Len(AppSchema) = 4
  /\ AppSchema[1] = Part("address", "maybeAddress", AddrTag)
  /\ AppSchema[2] = Part("domain", "maybe^", << 1 >>)
  /\ AppSchema[3] = Part("data", "^", 0)
  /\ AppSchema[4] = Part("ext", "maybe^", << 1 >>)
<1> DEFINE p1 == Part("address", "maybeAddress", AddrTag)
           p2 == Part("domain", "maybe^", << 1 >>)
           p3 == Part("data", "^", 0)
           p4 == Part("ext", "maybe^", << 1 >>)
           P == {p1, p2, p3, p4}
<1>1. AppSchema = <<p1, p2, p3, p4>>
  BY DEF AppSchema, AddrTag
<1>2. p1 \in P /\ p2 \in P /\ p3 \in P /\ p4 \in P
  OBVIOUS
<1> HIDE DEF p1, p2, p3, p4, P
<1>3. <<p1, p2, p3, p4>> \in Seq(P)
  BY <1>2
<1>4. /\ Len(AppSchema) = 4 /\ AppSchema[1] = p1 /\ AppSchema[2] = p2
      /\ AppSchema[3] = p3 /\ AppSchema[4] = p4
  BY <1>1
<1> QED BY <1>1, <1>3, <1>4 DEF p1, p2, p3, p4

(* A contract reads in the cell what the request has in its fields.        *)
LEMMA AppIsRead ==
  ASSUME NEW d \in [Names -> Seq(Byte)], Sized(8, d),
         NEW m, m = ReadBy(AppSchema, [bits |-> BitsAfter(8, d), refs |-> RefsAfter(8, d)])
  PROVE  /\ m.ok
         /\ m.values.address = AddrRead(d)
         /\ m.values.domain = RefOf(DomainRefs(d))
         /\ m.values.data = CellRef(d.data)
         /\ m.values.ext = RefOf(ExtRefs(d))
<1> DEFINE D == DomainRefs(d)
           X == ExtRefs(d)
           C == <<CellRef(d.data)>>
           w2 == FlagOfRef(X)
           w1 == FlagOfRef(D) \o w2
           others == C \o X
           links == RefsAfter(8, d)
           word == BitsAfter(8, d)
           cell1 == [bits |-> word, refs |-> links]
           v1 == Holding(<<>>, "address", AddrRead(d))
           v2 == Holding(v1, "domain", RefOf(D))
           v3 == Holding(v2, "data", CellRef(d.data))
           v4 == Holding(v3, "ext", RefOf(X))
<1>1. /\ D \in OneOrNone /\ X \in OneOrNone /\ CellRef(d.data) \in References
      /\ D \in Seq(References) /\ X \in Seq(References)
      /\ X \o <<>> = X /\ <<>> \in Seq(References)
  BY AppRefTypes, OneOrNoneType
<1>2. C \in Seq(References) /\ others \in Seq(References) /\ others # <<>>
      /\ others[1] = CellRef(d.data) /\ Tail(others) = X
  <2> DEFINE c == CellRef(d.data)
  <2>1. \A S : \A s \in Seq(S) : \A e \in S :
          /\ <<e>> \in Seq(S) /\ <<e>> \o s \in Seq(S) /\ <<e>> \o s # <<>>
          /\ (<<e>> \o s)[1] = e /\ Tail(<<e>> \o s) = s
    OBVIOUS
  <2> HIDE DEF c
  <2>2. c \in References /\ X \in Seq(References)
    BY <1>1 DEF c
  <2> HIDE DEF X
  <2>3. /\ <<c>> \in Seq(References) /\ <<c>> \o X \in Seq(References) /\ <<c>> \o X # <<>>
        /\ (<<c>> \o X)[1] = c /\ Tail(<<c>> \o X) = X
    BY <2>1, <2>2
  <2> QED BY <2>3 DEF c
<1>3. links = D \o others
  <2>1. links = (D \o C) \o X
    BY AreParts, WholeParts
  <2>2. \A S : \A x, y, z \in Seq(S) : (x \o y) \o z = x \o (y \o z)
    OBVIOUS
  <2>3. D \in Seq(References) /\ C \in Seq(References) /\ X \in Seq(References)
    BY <1>1, <1>2
  <2> HIDE DEF links, C, D, X
  <2>4. (D \o C) \o X = D \o (C \o X)
    <3> DEFINE R == References
    <3>1. D \in Seq(R) /\ C \in Seq(R) /\ X \in Seq(R)
      BY <2>3
    <3> HIDE DEF R
    <3> QED BY <2>2, <3>1
  <2> QED BY <2>1, <2>4
<1>4. FlagOfRef(D) \in Seq(Bit) /\ w2 \in Seq(Bit) /\ w1 \in Seq(Bit)
  <2>1. \A r : FlagOfRef(r) \in Seq(Bit)
    BY FewBits DEF FlagOfRef
  <2>2. FlagOfRef(D) \in Seq(Bit) /\ FlagOfRef(X) \in Seq(Bit)
    BY <2>1
  <2> QED BY <2>2, Joined
<1>5. AddrBits(8, d) \in Seq(Bit)
  BY BitPartTypes
<1>6. word = AddrBits(8, d) \o w1
  <2>1. word = (AddrBits(8, d) \o FlagOfRef(D)) \o FlagOfRef(X)
    BY AreParts, WholeParts
  <2>2. \A S : \A x, y, z \in Seq(S) : (x \o y) \o z = x \o (y \o z)
    OBVIOUS
  <2> DEFINE a == AddrBits(8, d)
             b == FlagOfRef(D)
  <2>3. a \in Seq(Bit) /\ b \in Seq(Bit) /\ w2 \in Seq(Bit) /\ word = (a \o b) \o w2
    BY <1>4, <1>5, <2>1
  <2> HIDE DEF a, b, word, w2
  <2>4. word = a \o (b \o w2)
    BY <2>2, <2>3, SMTT(30)
  <2> QED BY <2>4 DEF a, b
<1>7. PICK P : AppSchema \in Seq(P)
  BY AppSchemaParts
<1>8. PICK run : /\ ReadRun(run, cell1, AppSchema)
                 /\ FoldLeft(ReadPart, Unread(cell1), AppSchema) = run[Len(AppSchema)]
  BY <1>7, ReadByRuns
<1>9. run[0] = Unread(cell1) /\ FoldLeft(ReadPart, Unread(cell1), AppSchema) = run[4]
  BY <1>8, AppSchemaParts DEF ReadRun
<1>10. /\ run[1] = ReadPart(run[0], AppSchema[1]) /\ run[2] = ReadPart(run[1], AppSchema[2])
       /\ run[3] = ReadPart(run[2], AppSchema[3]) /\ run[4] = ReadPart(run[3], AppSchema[4])
  <2>1. \A i \in 1..4 : run[i] = ReadPart(run[i - 1], AppSchema[i])
    BY <1>8, AppSchemaParts DEF ReadRun
  <2>2. 1 \in 1..4 /\ 2 \in 1..4 /\ 3 \in 1..4 /\ 4 \in 1..4
        /\ 1 - 1 = 0 /\ 2 - 1 = 1 /\ 3 - 1 = 2 /\ 4 - 1 = 3
    OBVIOUS
  <2> QED BY <2>1, <2>2
<1>11. At(run[0], word, links, <<>>)
  BY <1>9, StartsUnread
<1>12. At(run[0], AddrBits(8, d) \o w1, links, <<>>)
  BY <1>6, <1>11
<1> HIDE DEF cell1, word, links, w1, w2, v1, v2, v3, v4, others, D, X, C
<1>13. At(run[1], w1, links, v1)
  <2>1. run[1] = ReadPart(run[0], Part("address", "maybeAddress", AddrTag))
    BY <1>10, AppSchemaParts
  <2>2. AddrTag \in Seq(Bit) /\ Len(AddrTag) > 0 /\ AddrTag[1] = 1
    BY DEF AddrTag, Bit
  <2> HIDE DEF AddrTag
  <2>3. CASE Is(d.has_address)
    <3> DEFINE x == BytesBits(d.addr)
    <3>1. x \in Seq(Bit) /\ Len(x) = ByteBits * (1 + HashLen)
      <4>1. d.addr \in Seq(Nat)
        <5>1. d.addr \in Seq(Byte)
          BY DEF Names
        <5> QED BY <5>1, BytesAreNumbers
      <4>2. Len(d.addr) = 1 + HashLen
        BY <2>3 DEF Sized
      <4> QED BY <4>1, <4>2, BytesBitsType
    <3>2. AddrBits(8, d) = AddrTag \o x /\ AddrRead(d) = x
      BY <2>3, WholeParts DEF AddrRead
    <3> HIDE DEF x
    <3>3. (AddrTag \o x) \o w1 = AddrTag \o (x \o w1)
      BY <1>4, <2>2, <3>1, SMTT(30)
    <3>4. At(run[0], AddrTag \o (x \o w1), links, <<>>)
      BY <1>12, <3>2, <3>3
    <3>5. At(ReadPart(run[0], Part("address", "maybeAddress", AddrTag)), w1, links,
             Holding(<<>>, "address", x))
      BY <1>4, <2>2, <3>1, <3>4, ReadMaybeAddress
    <3> QED BY <2>1, <3>2, <3>5 DEF v1
  <2>4. CASE ~Is(d.has_address)
    <3>1. AddrBits(8, d) = << 0 >> /\ AddrRead(d) = <<>>
      BY <2>4, WholeParts DEF AddrRead
    <3>2. At(run[0], << 0 >> \o w1, links, <<>>)
      BY <1>12, <3>1
    <3>3. At(ReadPart(run[0], Part("address", "maybeAddress", AddrTag)), w1, links,
             Holding(<<>>, "address", <<>>))
      BY <1>4, <2>2, <3>2, ReadNoAddress
    <3> QED BY <2>1, <3>1, <3>3 DEF v1
  <2> QED BY <2>3, <2>4
<1>14. At(run[2], w2, others, v2)
  <2>1. At(run[1], FlagOfRef(D) \o w2, D \o others, v1)
    BY <1>3, <1>13 DEF w1
  <2>2. At(ReadPart(run[1], Part("domain", "maybe^", << 1 >>)), w2, others,
           Holding(v1, "domain", RefOf(D)))
    BY <1>1, <1>2, <1>4, <2>1, ReadRefOf
  <2> QED BY <1>10, <2>2, AppSchemaParts DEF v2
<1>15. At(run[3], w2, X, v3)
  <2>1. At(ReadPart(run[2], Part("data", "^", 0)), w2, Tail(others),
           Holding(v2, "data", others[1]))
    BY <1>2, <1>14, ReadRefPart
  <2> QED BY <1>2, <1>10, <2>1, AppSchemaParts DEF v3
<1>16. At(run[4], <<>>, <<>>, v4)
  <2>1. w2 \o <<>> = w2 /\ <<>> \in Seq(Bit)
    BY <1>4
  <2>2. At(run[3], FlagOfRef(X) \o <<>>, X \o <<>>, v3)
    BY <1>1, <1>15, <2>1 DEF w2
  <2>3. At(ReadPart(run[3], Part("ext", "maybe^", << 1 >>)), <<>>, <<>>,
           Holding(v3, "ext", RefOf(X)))
    BY <1>1, <2>1, <2>2, ReadRefOf
  <2> QED BY <1>10, <2>3, AppSchemaParts DEF v4
<1>17. ReadBy(AppSchema, cell1).ok /\ ReadBy(AppSchema, cell1).values = v4
  BY <1>9, <1>16, ReadToTheEnd
<1>18. m.ok /\ m.values = v4
  BY <1>17 DEF cell1, word, links
<1>19. /\ Has(v4, "address", AddrRead(d)) /\ Has(v4, "domain", RefOf(D))
       /\ Has(v4, "data", CellRef(d.data)) /\ Has(v4, "ext", RefOf(X))
  <2>1. Has(v1, "address", AddrRead(d))
    BY HasNew DEF v1
  <2>2. Has(v2, "address", AddrRead(d)) /\ Has(v2, "domain", RefOf(D))
    BY <2>1, HasNew, HasStill DEF v2
  <2>3. Has(v3, "address", AddrRead(d)) /\ Has(v3, "domain", RefOf(D))
        /\ Has(v3, "data", CellRef(d.data))
    BY <2>2, HasNew, HasStill DEF v3
  <2> QED BY <2>3, HasNew, HasStill DEF v4
<1> QED BY <1>18, <1>19 DEF Has, D, X

-----------------------------------------------------------------------------
(* The order in which bits are put together does not matter.               *)
LEMMA BitsAssociate ==
  ASSUME NEW x \in Seq(Bit), NEW y \in Seq(Bit), NEW z \in Seq(Bit)
  PROVE  (x \o y) \o z = x \o (y \o z)
BY ConcatAssociative

(* The bits of bytes, and the bytes of bits.                               *)
LEMMA BytesBitsJoined ==
  ASSUME NEW a \in Seq(Nat), NEW b \in Seq(Nat)
  PROVE  BytesBits(a \o b) = BytesBits(a) \o BytesBits(b)
<1> DEFINE n == Len(b)
           front(i) == SubSeq(b, 1, i)
           T == {i \in 0..n : BytesBits(a \o front(i)) = BytesBits(a) \o BytesBits(front(i))}
<1>1. n \in Nat /\ front(0) = <<>> /\ front(n) = b
  OBVIOUS
<1>2. 0 \in T
  <2>1. a \o <<>> = a
    OBVIOUS
  <2>2. BytesBits(<<>>) = <<>> /\ BytesBits(a) \in Seq(Bit)
    BY BytesBitsNothing, BytesBitsType
  <2>3. BytesBits(a) \o <<>> = BytesBits(a)
    BY <2>2
  <2>4. 0 \in 0..n
    BY <1>1
  <2>5. BytesBits(a \o front(0)) = BytesBits(a) \o BytesBits(front(0))
    <3> HIDE DEF front
    <3> QED BY <1>1, <2>1, <2>2, <2>3
  <2> HIDE DEF front
  <2> QED BY <2>4, <2>5
<1>3. ASSUME NEW i \in 1..n, i - 1 \in T PROVE i \in T
  <2> DEFINE u == front(i - 1)
             v == a \o u
             c == b[i]
             x == BytesBits(a)
             y == BytesBits(u)
             z == UintBits(c, ByteBits)
  <2>1. a \o front(i) = Append(v, c) /\ v \in Seq(Nat)
    BY AppendOne
  <2>2. front(i) = Append(u, c) /\ u \in Seq(Nat) /\ c \in Nat
    BY FrontOneMore
  <2>3. BytesBits(v) = x \o y
    BY <1>3
  <2> HIDE DEF u, v, c
  <2>4. BytesBits(Append(v, c)) = BytesBits(v) \o z
    BY <2>1, <2>2, BytesBitsOneMore
  <2>5. BytesBits(Append(u, c)) = y \o z
    BY <2>2, BytesBitsOneMore
  <2>6. x \in Seq(Bit) /\ y \in Seq(Bit) /\ z \in Seq(Bit)
    BY <2>2, BytesBitsType, UintBitsType, WidthsAssumption
  <2> HIDE DEF x, y, z
  <2>7. (x \o y) \o z = x \o (y \o z)
    BY <2>6, BitsAssociate
  <2>8. BytesBits(a \o front(i)) = x \o BytesBits(front(i))
    <3> HIDE DEF front
    <3> QED BY <2>1, <2>2, <2>3, <2>4, <2>5, <2>7
  <2> HIDE DEF front
  <2> QED BY <1>1, <2>8 DEF x
<1>4. \A i \in 0..n : i \in T
  <2> HIDE DEF T, n
  <2> QED BY <1>1, <1>2, <1>3, BoundedInduction
<1>5. n \in T
  <2> HIDE DEF T, n
  <2> QED BY <1>1, <1>4
<1> QED BY <1>1, <1>5

(* The bits of one byte among those of others.                             *)
LEMMA MiddlePiece ==
  ASSUME NEW x \in Seq(Bit), NEW y \in Seq(Bit), NEW z \in Seq(Bit)
  PROVE  SubSeq((x \o y) \o z, Len(x) + 1, Len(x) + Len(y)) = y
OBVIOUS

(* Byte k has its bits behind those of the k - 1 before it.                *)
LEMMA BitsOfByte ==
  ASSUME NEW bytes \in Seq(Nat), NEW k \in 1..Len(bytes)
  PROVE  SubSeq(BytesBits(bytes), (k - 1) * ByteBits + 1, k * ByteBits)
           = UintBits(bytes[k], ByteBits)
<1> DEFINE a == SubSeq(bytes, 1, k - 1)
           b == SubSeq(bytes, 1, k)
           c == SubSeq(bytes, k + 1, Len(bytes))
           x == BytesBits(a)
           y == UintBits(bytes[k], ByteBits)
           z == BytesBits(c)
<1>1. b = Append(a, bytes[k]) /\ a \in Seq(Nat) /\ bytes[k] \in Nat
  BY FrontOneMore
<1>2. bytes = b \o c /\ b \in Seq(Nat) /\ c \in Seq(Nat) /\ Len(a) = k - 1
  OBVIOUS
<1> HIDE DEF a, b, c
<1>3. BytesBits(bytes) = BytesBits(b) \o z
  BY <1>2, BytesBitsJoined
<1>4. BytesBits(b) = x \o y
  BY <1>1, BytesBitsOneMore
<1>5. /\ x \in Seq(Bit) /\ Len(x) = ByteBits * (k - 1)
      /\ y \in Seq(Bit) /\ Len(y) = ByteBits /\ z \in Seq(Bit)
  BY <1>1, <1>2, BytesBitsType, UintBitsType, WidthsAssumption
<1> HIDE DEF x, y, z
<1>6. SubSeq((x \o y) \o z, Len(x) + 1, Len(x) + Len(y)) = y
  BY <1>5, MiddlePiece
<1>7. Len(x) + 1 = (k - 1) * ByteBits + 1 /\ Len(x) + Len(y) = k * ByteBits
  <2> DEFINE B == ByteBits
  <2>1. B \in Nat /\ k \in Nat /\ Len(x) = B * (k - 1) /\ Len(y) = B
    BY <1>5, WidthsAssumption
  <2> HIDE DEF B
  <2>2. B * (k - 1) = (k - 1) * B /\ B * (k - 1) + B = k * B
    BY <2>1
  <2>3. Len(x) = (k - 1) * B /\ Len(x) + Len(y) = k * B
    BY <2>1, <2>2
  <2> QED BY <2>3 DEF B
<1> QED BY <1>3, <1>4, <1>6, <1>7 DEF y

(* Bytes are found again from their bits.                                  *)
LEMMA BytesOfBits ==
  ASSUME NEW bytes \in Seq(Byte)
  PROVE  BitsBytes(BytesBits(bytes)) = bytes
<1> DEFINE w == BytesBits(bytes)
           n == Len(bytes)
           B == ByteBits
<1>1. bytes \in Seq(Nat) /\ n \in Nat /\ B \in Nat \ {0}
  BY BytesAreNumbers, WidthsAssumption
<1>2. Len(w) = B * n
  BY <1>1, BytesBitsType
<1>3. Len(w) \div B = n
  <2>1. (B * n + 0) \div B = n /\ 0 \in 0..(B - 1)
    <3> HIDE DEF B, n
    <3>1. 0 \in 0..(B - 1)
      BY <1>1
    <3> QED BY <1>1, <3>1, Quotient
  <2>2. B * n + 0 = B * n
    <3> DEFINE p == B * n
    <3>1. p \in Nat
      <4> HIDE DEF B, n
      <4> QED BY <1>1
    <3> HIDE DEF p
    <3>2. p + 0 = p
      BY <3>1
    <3> QED BY <3>2 DEF p
  <2> HIDE DEF B, n, w
  <2> QED BY <1>2, <2>1, <2>2
<1>4. ASSUME NEW k \in 1..n PROVE Number(SubSeq(w, (k - 1) * B + 1, k * B)) = bytes[k]
  <2>1. SubSeq(w, (k - 1) * B + 1, k * B) = UintBits(bytes[k], B)
    BY <1>1, BitsOfByte
  <2>2. bytes[k] \in Nat /\ bytes[k] < 2^B
    <3> DEFINE b == 2^B
    <3>1. b \in Nat \ {0}
      BY <1>1, TwoPower
    <3>2. bytes[k] \in 0..(b - 1)
      <4>1. bytes[k] \in Byte
        BY ElementOfSeq
      <4> QED BY <4>1 DEF Byte
    <3> HIDE DEF b
    <3>3. bytes[k] \in Nat /\ bytes[k] < b
      BY <3>1, <3>2
    <3> QED BY <3>3 DEF b
  <2>3. Number(UintBits(bytes[k], B)) = bytes[k]
    <3> HIDE DEF B
    <3> QED BY <1>1, <2>2, NumberOfUint
  <2> QED BY <2>1, <2>3
<1>5. BitsBytes(w) = [k \in 1..n |-> Number(SubSeq(w, (k - 1) * B + 1, k * B))]
  BY <1>3 DEF BitsBytes
<1> HIDE DEF w, B
<1>6. BitsBytes(w) = [k \in 1..n |-> bytes[k]]
  BY <1>4, <1>5
<1>7. bytes = [k \in 1..n |-> bytes[k]]
  OBVIOUS
<1> QED BY <1>6, <1>7 DEF w

-----------------------------------------------------------------------------
(***************************************************************************)
(* The text of a domain is found again in its labels.                      *)
(***************************************************************************)
EndsAt(bytes, from, e) == bytes[e] = 0 /\ \A i \in from..(e - 1) : bytes[i] # 0
EndOf(bytes, from)     == CHOOSE e \in from..Len(bytes) : EndsAt(bytes, from, e)
ReadLabel(bytes, from) == SubSeq(bytes, from, EndOf(bytes, from) - 1)

TextOfLabels(text, bytes) ==
  \A from \in 1..Len(bytes) :
    text[from] = IF EndOf(bytes, from) = Len(bytes) THEN ReadLabel(bytes, from)
                 ELSE text[EndOf(bytes, from) + 1] \o <<Dot>> \o ReadLabel(bytes, from)

(* A label ends at the first zero byte, if the last byte is one.           *)
LEMMA EndIs ==
  ASSUME NEW bytes \in Seq(Nat), NEW from \in 1..Len(bytes), bytes[Len(bytes)] = 0
  PROVE  /\ EndOf(bytes, from) \in from..Len(bytes)
         /\ EndsAt(bytes, from, EndOf(bytes, from))
<1> DEFINE n == Len(bytes)
           Found == \E e \in from..n : EndsAt(bytes, from, e)
           None(k) == \A i \in from..(from + k - 1) : bytes[i] # 0
           T == {k \in 0..(n - from) : Found \/ None(k)}
<1>1. n \in Nat /\ n - from \in Nat /\ from \in Nat
  OBVIOUS
<1>2. 0 \in T
  BY <1>1
<1>3. ASSUME NEW k \in 1..(n - from), k - 1 \in T PROVE k \in T
  <2>1. CASE Found
    BY <2>1
  <2>2. CASE None(k - 1)
    <3> DEFINE e == from + (k - 1)
    <3>1. e \in from..n /\ e - 1 = from + (k - 1) - 1 /\ from + k - 1 = e
      BY <1>1
    <3>2. CASE bytes[e] = 0
      <4>1. EndsAt(bytes, from, e)
        BY <2>2, <3>1, <3>2 DEF EndsAt
      <4> QED BY <3>1, <4>1
    <3>3. CASE bytes[e] # 0
      <4>1. \A i \in from..(from + k - 1) : i = e \/ i \in from..(from + (k - 1) - 1)
        BY <1>1
      <4>2. None(k)
        BY <2>2, <3>3, <4>1
      <4> QED BY <4>2
    <3> QED BY <3>2, <3>3
  <2> QED BY <1>3, <2>1, <2>2
<1>4. \A k \in 0..(n - from) : k \in T
  <2> DEFINE z == n - from
  <2>1. z \in Nat /\ 0 \in T /\ \A k \in 1..z : k - 1 \in T => k \in T
    BY <1>1, <1>2, <1>3
  <2> HIDE DEF T, z
  <2>2. \A k \in 0..z : k \in T
    BY <2>1, BoundedInduction
  <2> QED BY <2>2 DEF z
<1>5. Found
  <2>1. Found \/ None(n - from)
    <3>1. n - from \in T
      <4> HIDE DEF T, n
      <4> QED BY <1>1, <1>4
    <3> HIDE DEF Found, None
    <3> QED BY <3>1
  <2>2. None(n - from) => EndsAt(bytes, from, n)
    <3>1. from + (n - from) - 1 = n - 1
      BY <1>1
    <3> QED BY <3>1 DEF EndsAt
  <2>3. n \in from..n
    BY <1>1
  <2> QED BY <2>1, <2>2, <2>3
<1> QED BY <1>5 DEF EndOf

(* There is one first zero byte.                                           *)
LEMMA EndIsOne ==
  ASSUME NEW bytes, NEW from \in Nat, NEW a \in Nat, NEW b \in Nat, from <= a, from <= b,
         EndsAt(bytes, from, a), EndsAt(bytes, from, b)
  PROVE  a = b
<1>1. ~(a < b)
  <2> SUFFICES ASSUME a < b PROVE FALSE
    OBVIOUS
  <2>1. a \in from..(b - 1)
    OBVIOUS
  <2> QED BY <2>1 DEF EndsAt
<1>2. ~(b < a)
  <2> SUFFICES ASSUME b < a PROVE FALSE
    OBVIOUS
  <2>1. b \in from..(a - 1)
    OBVIOUS
  <2> QED BY <2>1 DEF EndsAt
<1> QED BY <1>1, <1>2

(* A piece of a sequence.                                                  *)
LEMMA PieceIs ==
  ASSUME NEW S, NEW s \in Seq(S), NEW a \in Nat, NEW b \in Nat, a <= b, b <= Len(s)
  PROVE  /\ SubSeq(s, a + 1, b) \in Seq(S) /\ Len(SubSeq(s, a + 1, b)) = b - a
         /\ \A i \in 1..(b - a) : SubSeq(s, a + 1, b)[i] = s[a + i]
OBVIOUS

(* A sequence, a byte, and what is behind it.                              *)
Between(w, x, c, y) ==
  /\ Len(w) = Len(x) + 1 + Len(y)
  /\ \A i \in 1..Len(x) : w[i] = x[i]
  /\ w[Len(x) + 1] = c
  /\ \A i \in 1..Len(y) : w[Len(x) + 1 + i] = y[i]

(* They are there in this order.                                           *)
LEMMA BehindOne ==
  ASSUME NEW S, NEW x \in Seq(S), NEW c \in S, NEW y \in Seq(S), NEW w, w = (x \o <<c>>) \o y
  PROVE  w \in Seq(S) /\ Between(w, x, c, y)
<1> DEFINE v == Append(x, c)
<1>1. v = x \o <<c>> /\ v \in Seq(S) /\ Len(v) = Len(x) + 1
      /\ v[Len(x) + 1] = c /\ \A i \in 1..Len(x) : v[i] = x[i]
  <2>1. x \o <<c>> = Append(x, c)
    OBVIOUS
  <2>2. v \in Seq(S) /\ Len(v) = Len(x) + 1
    OBVIOUS
  <2>3. v[Len(x) + 1] = c /\ \A i \in 1..Len(x) : v[i] = x[i]
    OBVIOUS
  <2> QED BY <2>1, <2>2, <2>3
<1>2. Len(x) \in Nat /\ Len(y) \in Nat
  OBVIOUS
<1> HIDE DEF v
<1>3. w = v \o y
  BY <1>1
<1>4. /\ w \in Seq(S) /\ Len(w) = Len(v) + Len(y)
      /\ \A i \in 1..(Len(v) + Len(y)) : w[i] = IF i <= Len(v) THEN v[i] ELSE y[i - Len(v)]
  BY <1>1, <1>3, ConcatProperties
<1>5. ASSUME NEW i \in 1..Len(x) PROVE w[i] = x[i]
  <2>1. i \in 1..(Len(v) + Len(y)) /\ i <= Len(v)
    BY <1>1, <1>2
  <2> QED BY <1>1, <1>4, <2>1
<1>6. w[Len(x) + 1] = c
  <2>1. Len(x) + 1 \in 1..(Len(v) + Len(y)) /\ Len(x) + 1 <= Len(v)
    BY <1>1, <1>2
  <2> QED BY <1>1, <1>4, <2>1
<1>7. ASSUME NEW i \in 1..Len(y) PROVE w[Len(x) + 1 + i] = y[i]
  <2> DEFINE j == Len(x) + 1 + i
  <2>1. j \in 1..(Len(v) + Len(y)) /\ ~(j <= Len(v)) /\ j - Len(v) = i
    BY <1>1, <1>2
  <2> HIDE DEF j
  <2>2. w[j] = y[i]
    BY <1>4, <2>1
  <2> QED BY <2>2 DEF j
<1> QED BY <1>1, <1>4, <1>5, <1>6, <1>7 DEF Between

(* The bytes of a domain as encode_domain writes them: the last label, a   *)
(* zero byte, and the bytes of what is before the last dot.                *)
Pieces(enc, domain, m, dot) ==
  /\ dot \in 0..m /\ (dot > 0 => domain[dot] = Dot)
  /\ \A i \in 1..(m - dot) : enc[m][i] = domain[dot + i]
  /\ enc[m][m - dot + 1] = 0
  /\ dot > 0 => /\ dot - 1 \in 0..(m - 1)
                /\ \A i \in 1..dot : enc[m][m - dot + 1 + i] = enc[dot - 1][i]

(* As Labelled has them.                                                   *)
LEMMA LabelledPieces ==
  ASSUME NEW domain \in Seq(Byte), NEW enc, Labelled(enc, domain), NEW m \in 0..Len(domain)
  PROVE  Pieces(enc, domain, m, DotBefore(domain, m))
<1> DEFINE dot == DotBefore(domain, m)
           x == SubSeq(domain, dot + 1, m)
           y == IF dot = 0 THEN <<>> ELSE enc[dot - 1]
<1>1. domain \in Seq(Nat) /\ m \in Nat /\ m <= Len(domain)
  BY BytesAreNumbers
<1>2. dot \in 0..m /\ (dot > 0 => domain[dot] = Dot)
  <2> DEFINE d == DotBefore(domain, m)
  <2>1. d = DotBefore(domain, m)
    OBVIOUS
  <2> HIDE DEF d
  <2>2. d \in 0..m /\ (d > 0 => domain[d] = Dot)
    BY <1>1, <2>1, DotBeforeIs
  <2> QED BY <2>2 DEF d
<1>3. enc[m] = (x \o << 0 >>) \o y
  BY DEF Labelled, LabelAt
<1> HIDE DEF dot
<1>4. x \in Seq(Nat) /\ Len(x) = m - dot /\ \A i \in 1..(m - dot) : x[i] = domain[dot + i]
  <2> DEFINE R == Nat
  <2>1. dot \in Nat /\ dot <= m /\ domain \in Seq(R)
    BY <1>1, <1>2
  <2> HIDE DEF R
  <2>2. x \in Seq(R) /\ Len(x) = m - dot /\ \A i \in 1..(m - dot) : x[i] = domain[dot + i]
    BY <1>1, <2>1, PieceIs
  <2> QED BY <2>2 DEF R
<1>5. y \in Seq(Nat) /\ Len(y) = dot
  <2>1. CASE dot = 0
    BY <2>1
  <2>2. CASE dot # 0
    <3>1. dot - 1 \in 0..Len(domain) /\ (dot - 1) + 1 = dot
      BY <1>1, <1>2, <2>2
    <3>2. enc[dot - 1] \in Seq(Byte) /\ Len(enc[dot - 1]) = (dot - 1) + 1
      BY <3>1, LabelledForm
    <3>3. enc[dot - 1] \in Seq(Nat)
      BY <3>2, BytesAreNumbers
    <3> QED BY <2>2, <3>1, <3>2, <3>3
  <2> QED BY <2>1, <2>2
<1> HIDE DEF x
<1> DEFINE w == enc[m]
<1>6. /\ \A i \in 1..Len(x) : w[i] = x[i]
      /\ w[Len(x) + 1] = 0
      /\ \A i \in 1..Len(y) : w[Len(x) + 1 + i] = y[i]
  <2> HIDE DEF y, w
  <2> DEFINE c == 0
             R == Nat
  <2>1. w = (x \o <<c>>) \o y /\ c \in R /\ x \in Seq(R) /\ y \in Seq(R)
    BY <1>3, <1>4, <1>5 DEF w
  <2> HIDE DEF c, R
  <2>2. /\ \A i \in 1..Len(x) : w[i] = x[i]
        /\ w[Len(x) + 1] = c
        /\ \A i \in 1..Len(y) : w[Len(x) + 1 + i] = y[i]
    BY <2>1, BehindOne DEF Between
  <2> QED BY <2>2 DEF c
<1>7. dot > 0 => /\ dot - 1 \in 0..(m - 1)
                 /\ \A i \in 1..dot : w[m - dot + 1 + i] = enc[dot - 1][i]
  <2> SUFFICES ASSUME dot > 0
               PROVE  /\ dot - 1 \in 0..(m - 1)
                      /\ \A i \in 1..dot : w[m - dot + 1 + i] = enc[dot - 1][i]
    OBVIOUS
  <2>1. dot - 1 \in 0..(m - 1)
    BY <1>1, <1>2
  <2>2. y = enc[dot - 1]
    BY <1>2
  <2> HIDE DEF w, y
  <2> QED BY <1>4, <1>5, <1>6, <2>1, <2>2
<1> HIDE DEF y
<1> QED BY <1>2, <1>4, <1>6, <1>7 DEF Pieces, dot

(* The last byte is zero.                                                  *)
LEMMA LabelledEnds ==
  ASSUME NEW domain \in Seq(Byte), NEW enc, Labelled(enc, domain), NEW m \in 0..Len(domain)
  PROVE  enc[m][m + 1] = 0
<1> DEFINE n == Len(domain)
           Good(k) == enc[k][k + 1] = 0
           T == {k \in 0..n : \A j \in 0..k : Good(j)}
<1>1. n \in Nat
  OBVIOUS
<1>2. ASSUME NEW k \in 0..n, \A j \in 0..(k - 1) : Good(j) PROVE Good(k)
  <2> DEFINE dot == DotBefore(domain, k)
  <2>1. dot = DotBefore(domain, k)
    OBVIOUS
  <2> HIDE DEF dot
  <2>2. /\ dot \in 0..k /\ enc[k][k - dot + 1] = 0
        /\ dot > 0 => /\ dot - 1 \in 0..(k - 1)
                      /\ \A i \in 1..dot : enc[k][k - dot + 1 + i] = enc[dot - 1][i]
    <3>1. Pieces(enc, domain, k, dot)
      BY <2>1, LabelledPieces
    <3> QED BY <3>1 DEF Pieces
  <2>3. CASE dot = 0
    <3>1. k - dot + 1 = k + 1
      BY <1>1, <2>3
    <3> QED BY <2>2, <3>1
  <2>4. CASE dot # 0
    <3>1. dot > 0 /\ dot \in 1..dot /\ k - dot + 1 + dot = k + 1 /\ (dot - 1) + 1 = dot
      BY <1>1, <2>2, <2>4
    <3>2. enc[k][k + 1] = enc[dot - 1][dot]
      BY <2>2, <3>1
    <3>3. Good(dot - 1)
      BY <1>2, <2>2, <3>1
    <3> QED BY <3>1, <3>2, <3>3
  <2> QED BY <2>3, <2>4
<1> HIDE DEF Good, n
<1>3. 0 \in T
  <2>1. 0 \in 0..n /\ \A j \in 0..(0 - 1) : Good(j)
    BY <1>1
  <2>2. Good(0)
    BY <1>2, <2>1
  <2>3. \A j \in 0..0 : j = 0
    OBVIOUS
  <2> QED BY <2>1, <2>2, <2>3
<1>4. ASSUME NEW k \in 1..n, k - 1 \in T PROVE k \in T
  <2>1. \A j \in 0..(k - 1) : Good(j)
    BY <1>4
  <2>2. k \in 0..n /\ \A j \in 0..k : j = k \/ j \in 0..(k - 1)
    BY <1>1
  <2>3. Good(k)
    BY <1>2, <2>1, <2>2
  <2> QED BY <2>1, <2>2, <2>3
<1>5. \A k \in 0..n : k \in T
  <2> HIDE DEF T
  <2> QED BY <1>1, <1>3, <1>4, BoundedInduction
<1>6. Good(m)
  <2>1. m \in T /\ m \in 0..m
    BY <1>5 DEF n
  <2> QED BY <2>1
<1> QED BY <1>6 DEF Good

(* What DomainText gives is put together label by label.                   *)
LEMMA TextOfLabelsIs ==
  ASSUME NEW bytes \in Seq(Nat), Len(bytes) > 0, bytes[Len(bytes)] = 0
  PROVE  \E text : TextOfLabels(text, bytes) /\ DomainText(bytes) = text[1]
<1> DEFINE n == Len(bytes)
           last(from) == EndOf(bytes, from)
           label(from) == ReadLabel(bytes, from)
           step(from, v) == IF last(from) = n THEN label(from) ELSE v \o <<Dot>> \o label(from)
           R == Nat \cup {Dot}
           S == Seq(R)
           k == n - 1
           base == label(n)
           prev == [m \in 1..k |-> IF last(n - m) = n THEN 0 ELSE n - (last(n - m) + 1)]
           F == [p \in (1..k) \X S |-> step(n - p[1], p[2])]
           Steps(g) == g = [from \in 1..n |-> step(from, g[last(from) + 1])]
           chosen == CHOOSE g : Steps(g)
<1>1. n \in Nat /\ k \in Nat /\ n \in 1..n /\ k = n - 1
  OBVIOUS
<1>2. ASSUME NEW from \in 1..n
      PROVE  last(from) \in from..n /\ label(from) \in S
  <2>1. last(from) \in from..n
    BY EndIs
  <2>2. label(from) \in Seq(Nat)
    <3> DEFINE e == last(from)
    <3>1. e \in from..n
      BY <2>1
    <3> HIDE DEF e
    <3>2. SubSeq(bytes, from, e - 1) \in Seq(Nat)
      BY <3>1
    <3> QED BY <3>2 DEF ReadLabel, e
  <2>3. Nat \subseteq R
    OBVIOUS
  <2> HIDE DEF R, label
  <2>4. label(from) \in Seq(R)
    BY <2>2, <2>3, SeqOfMore
  <2> QED BY <2>1, <2>4
<1>3. ASSUME NEW from \in 1..n, NEW v \in S PROVE step(from, v) \in S
  <2>1. label(from) \in S /\ Dot \in R
    BY <1>2
  <2> HIDE DEF label, R, last
  <2>2. v \o <<Dot>> \o label(from) \in S
    BY <2>1
  <2> QED BY <2>1, <2>2
<1>4. base \in S /\ last(n) = n
  <2>1. last(n) \in n..n /\ label(n) \in S
    BY <1>1, <1>2
  <2> HIDE DEF last, label, S
  <2> QED BY <1>1, <2>1
<1>5. ASSUME NEW m \in 1..k
      PROVE  /\ n - m \in 1..n /\ prev[m] \in 0..(m - 1)
             /\ last(n - m) # n => prev[m] = n - (last(n - m) + 1)
  <2>1. n - m \in 1..n
    BY <1>1
  <2>2. last(n - m) \in (n - m)..n
    BY <1>2, <2>1
  <2>3. prev[m] = IF last(n - m) = n THEN 0 ELSE n - (last(n - m) + 1)
    OBVIOUS
  <2> HIDE DEF last, prev, n
  <2> QED BY <1>1, <2>1, <2>2, <2>3
<1>6. ASSUME NEW m \in 1..k, NEW v \in S
      PROVE  F[<<m, v>>] = step(n - m, v) /\ F[<<m, v>>] \in S
  <2>1. F[<<m, v>>] = step(n - m, v)
    <3> HIDE DEF step, S
    <3> QED OBVIOUS
  <2>2. step(n - m, v) \in S
    BY <1>3, <1>5
  <2> QED BY <2>1, <2>2
<1>7. \E g \in [0..k -> S] : \A m \in 0..k : Follows(g, m, F, prev, base)
  <2>1. base \in S /\ k \in Nat
    BY <1>1, <1>4
  <2>2. \A m \in 1..k : prev[m] \in 0..(m - 1)
    <3> HIDE DEF k, prev
    <3> QED BY <1>5
  <2>3. \A m \in 1..k : \A v \in S : F[<<m, v>>] \in S
    <3> HIDE DEF k, S, F
    <3> QED BY <1>6
  <2> HIDE DEF k, prev, base, S, F
  <2> QED BY <2>1, <2>2, <2>3, DependentRun
<1>8. PICK g \in [0..k -> S] : \A m \in 0..k : Follows(g, m, F, prev, base)
  BY <1>7
<1> DEFINE h == [from \in 1..n |-> g[n - from]]
<1> HIDE DEF F
<1>9. ASSUME NEW from \in 1..n PROVE h[from] = step(from, h[last(from) + 1])
  <2> DEFINE m == n - from
  <2>1. m \in 0..k /\ n - m = from /\ h[from] = g[m]
    BY <1>1
  <2>2. Follows(g, m, F, prev, base)
    BY <1>8, <2>1
  <2>3. CASE from = n
    <3>1. m = 0
      BY <1>1, <2>3
    <3> HIDE DEF m
    <3>2. g[m] = label(n)
      BY <2>2, <3>1 DEF Follows
    <3>3. step(n, h[last(n) + 1]) = label(n)
      <4> HIDE DEF last, label, n
      <4> QED BY <1>4
    <3>4. h[from] = label(n)
      BY <2>1, <3>2, Zenon
    <3> HIDE DEF step, h, label
    <3> QED BY <2>3, <3>3, <3>4
  <2>4. CASE from # n
    <3>1. m \in 1..k /\ m # 0
      BY <1>1, <2>4
    <3> HIDE DEF m
    <3>2. prev[m] \in 0..(m - 1) /\ (last(from) # n => prev[m] = n - (last(from) + 1))
      BY <1>5, <2>1, <3>1
    <3>3. g[prev[m]] \in S
      <4>1. prev[m] \in 0..k
        <5>1. k \in Nat /\ m \in 1..k /\ prev[m] \in 0..(m - 1)
          BY <1>1, <3>1, <3>2
        <5> DEFINE pm == prev[m]
        <5> HIDE DEF pm, k
        <5>2. pm \in 0..k
          BY <5>1 DEF pm
        <5> QED BY <5>2 DEF pm
      <4> HIDE DEF prev, S, k
      <4> QED BY <1>8, <4>1
    <3>4. g[m] = F[<<m, g[prev[m]]>>]
      BY <2>2, <3>1 DEF Follows
    <3>5. F[<<m, g[prev[m]]>>] = step(from, g[prev[m]])
      <4> DEFINE v == g[prev[m]]
      <4>1. v \in S
        BY <3>3
      <4> HIDE DEF v, step, S, k, n, prev
      <4>2. F[<<m, v>>] = step(n - m, v)
        BY <1>6, <3>1, <4>1
      <4>3. n - m = from
        BY <2>1
      <4>4. F[<<m, v>>] = step(from, v)
        BY <4>2, <4>3, Zenon
      <4> QED BY <4>4 DEF v
    <3>6. h[from] = step(from, g[prev[m]])
      <4> HIDE DEF h, step, prev
      <4> QED BY <2>1, <3>4, <3>5
    <3>7. CASE last(from) = n
      <4>1. \A v, u : step(from, v) = step(from, u)
        <5> HIDE DEF last, n, label
        <5> QED BY <3>7
      <4> HIDE DEF h, step
      <4> QED BY <3>6, <4>1
    <3>8. CASE last(from) # n
      <4>1. last(from) + 1 \in 1..n
        <5>1. last(from) \in from..n
          BY <1>2
        <5> HIDE DEF last, n
        <5> QED BY <1>1, <3>8, <5>1
      <4>2. h[last(from) + 1] = g[n - (last(from) + 1)]
        <5> HIDE DEF last, n
        <5> QED BY <4>1
      <4>3. h[last(from) + 1] = g[prev[m]]
        <5> HIDE DEF h, prev, last, n
        <5> QED BY <3>2, <3>8, <4>2
      <4> HIDE DEF h, step
      <4> QED BY <3>6, <4>3
    <3> QED BY <3>7, <3>8
  <2> QED BY <2>3, <2>4
<1>10. Steps(h)
  <2>1. h = [from \in 1..n |-> h[from]]
    OBVIOUS
  <2> HIDE DEF h, step, last
  <2> QED BY <1>9, <2>1
<1>11. Steps(chosen)
  <2> HIDE DEF h
  <2> QED BY <1>10
<1>12. DomainText(bytes) = chosen[1]
  BY DEF DomainText, EndOf, EndsAt, ReadLabel
<1> HIDE DEF chosen
<1>13. \A from \in 1..n : chosen[from] = step(from, chosen[last(from) + 1])
  <2> HIDE DEF step, last
  <2> QED BY <1>11
<1>14. TextOfLabels(chosen, bytes)
  BY <1>13 DEF TextOfLabels
<1> QED BY <1>12, <1>14

(* The elements behind the first a are those behind the first c.           *)
Alike(s, a, b, u, c, e) ==
  /\ a <= b /\ b <= Len(s) /\ c <= e /\ e <= Len(u) /\ b - a = e - c
  /\ \A i \in 1..(b - a) : s[a + i] = u[c + i]

OnePiece(s, a, b, u, c, e) == SubSeq(s, a + 1, b) = SubSeq(u, c + 1, e)

(* Two pieces with the same elements.                                      *)
LEMMA SamePieces ==
  ASSUME NEW S, NEW s \in Seq(S), NEW u \in Seq(S),
         NEW a \in Nat, NEW b \in Nat, NEW c \in Nat, NEW e \in Nat,
         Alike(s, a, b, u, c, e)
  PROVE  OnePiece(s, a, b, u, c, e)
<1> DEFINE x == SubSeq(s, a + 1, b)
           y == SubSeq(u, c + 1, e)
<1>0. /\ a <= b /\ b <= Len(s) /\ c <= e /\ e <= Len(u) /\ b - a = e - c
      /\ \A i \in 1..(b - a) : s[a + i] = u[c + i]
  BY DEF Alike
<1>1. x \in Seq(S) /\ Len(x) = b - a /\ \A i \in 1..(b - a) : x[i] = s[a + i]
  BY <1>0, PieceIs, SMTT(30)
<1>2. y \in Seq(S) /\ Len(y) = e - c /\ \A i \in 1..(e - c) : y[i] = u[c + i]
  BY <1>0, PieceIs, SMTT(30)
<1> HIDE DEF x, y
<1>3. x = y
  <2>1. x = [i \in 1..(b - a) |-> x[i]] /\ y = [i \in 1..(b - a) |-> y[i]]
    BY <1>0, <1>1, <1>2
  <2>2. \A i \in 1..(b - a) : x[i] = y[i]
    BY <1>0, <1>1, <1>2
  <2>3. [i \in 1..(b - a) |-> x[i]] = [i \in 1..(b - a) |-> y[i]]
    BY <2>2
  <2> QED BY <2>1, <2>3, Zenon
<1> QED BY <1>3 DEF x, y, OnePiece

(* What is before a byte, the byte, and what is behind it.                 *)
LEMMA AroundOne ==
  ASSUME NEW S, NEW s \in Seq(S), NEW k \in Nat, k <= Len(s), NEW i \in 1..k
  PROVE  (SubSeq(s, 1, i - 1) \o <<s[i]>>) \o SubSeq(s, i + 1, k) = SubSeq(s, 1, k)
<1> DEFINE x == SubSeq(s, 1, i - 1)
           y == SubSeq(s, i + 1, k)
           c == s[i]
           w == (x \o <<c>>) \o y
           u == SubSeq(s, 1, k)
<1>1. x \in Seq(S) /\ Len(x) = i - 1 /\ \A j \in 1..(i - 1) : x[j] = s[j]
  OBVIOUS
<1>2. y \in Seq(S) /\ Len(y) = k - i /\ \A j \in 1..(k - i) : y[j] = s[i + j]
  BY PieceIs
<1>3. u \in Seq(S) /\ Len(u) = k /\ \A j \in 1..k : u[j] = s[j]
  OBVIOUS
<1>4. c \in S
  OBVIOUS
<1> HIDE DEF x, y, c, u
<1>5. /\ w \in Seq(S) /\ Len(w) = Len(x) + 1 + Len(y)
      /\ \A j \in 1..Len(x) : w[j] = x[j]
      /\ w[Len(x) + 1] = c
      /\ \A j \in 1..Len(y) : w[Len(x) + 1 + j] = y[j]
  <2>1. w = (x \o <<c>>) \o y
    OBVIOUS
  <2> HIDE DEF w
  <2>2. w \in Seq(S) /\ Between(w, x, c, y)
    BY <1>1, <1>2, <1>4, <2>1, BehindOne
  <2> QED BY <2>2 DEF Between
<1> HIDE DEF w
<1>6. Len(w) = k
  BY <1>1, <1>2, <1>5
<1>7. ASSUME NEW j \in 1..k PROVE w[j] = s[j]
  <2>1. CASE j < i
    BY <1>1, <1>5, <2>1
  <2>2. CASE j = i
    BY <1>1, <1>5, <2>2 DEF c
  <2>3. CASE j > i
    <3>1. j - i \in 1..(k - i) /\ Len(x) + 1 + (j - i) = j /\ i + (j - i) = j
      BY <1>1, <2>3
    <3>2. w[Len(x) + 1 + (j - i)] = y[j - i]
      BY <1>2, <1>5, <3>1
    <3>3. y[j - i] = s[i + (j - i)]
      BY <1>2, <3>1
    <3> QED BY <3>1, <3>2, <3>3
  <2> QED BY <2>1, <2>2, <2>3
<1>8. w = u
  <2>1. w = [j \in 1..k |-> w[j]] /\ u = [j \in 1..k |-> u[j]]
    BY <1>3, <1>5, <1>6
  <2>2. \A j \in 1..k : w[j] = u[j]
    BY <1>3, <1>7
  <2>3. [j \in 1..k |-> w[j]] = [j \in 1..k |-> u[j]]
    BY <2>2
  <2> QED BY <2>1, <2>3, Zenon
<1> QED BY <1>8 DEF w, x, y, c, u

(* The labels of a domain, read from the last one of the cell: the domain. *)
LEMMA DomainReadsBack ==
  ASSUME NEW domain \in Seq(Byte), IsAscii(domain), NEW enc, Labelled(enc, domain),
         NEW bytes, bytes = enc[Len(domain)]
  PROVE  DomainText(bytes) = domain
<1> DEFINE n == Len(domain)
           Behind(m) == \A i \in 1..(m + 1) : bytes[n - m + i] = enc[m][i]
<1>1. domain \in Seq(Nat) /\ n \in Nat /\ n \in 0..n
  BY BytesAreNumbers
<1>2. bytes \in Seq(Nat) /\ Len(bytes) = n + 1 /\ bytes[n + 1] = 0
  <2>1. bytes \in Seq(Byte) /\ Len(bytes) = n + 1
    BY <1>1, LabelledForm
  <2>2. bytes[n + 1] = 0
    BY <1>1, LabelledEnds
  <2> QED BY <2>1, <2>2, BytesAreNumbers
<1>3. \A i \in 1..n : domain[i] # 0
  <2> SUFFICES ASSUME NEW i \in 1..n PROVE domain[i] # 0
    OBVIOUS
  <2>1. domain[i] \in Ascii /\ 0 \notin Ascii
    BY RequestsAssumption DEF IsAscii, ToSet
  <2> QED BY <2>1
<1>4. PICK text : TextOfLabels(text, bytes) /\ DomainText(bytes) = text[1]
  <2>1. Len(bytes) > 0 /\ bytes[Len(bytes)] = 0
    BY <1>1, <1>2
  <2> QED BY <1>2, <2>1, TextOfLabelsIs
<1> DEFINE Good(m) == Behind(m) => text[n + 1 - m] = SubSeq(domain, 1, m)
           T == {k \in 0..n : \A j \in 0..k : Good(j)}
<1>5. ASSUME NEW k \in 0..n, \A j \in 0..(k - 1) : Good(j), Behind(k)
      PROVE  text[n + 1 - k] = SubSeq(domain, 1, k)
  <2> DEFINE dot == DotBefore(domain, k)
             from == n + 1 - k
             e == n + 1 - dot
  <2>1. dot = DotBefore(domain, k) /\ \A i \in 1..(k + 1) : bytes[n - k + i] = enc[k][i]
    BY <1>5
  <2> HIDE DEF dot, Good, Behind
  <2>2. /\ dot \in 0..k /\ (dot > 0 => domain[dot] = Dot)
        /\ \A i \in 1..(k - dot) : enc[k][i] = domain[dot + i]
        /\ enc[k][k - dot + 1] = 0
        /\ dot > 0 => /\ dot - 1 \in 0..(k - 1)
                      /\ \A i \in 1..dot : enc[k][k - dot + 1 + i] = enc[dot - 1][i]
    <3>1. Pieces(enc, domain, k, dot)
      BY <2>1, LabelledPieces
    <3> QED BY <3>1 DEF Pieces
  <2>3. /\ from \in 1..Len(bytes) /\ e \in from..Len(bytes) /\ from \in Nat /\ e \in Nat
        /\ from = n - k + 1 /\ e - from = k - dot /\ e = n - k + (k - dot + 1)
    BY <1>1, <1>2, <2>2
  <2>4. \A i \in 1..(k - dot) : bytes[n - k + i] = domain[dot + i]
    <3> SUFFICES ASSUME NEW i \in 1..(k - dot) PROVE bytes[n - k + i] = domain[dot + i]
      OBVIOUS
    <3>1. i \in 1..(k + 1)
      BY <2>2
    <3>2. bytes[n - k + i] = enc[k][i]
      BY <2>1, <3>1
    <3> QED BY <2>2, <3>2
  <2>5. EndsAt(bytes, from, e)
    <3>1. bytes[e] = 0
      <4>1. k - dot + 1 \in 1..(k + 1)
        BY <2>2
      <4>2. bytes[n - k + (k - dot + 1)] = enc[k][k - dot + 1]
        BY <2>1, <4>1
      <4> QED BY <2>2, <2>3, <4>2
    <3>2. ASSUME NEW j \in from..(e - 1) PROVE bytes[j] # 0
      <4> DEFINE i == j - (n - k)
      <4>1. i \in 1..(k - dot) /\ n - k + i = j /\ dot + i \in 1..n
        <5>1. /\ n \in Nat /\ k \in Nat /\ k <= n /\ dot \in Nat /\ dot <= k
              /\ from \in Nat /\ e \in Nat /\ from = n - k + 1 /\ e - from = k - dot
          BY <1>1, <2>2, <2>3
        <5>2. j \in Int /\ from <= j /\ j <= e - 1
          BY <5>1
        <5> HIDE DEF n, from, e
        <5> QED BY <5>1, <5>2
      <4> HIDE DEF i
      <4> QED BY <1>3, <2>4, <4>1
    <3> QED BY <3>1, <3>2 DEF EndsAt
  <2>6. EndOf(bytes, from) = e
    <3> DEFINE f == EndOf(bytes, from)
    <3>1. f \in from..Len(bytes) /\ EndsAt(bytes, from, f)
      BY <1>2, <2>3, EndIs
    <3> HIDE DEF f
    <3>2. f \in Nat /\ from <= f /\ from <= e
      BY <2>3, <3>1
    <3> HIDE DEF from, e
    <3>3. f = e
      BY <2>3, <2>5, <3>1, <3>2, EndIsOne
    <3> QED BY <3>3 DEF f
  <2>7. ReadLabel(bytes, from) = SubSeq(domain, dot + 1, k)
    <3> DEFINE a == n - k
               b == e - 1
               R == Nat
    <3>1. /\ a \in Nat /\ b \in Nat /\ dot \in Nat /\ k \in Nat /\ a <= b /\ b <= Len(bytes)
          /\ dot <= k /\ k <= Len(domain) /\ b - a = k - dot /\ from = a + 1
      BY <1>1, <1>2, <2>2, <2>3
    <3>2. bytes \in Seq(R) /\ domain \in Seq(R)
      BY <1>1, <1>2
    <3>3. \A i \in 1..(b - a) : bytes[a + i] = domain[dot + i]
      BY <2>4, <3>1
    <3>4. ReadLabel(bytes, from) = SubSeq(bytes, from, b)
      BY <2>6 DEF ReadLabel
    <3> HIDE DEF a, b, R, from, e
    <3>5. SubSeq(bytes, a + 1, b) = SubSeq(domain, dot + 1, k)
      <4>1. Alike(bytes, a, b, domain, dot, k)
        BY <3>1, <3>3 DEF Alike
      <4>2. OnePiece(bytes, a, b, domain, dot, k)
        BY <3>1, <3>2, <4>1, SamePieces
      <4> QED BY <4>2 DEF OnePiece
    <3> QED BY <3>1, <3>4, <3>5
  <2>8. text[from] = IF e = Len(bytes) THEN ReadLabel(bytes, from)
                     ELSE text[e + 1] \o <<Dot>> \o ReadLabel(bytes, from)
    <3> HIDE DEF from, e
    <3> QED BY <1>4, <2>3, <2>6 DEF TextOfLabels
  <2>9. CASE dot = 0
    <3>1. e = Len(bytes) /\ dot + 1 = 1
      BY <1>1, <1>2, <2>9
    <3> HIDE DEF e, n
    <3> QED BY <2>7, <2>8, <3>1
  <2>10. CASE dot # 0
    <3>1. dot > 0 /\ e # Len(bytes) /\ dot - 1 \in 0..(k - 1) /\ e + 1 = n + 1 - (dot - 1)
      <4>1. /\ dot \in Nat /\ dot # 0 /\ k \in Nat /\ dot <= k /\ n \in Nat
            /\ Len(bytes) = n + 1 /\ e = n + 1 - dot
        BY <1>1, <1>2, <2>2, <2>10
      <4> HIDE DEF e, n
      <4> QED BY <4>1
    <3>2. Behind(dot - 1)
      <4> SUFFICES ASSUME NEW i \in 1..((dot - 1) + 1)
                   PROVE  bytes[n - (dot - 1) + i] = enc[dot - 1][i]
        BY DEF Behind
      <4>1. /\ i \in 1..dot /\ k - dot + 1 + i \in 1..(k + 1)
            /\ n - (dot - 1) + i = n - k + (k - dot + 1 + i)
        <5>1. n \in Nat /\ k \in Nat /\ dot \in Nat /\ dot <= k /\ i \in 1..dot
          BY <1>1, <2>2
        <5> HIDE DEF n
        <5> QED BY <5>1
      <4>2. bytes[n - k + (k - dot + 1 + i)] = enc[k][k - dot + 1 + i]
        BY <2>1, <4>1
      <4> QED BY <2>2, <3>1, <4>1, <4>2
    <3>3. text[e + 1] = SubSeq(domain, 1, dot - 1)
      <4>1. Good(dot - 1)
        BY <1>5, <3>1
      <4> QED BY <3>1, <3>2, <4>1 DEF Good
    <3>4. text[from] = (SubSeq(domain, 1, dot - 1) \o <<Dot>>) \o SubSeq(domain, dot + 1, k)
      <4> HIDE DEF e, from
      <4> QED BY <2>7, <2>8, <3>1, <3>3
    <3>5. (SubSeq(domain, 1, dot - 1) \o <<domain[dot]>>) \o SubSeq(domain, dot + 1, k)
            = SubSeq(domain, 1, k)
      <4>1. k \in Nat /\ k <= Len(domain) /\ dot \in 1..k
        BY <1>1, <2>2, <3>1
      <4> QED BY <1>1, <4>1, AroundOne
    <3>6. domain[dot] = Dot
      BY <2>2, <3>1
    <3> HIDE DEF from
    <3>7. text[from] = SubSeq(domain, 1, k)
      BY <3>4, <3>5, <3>6
    <3> QED BY <3>7 DEF from
  <2> QED BY <2>9, <2>10
<1>6. ASSUME NEW k \in 0..n, \A j \in 0..(k - 1) : Good(j) PROVE Good(k)
  BY <1>5, <1>6
<1> HIDE DEF Good
<1>7. 0 \in T
  <2>1. 0 \in 0..n /\ \A j \in 0..(0 - 1) : Good(j)
    BY <1>1
  <2>2. Good(0)
    BY <1>6, <2>1
  <2>3. \A j \in 0..0 : j = 0
    OBVIOUS
  <2> QED BY <2>1, <2>2, <2>3
<1>8. ASSUME NEW k \in 1..n, k - 1 \in T PROVE k \in T
  <2>1. \A j \in 0..(k - 1) : Good(j)
    BY <1>8
  <2>2. k \in 0..n /\ \A j \in 0..k : j = k \/ j \in 0..(k - 1)
    BY <1>1
  <2>3. Good(k)
    BY <1>6, <2>1, <2>2
  <2> QED BY <2>1, <2>2, <2>3
<1>9. \A k \in 0..n : k \in T
  <2> HIDE DEF T, n
  <2> QED BY <1>1, <1>7, <1>8, BoundedInduction
<1>10. Good(n)
  <2>1. n \in T
    <3> HIDE DEF T, n
    <3> QED BY <1>1, <1>9
  <2> HIDE DEF n
  <2> QED BY <1>1, <2>1
<1>11. Behind(n)
  <2>1. \A i \in 1..(n + 1) : n - n + i = i
    BY <1>1
  <2> QED BY <2>1
<1>12. n + 1 - n = 1 /\ SubSeq(domain, 1, n) = domain
  BY <1>1
<1>13. text[n + 1 - n] = SubSeq(domain, 1, n)
  BY <1>10, <1>11 DEF Good
<1> QED BY <1>4, <1>12, <1>13

-----------------------------------------------------------------------------
(* The lines of the review, with the bits they show.                       *)
LineShown(l) ==
  [item |-> l.item,
   shows |-> IF l.item \in {"Data hash", "Extension hash"} THEN l.body ELSE BytesBits(l.body)]
ShownOf(ls) == [i \in 1..Len(ls) |-> LineShown(ls[i])]

(* The lines of two parts are shown one part after the other.              *)
LEMMA ShownJoined ==
  ASSUME NEW S, NEW x \in Seq(S), NEW y \in Seq(S)
  PROVE  ShownOf(x \o y) = ShownOf(x) \o ShownOf(y)
<1> DEFINE both == x \o y
           T == {LineShown(l) : l \in S}
           sx == ShownOf(x)
           sy == ShownOf(y)
<1>1. /\ both \in Seq(S) /\ Len(both) = Len(x) + Len(y) /\ Len(x) \in Nat /\ Len(y) \in Nat
      /\ \A i \in 1..Len(both) : both[i] = IF i <= Len(x) THEN x[i] ELSE y[i - Len(x)]
  BY ConcatProperties
<1>2. /\ sx \in Seq(T) /\ Len(sx) = Len(x) /\ \A i \in 1..Len(x) : sx[i] = LineShown(x[i])
      /\ sy \in Seq(T) /\ Len(sy) = Len(y) /\ \A i \in 1..Len(y) : sy[i] = LineShown(y[i])
  BY DEF ShownOf
<1>3. ShownOf(both) = [i \in 1..Len(both) |-> LineShown(both[i])]
  BY DEF ShownOf
<1> HIDE DEF both, sx, sy, T
<1>4. /\ sx \o sy \in Seq(T) /\ Len(sx \o sy) = Len(both)
      /\ \A i \in 1..Len(both) : (sx \o sy)[i] = IF i <= Len(x) THEN sx[i] ELSE sy[i - Len(x)]
  BY <1>1, <1>2, ConcatProperties
<1>5. ASSUME NEW i \in 1..Len(both)
      PROVE  (sx \o sy)[i] = LineShown(both[i])
  <2>1. CASE i <= Len(x)
    <3>1. i \in 1..Len(x)
      BY <1>1, <2>1
    <3> QED BY <1>1, <1>2, <1>4, <2>1, <3>1
  <2>2. CASE ~(i <= Len(x))
    <3>1. i - Len(x) \in 1..Len(y)
      BY <1>1, <2>2
    <3> QED BY <1>1, <1>2, <1>4, <2>2, <3>1
  <2> QED BY <2>1, <2>2
<1>6. sx \o sy = [i \in 1..Len(both) |-> LineShown(both[i])]
  <2> DEFINE j == sx \o sy
  <2>1. j \in Seq(T) /\ Len(j) = Len(both) /\ Len(both) \in Nat
    BY <1>1, <1>4
  <2>2. \A i \in 1..Len(both) : j[i] = LineShown(both[i])
    BY <1>5
  <2> HIDE DEF j
  <2>3. j = [i \in 1..Len(j) |-> j[i]]
    BY <2>1
  <2>4. j = [i \in 1..Len(both) |-> LineShown(both[i])]
    BY <2>1, <2>2, <2>3
  <2> QED BY <2>4, Zenon DEF j
<1>7. ShownOf(both) = sx \o sy
  BY <1>3, <1>6, Zenon
<1> QED BY <1>7, Zenon DEF both, sx, sy

(* What one line shows: a hash as it is, all else in bits.                 *)
LEMMA ShownOne ==
  ASSUME NEW item, NEW body
  PROVE  /\ item \notin {"Data hash", "Extension hash"}
              => ShownOf(<<Line(item, body)>>) = Shown(item, BytesBits(body))
         /\ item \in {"Data hash", "Extension hash"}
              => ShownOf(<<Line(item, body)>>) = Shown(item, body)
<1> DEFINE l == [item |-> item, body |-> body]
<1>1. ShownOf(<<Line(item, body)>>) = <<LineShown(l)>>
  <2>1. Len(<<l>>) = 1 /\ <<l>>[1] = l
    OBVIOUS
  <2> HIDE DEF l
  <2>2. [i \in 1..Len(<<l>>) |-> LineShown(<<l>>[i])] = <<LineShown(l)>>
    BY <2>1
  <2> QED BY <2>2 DEF ShownOf, Line, l
<1>2. l.item = item /\ l.body = body
  OBVIOUS
<1> HIDE DEF l
<1>3. CASE item \notin {"Data hash", "Extension hash"}
  <2>1. LineShown(l) = [item |-> item, shows |-> BytesBits(body)]
    BY <1>2, <1>3 DEF LineShown
  <2> QED BY <1>1, <1>3, <2>1 DEF Shown
<1>4. CASE item \in {"Data hash", "Extension hash"}
  <2>1. LineShown(l) = [item |-> item, shows |-> body]
    BY <1>2, <1>4 DEF LineShown
  <2> QED BY <1>1, <1>4, <2>1 DEF Shown
<1> QED BY <1>3, <1>4

(* No line shows nothing.                                                  *)
LEMMA ShownNone == ShownOf(<<>>) = <<>>
<1> DEFINE none == [i \in 1..Len(<<>>) |-> LineShown(<<>>[i])]
           T == {LineShown(<<>>[i]) : i \in 1..Len(<<>>)}
<1>1. Len(<<>>) = 0
  OBVIOUS
<1>2. none \in Seq(T) /\ Len(none) = 0
  BY <1>1
<1> HIDE DEF none, T
<1>3. none = <<>>
  BY <1>2, EmptySeq
<1>4. ShownOf(<<>>) = none
  BY Zenon DEF ShownOf, none
<1> QED BY <1>3, <1>4, Zenon

(* The titles of the lines.                                                *)
LEMMA AppLinesShown ==
  ASSUME NEW body
  PROVE  /\ ShownOf(<<Line("Contract address", body)>>) = Shown("Contract address", BytesBits(body))
         /\ ShownOf(<<Line("App domain", body)>>) = Shown("App domain", BytesBits(body))
         /\ ShownOf(<<Line("Text", body)>>) = Shown("Text", BytesBits(body))
         /\ ShownOf(<<Line("Data hash", body)>>) = Shown("Data hash", body)
         /\ ShownOf(<<Line("Extension hash", body)>>) = Shown("Extension hash", body)
<1>1. "Contract address" \notin {"Data hash", "Extension hash"}
  OBVIOUS
<1>2. "App domain" \notin {"Data hash", "Extension hash"}
  OBVIOUS
<1>3. "Text" \notin {"Data hash", "Extension hash"}
  OBVIOUS
<1>4. "Data hash" \in {"Data hash", "Extension hash"}
  OBVIOUS
<1>5. "Extension hash" \in {"Data hash", "Extension hash"}
  OBVIOUS
<1> QED BY <1>1, <1>2, <1>3, <1>4, <1>5, ShownOne, Zenon

-----------------------------------------------------------------------------
(* Nothing is left over when bytes are counted in their bits.              *)
NothingOver(d, q) == (d * q) % d = 0

LEMMA WholeBytes == ASSUME NEW d \in Nat \ {0}, NEW q \in Nat PROVE NothingOver(d, q)
<1>1. 0 \in 0..(d - 1) /\ d * q + 0 = d * q
  OBVIOUS
<1>2. (d * q + 0) % d = 0
  OBVIOUS
<1> QED BY <1>1, <1>2 DEF NothingOver

(* The cell of a domain has whole bytes, the last of them zero.            *)
LEMMA DomainIsOne ==
  ASSUME NEW bytes \in Seq(Byte), NEW k \in Nat \ {0}, Len(bytes) = k, bytes[k] = 0, NEW ref,
         CellOf(ref.hash) = [bits |-> BytesBits(bytes), refs |-> <<>>]
  PROVE  IsDomain(ref)
<1> DEFINE w == BytesBits(bytes)
           B == ByteBits
           p == B * k
<1>1. bytes \in Seq(Nat) /\ B \in Nat \ {0}
  BY BytesAreNumbers, WidthsAssumption
<1>2. w \in Seq(Bit) /\ Len(w) = p
  BY <1>1, BytesBitsType
<1>3. p \in Nat \ {0} /\ p % B = 0 /\ (k - 1) * B + 1 = p - B + 1 /\ k * B = p
  <2> HIDE DEF B
  <2>1. p \in Nat \ {0}
    BY <1>1
  <2>2. k * B = p /\ (k - 1) * B = p - B
    BY <1>1
  <2>5. p % B = 0
    <3> HIDE DEF p
    <3>1. B * k = p
      BY DEF p
    <3>2. NothingOver(B, k)
      BY <1>1, WholeBytes
    <3> QED BY <3>1, <3>2 DEF NothingOver
  <2>6. (k - 1) * B + 1 = p - B + 1
    BY <2>2
  <2> QED BY <2>1, <2>2, <2>5, <2>6
<1>4. SubSeq(w, (k - 1) * B + 1, k * B) = UintBits(0, B)
  <2>1. k \in 1..Len(bytes)
    OBVIOUS
  <2>2. SubSeq(BytesBits(bytes), (k - 1) * ByteBits + 1, k * ByteBits) = UintBits(bytes[k], ByteBits)
    BY <1>1, <2>1, BitsOfByte
  <2> QED BY <2>2
<1> HIDE DEF w, B, p
<1>5. SubSeq(w, Len(w) - B + 1, Len(w)) = UintBits(0, B)
  BY <1>2, <1>3, <1>4
<1>6. Len(w) % B = 0 /\ w # <<>>
  <2>1. Len(<<>>) = 0
    OBVIOUS
  <2> QED BY <1>2, <1>3, <2>1
<1>7. CellOf(ref.hash).bits = w /\ CellOf(ref.hash).refs = <<>>
  BY DEF w
<1> QED BY <1>5, <1>6, <1>7 DEF IsDomain, B

(* The cell a domain is in is read as the domain of the line.              *)
LEMMA DomainShown ==
  ASSUME NEW d \in [Names -> Seq(Byte)], Sized(8, d), Is(d.has_domain)
  PROVE  /\ IsDomain(DomainCell(d))
         /\ DomainText(BitsBytes(CellOf(DomainCell(d).hash).bits)) = d.domain
<1>1. PICK enc, bytes :
        /\ Labelled(enc, d.domain) /\ bytes = enc[Len(d.domain)]
        /\ bytes \in Seq(Byte) /\ Len(bytes) = Len(d.domain) + 1
        /\ CellOf(DomainCell(d).hash) = [bits |-> BytesBits(bytes), refs |-> <<>>]
  BY DomainCellIs
<1>2. d.domain \in Seq(Byte) /\ IsAscii(d.domain)
  BY DEF Names, Sized
<1> DEFINE n == Len(d.domain)
           k == n + 1
<1>3. n \in Nat /\ n \in 0..n /\ k \in Nat \ {0}
  BY <1>2
<1>4. enc[n][n + 1] = 0
  BY <1>1, <1>2, <1>3, LabelledEnds
<1>5. bytes[k] = 0 /\ Len(bytes) = k
  BY <1>1, <1>4
<1> HIDE DEF k
<1>6. IsDomain(DomainCell(d))
  BY <1>1, <1>3, <1>5, DomainIsOne
<1>7. BitsBytes(CellOf(DomainCell(d).hash).bits) = bytes
  <2> DEFINE w == BytesBits(bytes)
  <2>1. BitsBytes(w) = bytes
    BY <1>1, BytesOfBits
  <2>2. CellOf(DomainCell(d).hash).bits = w
    BY <1>1
  <2> QED BY <2>1, <2>2, Zenon
<1>8. DomainText(bytes) = d.domain
  BY <1>1, <1>2, DomainReadsBack
<1> QED BY <1>6, <1>7, <1>8

(* An address that is there has bits.                                      *)
LEMMA AddrIsThere ==
  ASSUME NEW d \in [Names -> Seq(Byte)], Sized(8, d), Is(d.has_address)
  PROVE  AddrRead(d) = BytesBits(d.addr) /\ AddrRead(d) # <<>>
<1> DEFINE x == BytesBits(d.addr)
           p == ByteBits * (1 + HashLen)
<1>1. d.addr \in Seq(Nat)
  <2>1. d.addr \in Seq(Byte)
    BY DEF Names
  <2> QED BY <2>1, BytesAreNumbers
<1>2. Len(d.addr) = 1 + HashLen
  BY DEF Sized
<1>3. Len(x) = p
  BY <1>1, <1>2, BytesBitsType
<1>4. p \in Nat \ {0}
  <2>1. \A a, b \in Nat \ {0} : a * b \in Nat \ {0}
    OBVIOUS
  <2>2. ByteBits \in Nat \ {0} /\ 1 + HashLen \in Nat \ {0}
    BY WidthsAssumption
  <2> QED BY <2>1, <2>2, Zenon
<1> HIDE DEF x, p
<1>5. x # <<>>
  <2>1. Len(<<>>) = 0
    OBVIOUS
  <2> QED BY <1>3, <1>4, <2>1
<1> QED BY <1>5 DEF AddrRead, x

(* What is read of app data, and the lines of its review.                  *)
ReadAs(v, d) ==
  /\ v.address = AddrRead(d) /\ v.domain = RefOf(DomainRefs(d))
  /\ v.data = CellRef(d.data) /\ v.ext = RefOf(ExtRefs(d))

AddrReview(v)   == IF v.address = <<>> THEN <<>> ELSE Shown("Contract address", v.address)
DomainReview(v) ==
  IF v.domain = <<>> THEN <<>>
  ELSE Shown("App domain", BytesBits(DomainText(BitsBytes(CellOf(v.domain.hash).bits))))
ExtReview(v)    == IF v.ext = <<>> THEN <<>> ELSE Shown("Extension hash", v.ext.hash)

(* After the last field a part is there or not.                            *)
LEMMA PartWhole ==
  ASSUME NEW flag, NEW i \in 1..8, NEW k \in 1..8, NEW absent, NEW present
  PROVE  PartAfter(8, flag, i, k, absent, present) = IF Is(flag) THEN present ELSE absent
<1>1. ~(8 < i) /\ ~(8 < k)
  OBVIOUS
<1> QED BY <1>1 DEF PartAfter

(* So are the lines.                                                       *)
LEMMA LinesWhole ==
  ASSUME NEW d
  PROVE  /\ AddrLine(8, d) = IF Is(d.has_address) THEN <<Line("Contract address", d.addr)>>
                             ELSE <<>>
         /\ DomainLine(8, d) = IF Is(d.has_domain) THEN <<Line("App domain", d.domain)>>
                               ELSE <<>>
         /\ ExtLine(8, d) = IF Is(d.has_ext)
                            THEN <<Line("Extension hash", CellRef(d.ext).hash)>> ELSE <<>>
<1>1. 1 \in 1..8 /\ 2 \in 1..8 /\ 3 \in 1..8 /\ 5 \in 1..8 /\ 7 \in 1..8 /\ 8 \in 1..8
  OBVIOUS
<1> DEFINE a == <<Line("Contract address", d.addr)>>
           b == <<Line("App domain", d.domain)>>
           c == <<Line("Extension hash", CellRef(d.ext).hash)>>
           none == <<>>
<1>2. /\ AddrLine(8, d) = PartAfter(8, d.has_address, 1, 2, none, a)
      /\ DomainLine(8, d) = PartAfter(8, d.has_domain, 3, 5, none, b)
      /\ ExtLine(8, d) = PartAfter(8, d.has_ext, 7, 8, none, c)
  BY Zenon DEF AddrLine, DomainLine, ExtLine
<1> HIDE DEF a, b, c, none
<1>3. PartAfter(8, d.has_address, 1, 2, none, a) = IF Is(d.has_address) THEN a ELSE none
  BY <1>1, PartWhole
<1>4. PartAfter(8, d.has_domain, 3, 5, none, b) = IF Is(d.has_domain) THEN b ELSE none
  BY <1>1, PartWhole
<1>5. PartAfter(8, d.has_ext, 7, 8, none, c) = IF Is(d.has_ext) THEN c ELSE none
  BY <1>1, PartWhole
<1> QED BY <1>2, <1>3, <1>4, <1>5, Zenon DEF a, b, c, none

(* The line of the address.                                                *)
LEMMA AddrLineShown ==
  ASSUME NEW d \in [Names -> Seq(Byte)], Sized(8, d), NEW v, ReadAs(v, d)
  PROVE  ShownOf(AddrLine(8, d)) = AddrReview(v)
<1>1. v.address = AddrRead(d)
  BY DEF ReadAs
<1>2. CASE Is(d.has_address)
  <2>1. AddrLine(8, d) = <<Line("Contract address", d.addr)>>
    BY <1>2, LinesWhole, Zenon
  <2>2. v.address = BytesBits(d.addr) /\ v.address # <<>>
    BY <1>1, <1>2, AddrIsThere
  <2>3. AddrReview(v) = Shown("Contract address", BytesBits(d.addr))
    BY <2>2, Zenon DEF AddrReview
  <2> QED BY <2>1, <2>3, AppLinesShown, Zenon
<1>3. CASE ~Is(d.has_address)
  <2>1. AddrLine(8, d) = <<>>
    BY <1>3, LinesWhole, Zenon
  <2>2. v.address = <<>>
    BY <1>1, <1>3 DEF AddrRead
  <2>3. AddrReview(v) = <<>>
    BY <2>2, Zenon DEF AddrReview
  <2> QED BY <2>1, <2>3, ShownNone, Zenon
<1> QED BY <1>2, <1>3

(* The line of the domain.                                                 *)
LEMMA DomainLineShown ==
  ASSUME NEW d \in [Names -> Seq(Byte)], Sized(8, d), NEW v, ReadAs(v, d)
  PROVE  /\ ShownOf(DomainLine(8, d)) = DomainReview(v)
         /\ v.domain # <<>> => IsDomain(v.domain)
<1>1. v.domain = RefOf(DomainRefs(d))
  BY DEF ReadAs
<1>2. CASE Is(d.has_domain)
  <2>1. DomainLine(8, d) = <<Line("App domain", d.domain)>>
    BY <1>2, LinesWhole, Zenon
  <2>2. v.domain = DomainCell(d) /\ v.domain # <<>>
    <3> DEFINE c == DomainCell(d)
    <3>1. c \in References
      BY <1>2, AppRefTypes
    <3> HIDE DEF c
    <3>2. c # <<>>
      BY <3>1, RefIsThere
    <3>3. DomainRefs(d) = <<c>>
      BY <1>2 DEF DomainRefs, c
    <3>4. RefOf(<<c>>) = c
      BY DEF RefOf
    <3> QED BY <1>1, <3>2, <3>3, <3>4 DEF c
  <2>3. /\ IsDomain(v.domain)
        /\ DomainText(BitsBytes(CellOf(v.domain.hash).bits)) = d.domain
    BY <1>2, <2>2, DomainShown
  <2>4. DomainReview(v) = Shown("App domain", BytesBits(d.domain))
    BY <2>2, <2>3, Zenon DEF DomainReview
  <2>5. ShownOf(DomainLine(8, d)) = DomainReview(v)
    BY <2>1, <2>4, AppLinesShown, Zenon
  <2> QED BY <2>3, <2>5
<1>3. CASE ~Is(d.has_domain)
  <2>1. DomainLine(8, d) = <<>>
    BY <1>3, LinesWhole, Zenon
  <2>2. v.domain = <<>>
    BY <1>1, <1>3 DEF DomainRefs, RefOf
  <2>3. DomainReview(v) = <<>>
    BY <2>2, Zenon DEF DomainReview
  <2>4. ShownOf(DomainLine(8, d)) = DomainReview(v)
    BY <2>1, <2>3, ShownNone, Zenon
  <2> QED BY <2>2, <2>4
<1> QED BY <1>2, <1>3

(* The line of the extension.                                              *)
LEMMA ExtLineShown ==
  ASSUME NEW d \in [Names -> Seq(Byte)], Sized(8, d), NEW v, ReadAs(v, d)
  PROVE  ShownOf(ExtLine(8, d)) = ExtReview(v)
<1>1. v.ext = RefOf(ExtRefs(d))
  BY DEF ReadAs
<1>2. CASE Is(d.has_ext)
  <2>1. ExtLine(8, d) = <<Line("Extension hash", CellRef(d.ext).hash)>>
    BY <1>2, LinesWhole, Zenon
  <2>2. v.ext = CellRef(d.ext) /\ v.ext # <<>>
    <3> DEFINE c == CellRef(d.ext)
    <3>1. c \in References
      <4>1. d.ext \in Seq(Nat)
        <5>1. d.ext \in Seq(Byte)
          BY DEF Names
        <5> QED BY <5>1, BytesAreNumbers
      <4>2. Len(d.ext) = ShortLen + HashLen
        BY <1>2 DEF Sized
      <4> QED BY <4>1, <4>2, CellRefType
    <3> HIDE DEF c
    <3>2. c # <<>>
      BY <3>1, RefIsThere
    <3>3. ExtRefs(d) = <<c>>
      BY <1>2 DEF ExtRefs, c
    <3>4. RefOf(<<c>>) = c
      BY DEF RefOf
    <3> QED BY <1>1, <3>2, <3>3, <3>4 DEF c
  <2>3. ExtReview(v) = Shown("Extension hash", CellRef(d.ext).hash)
    BY <2>2, Zenon DEF ExtReview
  <2> QED BY <2>1, <2>3, AppLinesShown, Zenon
<1>3. CASE ~Is(d.has_ext)
  <2>1. ExtLine(8, d) = <<>>
    BY <1>3, LinesWhole, Zenon
  <2>2. v.ext = <<>>
    BY <1>1, <1>3 DEF ExtRefs, RefOf
  <2>3. ExtReview(v) = <<>>
    BY <2>2, Zenon DEF ExtReview
  <2> QED BY <2>1, <2>3, ShownNone, Zenon
<1> QED BY <1>2, <1>3

(* The lines of app data show what a contract reads in its cell.           *)
LEMMA AppIsShown ==
  ASSUME NEW d \in [Names -> Seq(Byte)], Sized(8, d), NEW v, ReadAs(v, d)
  PROVE  ShownOf(LinesAfter(8, d)) = AppReview(v)
<1> DEFINE A == AddrLine(8, d)
           D == DomainLine(8, d)
           C == DataLine(8, d)
           X == ExtLine(8, d)
           L == LineSet(d)
           sc == Shown("Data hash", v.data.hash)
<1>1. A \in Seq(L) /\ D \in Seq(L) /\ C \in Seq(L) /\ X \in Seq(L)
  <2>1. RefSet(d) \subseteq RefSet(d) /\ LineSet(d) \subseteq LineSet(d)
    OBVIOUS
  <2> QED BY <2>1, OtherPartTypes, Zenon
<1>2. /\ ShownOf(A) = AddrReview(v) /\ ShownOf(D) = DomainReview(v)
      /\ ShownOf(X) = ExtReview(v)
  BY AddrLineShown, DomainLineShown, ExtLineShown
<1>3. ShownOf(C) = sc
  <2>1. C = <<Line("Data hash", CellRef(d.data).hash)>>
    BY DEF DataLine
  <2>2. v.data.hash = CellRef(d.data).hash
    BY DEF ReadAs
  <2> HIDE DEF C
  <2> QED BY <2>1, <2>2, AppLinesShown, Zenon
<1>4. LinesAfter(8, d) = ((A \o D) \o C) \o X
  BY AreParts, Zenon
<1>5. AppReview(v) = ((AddrReview(v) \o DomainReview(v)) \o sc) \o ExtReview(v)
  BY Zenon DEF AppReview, AddrReview, DomainReview, ExtReview
<1> HIDE DEF A, D, C, X, L, sc
<1>6. \A x, y \in Seq(L) : x \o y \in Seq(L)
  OBVIOUS
<1>7. A \o D \in Seq(L) /\ (A \o D) \o C \in Seq(L)
  BY <1>1, <1>6, Zenon
<1>8. ShownOf(A \o D) = ShownOf(A) \o ShownOf(D)
  BY <1>1, ShownJoined, Zenon
<1>9. ShownOf((A \o D) \o C) = ShownOf(A \o D) \o ShownOf(C)
  BY <1>1, <1>7, ShownJoined, Zenon
<1>10. ShownOf(((A \o D) \o C) \o X) = ShownOf((A \o D) \o C) \o ShownOf(X)
  BY <1>1, <1>7, ShownJoined, Zenon
<1> QED BY <1>2, <1>3, <1>4, <1>5, <1>8, <1>9, <1>10, Zenon

-----------------------------------------------------------------------------
(* A text in one cell.                                                     *)
LEMMA SnakeOfOne ==
  ASSUME NEW w, NEW c, c = [bits |-> w, refs |-> <<>>]
  PROVE  SnakeText(c).ok /\ SnakeText(c).bits = w
<1> DEFINE step(x) ==
             IF x.refs = <<>> THEN x
             ELSE LET next == CellOf(x.refs[1].hash)
                  IN  [bits |-> x.bits \o next.bits, refs |-> next.refs]
           Steps(g) == g = [n \in Nat |-> IF n = 0 THEN c ELSE step(g[n - 1])]
           h == [n \in Nat |-> c]
           walk == CHOOSE g : Steps(g)
<1>1. c.bits = w /\ c.refs = <<>>
  OBVIOUS
<1>2. step(c) = c
  BY <1>1
<1>3. Steps(h)
  <2>1. \A n \in Nat : n # 0 => h[n - 1] = c
    OBVIOUS
  <2> HIDE DEF step
  <2> QED BY <1>2, <2>1
<1>4. Steps(walk)
  <2> HIDE DEF h
  <2> QED BY <1>3
<1> DEFINE end == walk[IF c.refs = <<>> THEN 0 ELSE c.refs[1].max_depth + 1]
<1>5. SnakeText(c) = [ok |-> end.refs = <<>>, bits |-> end.bits]
  BY Zenon DEF SnakeText
<1> HIDE DEF walk
<1>6. walk[0] = c
  <2> HIDE DEF step
  <2> QED BY <1>4
<1>7. end = c
  BY <1>1, <1>6
<1> HIDE DEF end
<1>8. SnakeText(c) = [ok |-> TRUE, bits |-> w]
  BY <1>1, <1>5, <1>7
<1> QED BY <1>8

(* A text in two cells: the walk goes on to the second and stops.          *)
LEMMA SnakeOfTwo ==
  ASSUME NEW x, NEW y, NEW ref, ref.max_depth = 0,
         CellOf(ref.hash) = [bits |-> y, refs |-> <<>>],
         NEW c, c = [bits |-> x, refs |-> <<ref>>]
  PROVE  SnakeText(c).ok /\ SnakeText(c).bits = x \o y
<1> DEFINE step(u) ==
             IF u.refs = <<>> THEN u
             ELSE LET next == CellOf(u.refs[1].hash)
                  IN  [bits |-> u.bits \o next.bits, refs |-> next.refs]
           Steps(g) == g = [n \in Nat |-> IF n = 0 THEN c ELSE step(g[n - 1])]
           whole == [bits |-> x \o y, refs |-> <<>>]
           h == [n \in Nat |-> IF n = 0 THEN c ELSE whole]
           walk == CHOOSE g : Steps(g)
<1>1. c.bits = x /\ c.refs = <<ref>> /\ c.refs # <<>> /\ c.refs[1] = ref
  OBVIOUS
<1>2. step(c) = whole
  <2>1. CellOf(c.refs[1].hash).bits = y /\ CellOf(c.refs[1].hash).refs = <<>>
    BY <1>1
  <2> QED BY <1>1, <2>1
<1>3. step(whole) = whole /\ whole.bits = x \o y /\ whole.refs = <<>>
  OBVIOUS
<1> HIDE DEF whole, step
<1>4. Steps(h)
  <2>1. \A n \in Nat : n # 0 => n - 1 \in Nat /\ (n - 1 = 0 \/ h[n - 1] = whole)
    OBVIOUS
  <2>2. h[0] = c
    OBVIOUS
  <2>3. \A n \in Nat : n # 0 => step(h[n - 1]) = whole
    <3> HIDE DEF h
    <3> QED BY <1>2, <1>3, <2>1, <2>2
  <2>4. \A n \in Nat : h[n] = IF n = 0 THEN c ELSE step(h[n - 1])
    BY <2>3
  <2>5. h = [n \in Nat |-> h[n]]
    OBVIOUS
  <2> HIDE DEF h
  <2> QED BY <2>4, <2>5
<1>5. Steps(walk)
  <2> HIDE DEF h
  <2> QED BY <1>4
<1> DEFINE end == walk[IF c.refs = <<>> THEN 0 ELSE c.refs[1].max_depth + 1]
<1>6. SnakeText(c) = [ok |-> end.refs = <<>>, bits |-> end.bits]
  BY Zenon DEF SnakeText, step
<1> HIDE DEF walk
<1>7. walk[0] = c /\ walk[1] = step(walk[0])
  <2>1. 0 \in Nat /\ 1 \in Nat /\ 1 # 0 /\ 1 - 1 = 0
    OBVIOUS
  <2>2. \A n \in Nat : walk[n] = IF n = 0 THEN c ELSE step(walk[n - 1])
    BY <1>5
  <2> QED BY <2>1, <2>2
<1>8. end = whole
  <2>1. end = walk[ref.max_depth + 1] /\ ref.max_depth + 1 = 1
    BY <1>1
  <2> HIDE DEF end
  <2> QED BY <1>2, <1>7, <2>1
<1> HIDE DEF end
<1>9. SnakeText(c) = [ok |-> TRUE, bits |-> x \o y]
  BY <1>3, <1>6, <1>8
<1> QED BY <1>9

(* The line of a text shows what a reader of the cells puts together.      *)
LEMMA TextIsShown ==
  ASSUME RequestInCell, Accepted, SchemaRead = Plaintext
  PROVE  /\ SnakeText(CellOf(cell)).ok
         /\ LinesShown = Shown("Text", SnakeText(CellOf(cell)).bits)
<1>1. /\ cell = Representation(bits, refs) /\ TextRead /\ InData(buf)
      /\ WordLen + LongLen <= buf.offset
  BY DEF RequestInCell, HeaderRead
<1>2. /\ TextOf \in Seq(Byte) /\ lines = <<Line("Text", TextOf)>>
      /\ OneCellText(TextOf) \/ \E a, b, link : TwoCellText(TextOf, a, b, link)
  BY <1>1, TextIsInCells
<1>3. LinesShown = Shown("Text", BytesBits(TextOf))
  <2>1. LinesShown = ShownOf(lines)
    BY Zenon DEF LinesShown, ShownOf, LineShown
  <2> QED BY <1>2, <2>1, AppLinesShown, Zenon
<1>4. CASE OneCellText(TextOf)
  <2>1. Holds(bits, BytesBits(TextOf)) /\ refs = <<>>
    BY <1>4 DEF OneCellText
  <2>2. CellOf(Representation(bits, refs)) = [bits |-> BytesBits(TextOf), refs |-> <<>>]
    BY <2>1, NoRefReadsBack, Zenon
  <2>3. SnakeText(CellOf(cell)).ok /\ SnakeText(CellOf(cell)).bits = BytesBits(TextOf)
    BY <1>1, <2>2, SnakeOfOne, Zenon
  <2> QED BY <1>3, <2>3
<1>5. CASE \E a, b, link : TwoCellText(TextOf, a, b, link)
  <2>1. PICK a, b, link : TwoCellText(TextOf, a, b, link)
    BY <1>5
  <2>2. /\ Holds(bits, BytesBits(a)) /\ refs = <<link>> /\ link.max_depth = 0
        /\ link = [max_depth |-> 0, hash |-> link.hash]
        /\ CellOf(link.hash) = [bits |-> BytesBits(b), refs |-> <<>>]
        /\ a \in Seq(Byte) /\ b \in Seq(Byte) /\ TextOf = a \o b
    BY <2>1 DEF TwoCellText
  <2>3. CellOf(Representation(bits, refs)) = [bits |-> BytesBits(a), refs |-> <<link>>]
    BY <2>2, OneRefReadsBack, Zenon
  <2>4. /\ SnakeText(CellOf(cell)).ok
        /\ SnakeText(CellOf(cell)).bits = BytesBits(a) \o BytesBits(b)
    BY <1>1, <2>2, <2>3, SnakeOfTwo, Zenon
  <2>5. BytesBits(TextOf) = BytesBits(a) \o BytesBits(b)
    BY <2>2, BytesAreNumbers, BytesBitsJoined
  <2> QED BY <1>3, <2>4, <2>5
<1> QED BY <1>2, <1>4, <1>5

-----------------------------------------------------------------------------
(* The signed cell is hashed from a sequence.                              *)
LEMMA RootIsSequence ==
  ASSUME NEW t, NEW w, Holds(t, w), NEW links, NEW R, links \in Seq(R),
         \A r \in R : r.max_depth \in Nat /\ r = [max_depth |-> r.max_depth, hash |-> r.hash]
  PROVE  \E H : Representation(t, links) \in Seq(Nat \cup H)
<1> DEFINE H == {r.hash : r \in R}
           All == [max_depth : Nat, hash : H]
<1>1. R \subseteq All
  <2> SUFFICES ASSUME NEW r \in R PROVE r \in All
    OBVIOUS
  <2>1. r.hash \in H /\ r.max_depth \in Nat
    OBVIOUS
  <2> HIDE DEF H
  <2>2. [max_depth |-> r.max_depth, hash |-> r.hash] \in All
    BY <2>1
  <2> QED BY <2>2
<1> HIDE DEF All
<1>2. links \in Seq(All)
  BY <1>1, SeqOfMore, Zenon
<1> HIDE DEF H
<1>3. Representation(t, links) \in Seq(Nat \cup H)
  BY <1>2, RepresentationType DEF All
<1> QED BY <1>3

(* So it is for each schema.                                               *)
LEMMA CellIsSequence ==
  ASSUME RequestInCell, Accepted
  PROVE  \E H : cell \in Seq(Nat \cup H)
<1>1. /\ cell = Representation(bits, refs) /\ InData(buf) /\ HeaderRead
      /\ data \in [Names -> Seq(Byte)]
      /\ IF SchemaRead = Plaintext THEN TextRead
         ELSE SchemaRead = AppData /\ AppRead(8, data, bits, refs, lines)
  BY DataNames DEF RequestInCell
<1> DEFINE Ok(R) ==
             /\ refs \in Seq(R)
             /\ \A r \in R : r.max_depth \in Nat /\ r = [max_depth |-> r.max_depth, hash |-> r.hash]
<1>2. ASSUME NEW w, Holds(bits, w), NEW R, Ok(R) PROVE \E H : cell \in Seq(Nat \cup H)
  BY <1>1, <1>2, RootIsSequence
<1>3. CASE SchemaRead = Plaintext
  <2>1. OneCellText(TextOf) \/ \E a, b, link : TwoCellText(TextOf, a, b, link)
    BY <1>1, <1>3, TextIsInCells DEF HeaderRead
  <2>2. CASE OneCellText(TextOf)
    <3>1. Holds(bits, BytesBits(TextOf)) /\ refs = <<>>
      BY <2>2 DEF OneCellText
    <3> DEFINE R == {}
    <3>2. Ok(R)
      BY <3>1
    <3> HIDE DEF Ok, R
    <3> QED BY <1>2, <3>1, <3>2
  <2>3. CASE \E a, b, link : TwoCellText(TextOf, a, b, link)
    <3>1. PICK a, b, link : TwoCellText(TextOf, a, b, link)
      BY <2>3
    <3>2. /\ Holds(bits, BytesBits(a)) /\ refs = <<link>> /\ link.max_depth = 0
          /\ link = [max_depth |-> 0, hash |-> link.hash]
      BY <3>1 DEF TwoCellText
    <3>3. Ok({link})
      <4>1. refs \in Seq({link})
        BY <3>2
      <4>2. link.max_depth \in Nat /\ link = [max_depth |-> link.max_depth, hash |-> link.hash]
        BY <3>2
      <4> QED BY <4>1, <4>2, Zenon
    <3> QED BY <1>2, <3>2, <3>3
  <2> QED BY <2>1, <2>2, <2>3
<1>4. CASE SchemaRead # Plaintext
  <2>1. Holds(bits, BitsAfter(8, data)) /\ refs = RefsAfter(8, data) /\ Sized(8, data)
    BY <1>1, <1>4 DEF AppRead, Holds
  <2>2. Ok(OwnRefs(data) \cup GivenRefs(data))
    BY <1>1, <2>1, AppRefsAre, AppRefForms
  <2> HIDE DEF Ok
  <2> QED BY <1>2, <2>1, <2>2
<1> QED BY <1>3, <1>4

(* The pieces of what is signed.                                           *)
LEMMA ThreePieces ==
  ASSUME NEW S, NEW a \in Seq(S), NEW b \in Seq(S), NEW c \in Seq(S), NEW w, w = (a \o b) \o c,
         NEW m, m = Len(a), NEW n, n = Len(b)
  PROVE  /\ SubSeq(w, 1, m) = a /\ SubSeq(w, m + 1, m + n) = b
         /\ SubSeq(w, m + n + 1, Len(w)) = c
OBVIOUS

(* They are the schema and the time of the request, and the cell.          *)
LEMMA SignedPieces ==
  ASSUME RequestInCell, status = "signed"
  PROVE  /\ SignedSchema = SchemaRead /\ SignedTime = data.timestamp /\ SignedCell = cell
         /\ HeaderRead
<1>1. /\ signed = (data.schema_crc \o data.timestamp) \o cell /\ pc = "request" /\ HeaderRead
      /\ data \in [Names -> Seq(Byte)]
  BY DataNames DEF RequestInCell, Accepted
<1>2. PICK H : cell \in Seq(Nat \cup H)
  BY CellIsSequence DEF Accepted
<1>3. Len(data.schema_crc) = WordLen /\ Len(data.timestamp) = LongLen
  BY <1>1, HeaderLengths
<1> DEFINE S == Nat \cup H
           a == data.schema_crc
           b == data.timestamp
<1>4. a \in Seq(S) /\ b \in Seq(S) /\ cell \in Seq(S)
  <2>1. a \in Seq(Byte) /\ b \in Seq(Byte)
    BY <1>1 DEF Names
  <2>2. a \in Seq(Nat) /\ b \in Seq(Nat)
    BY <2>1, BytesAreNumbers
  <2>3. Nat \subseteq S
    OBVIOUS
  <2> HIDE DEF S, a, b
  <2>4. a \in Seq(S) /\ b \in Seq(S)
    BY <2>2, <2>3, SeqOfMore
  <2> QED BY <1>2, <2>4 DEF S
<1> HIDE DEF S, a, b
<1>5. signed = (a \o b) \o cell /\ WordLen = Len(a) /\ LongLen = Len(b)
  BY <1>1, <1>3 DEF a, b
<1>6. /\ SubSeq(signed, 1, WordLen) = a
      /\ SubSeq(signed, WordLen + 1, WordLen + LongLen) = b
      /\ SubSeq(signed, WordLen + LongLen + 1, Len(signed)) = cell
  BY <1>4, <1>5, ThreePieces
<1> QED BY <1>1, <1>6 DEF SignedSchema, SignedTime, SignedCell, SchemaRead, a, b

(* What is signed is shown, for a text and for app data.                   *)
LEMMA SignedIsShown == ASSUME RequestInCell PROVE LinesDescribeCell
<1> SUFFICES ASSUME status = "signed" PROVE LinesDescribeCell
  BY DEF LinesDescribeCell
<1> DEFINE text == SnakeText(CellOf(cell))
           app == ReadBy(AppSchema, CellOf(cell))
<1>1. /\ SignedSchema = SchemaRead /\ SignedTime = data.timestamp /\ SignedCell = cell
      /\ HeaderRead /\ Accepted
  BY SignedPieces DEF Accepted
<1>2. /\ SignedSchema = BytesNumber(SubSeq(buf.ptr, 1, WordLen))
      /\ SignedTime = SubSeq(buf.ptr, WordLen + 1, WordLen + LongLen)
  BY <1>1 DEF HeaderRead, SchemaRead
<1>3. CASE SchemaRead = Plaintext
  <2>1. text.ok /\ LinesShown = Shown("Text", text.bits)
    BY <1>1, <1>3, TextIsShown
  <2> HIDE DEF text
  <2> QED BY <1>1, <1>2, <1>3, <2>1, Zenon DEF LinesDescribeCell, text
<1>4. CASE SchemaRead # Plaintext
  <2> DEFINE d == data
  <2>1. /\ cell = Representation(bits, refs) /\ SchemaRead = AppData
        /\ AppRead(8, d, bits, refs, lines) /\ d \in [Names -> Seq(Byte)]
    BY <1>1, <1>4, DataNames DEF RequestInCell
  <2>2. /\ CellOf(cell) = [bits |-> BitsAfter(8, d), refs |-> refs]
        /\ refs = RefsAfter(8, d) /\ lines = LinesAfter(8, d) /\ Sized(8, d)
    BY <2>1, AppRoot
  <2>3. app = ReadBy(AppSchema, [bits |-> BitsAfter(8, d), refs |-> RefsAfter(8, d)])
    BY <2>2
  <2> HIDE DEF app, d
  <2>4. app.ok /\ ReadAs(app.values, d)
    BY <2>1, <2>2, <2>3, AppIsRead DEF ReadAs
  <2> DEFINE v == app.values
  <2>5. v.domain # <<>> => IsDomain(v.domain)
    <3> HIDE DEF v
    <3>1. ReadAs(v, d)
      BY <2>4 DEF v
    <3> QED BY <2>1, <2>2, <3>1, DomainLineShown
  <2>6. LinesShown = AppReview(v)
    <3>1. ReadAs(v, d)
      BY <2>4
    <3> HIDE DEF v
    <3>2. ShownOf(LinesAfter(8, d)) = AppReview(v)
      BY <2>1, <2>2, <3>1, AppIsShown
    <3>3. LinesShown = ShownOf(lines)
      BY Zenon DEF LinesShown, ShownOf, LineShown
    <3> QED BY <2>2, <3>2, <3>3, Zenon
  <2>7. SignedSchema = AppData /\ SignedSchema # Plaintext
    BY <1>1, <1>4, <2>1
  <2> QED BY <1>1, <1>2, <2>4, <2>5, <2>6, <2>7, Zenon DEF LinesDescribeCell, app
<1> QED BY <1>3, <1>4

(* sign_data_deserialize, crypto_sign_sign_data: whatever a request holds, *)
(* what is signed begins with its schema and its time, and what a contract *)
(* reads in the signed cell is what the lines of the review have shown.    *)
THEOREM CellIsDescribed == Spec => []LinesDescribeCell
<1>1. RequestInCell => LinesDescribeCell
  BY SignedIsShown
<1> QED BY <1>1, CellGrowsWithLines, PTL
=============================================================================
