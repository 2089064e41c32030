---------------------------- MODULE MCDataParser ----------------------------
(* Sign-data requests of a client that builds the cell itself, and what    *)
(* becomes of them when bytes are cut off, added or changed.  Bytes have   *)
(* four bits, a cell five bytes and three bits, as a real one has 127 and  *)
(* seven; a text fills one cell or two, a domain up to the whole of one.   *)
(* No cell is expected for texts above the app's limit, which the          *)
(* documentation would allow.                                              *)
EXTENDS DataParserProperties, RequestWriter

C1 == <<0, 3, 1>>
C2 == <<15, 15, 2>>
Addr == <<0, 9>>

Letters == {7, 8}
Texts == UNION {[1..n -> Letters] : n \in {0, 1, 4, 5}}
           \cup {<<7>> \o t : t \in [1..6 -> Letters]}
           \cup {<<7, 8, 8>> \o t : t \in [1..6 -> {7}] \cup [1..5 -> Letters]}

Domains == UNION {[1..n -> Letters \cup {Dot}] : n \in 0..4}

AppRequests ==
  {r \in [addr : {<<>>, Addr}, domain : {<<>>} \cup {<<d>> : d \in Domains},
          ext : {<<>>, C2}] : r.addr # <<>> \/ r.domain # <<>>}

HeaderBytes(schema) == <<schema, 5>>
AppBytes(r) ==
  HeaderBytes(AppData) \o Optional(r.addr)
    \o (IF r.domain = <<>> THEN <<0>> ELSE <<1, Len(r.domain[1])>> \o r.domain[1])
    \o C1 \o Optional(r.ext)

-----------------------------------------------------------------------------
(* The cells, as the client builds them: a text goes on in a second cell   *)
(* when the first holds no more bytes; the labels of a domain come from    *)
(* the last to the first, with a zero byte after each.                     *)
CellTo(bytes, cellrefs) == CellWith(BytesBits(bytes), cellrefs)

ClientTextCell(t) ==
  LET n == CellBits \div ByteBits
  IN  IF Len(t) <= n THEN CellTo(t, <<>>)
      ELSE CellTo(First(t, n), <<ReferenceWith(CellTo(Rest(t, n), <<>>), <<>>)>>)

Labels(d) ==
  LET ends == SetToSortSeq({0, Len(d) + 1} \cup {i \in 1..Len(d) : d[i] = Dot}, <)
  IN  [i \in 1..(Len(ends) - 1) |-> SubSeq(d, ends[i] + 1, ends[i + 1] - 1)]

ClientDomainRef(d) ==
  ReferenceWith(CellTo(FlattenSeq([i \in 1..Len(Labels(d)) |->
                                     Reverse(Labels(d))[i] \o <<0>>]), <<>>), <<>>)

ClientAppCell(r) ==
  CellWith((IF r.addr = <<>> THEN <<0>> ELSE <<1>> \o AddressBits(r.addr))
             \o MaybeBit(r.domain) \o MaybeBit(r.ext),
           (IF r.domain = <<>> THEN <<>> ELSE <<ClientDomainRef(r.domain[1])>>)
             \o <<C1>> \o OptionalRefs(r.ext))

-----------------------------------------------------------------------------
Request(bytes, expected) == [bytes |-> bytes, size |-> Len(bytes), client |-> expected]

TextRequest(t) ==
  Request(HeaderBytes(Plaintext) \o t,
          IF Len(t) > MaxPlaintext THEN <<>> ELSE HeaderBytes(Plaintext) \o ClientTextCell(t))

AppRequest(r) == Request(AppBytes(r), HeaderBytes(AppData) \o ClientAppCell(r))

Good == {TextRequest(t) : t \in Texts} \cup {AppRequest(r) : r \in AppRequests}

(* Requests to take apart.                                                 *)
Full ==
  {Request(HeaderBytes(Plaintext) \o <<7, 8, 7>>, <<>>),
   Request(AppBytes([addr |-> Addr, domain |-> <<<<7, Dot, 8>>>>, ext |-> C2]), <<>>),
   Request(AppBytes([addr |-> <<>>, domain |-> <<<<7, 8, Dot, 8>>>>, ext |-> <<>>]), <<>>),
   Request(AppBytes([addr |-> <<>>, domain |-> <<>>, ext |-> C2]), <<>>)}

Cut == UNION {{[r EXCEPT !.size = n] : n \in 0..(Len(r.bytes) - 1)} : r \in Full}
Extended == {[r EXCEPT !.bytes = @ \o <<7>>, !.size = @ + 1] : r \in Full}
Changed == UNION {{[r EXCEPT !.bytes[i] = b] : i \in 1..r.size, b \in Byte} : r \in Full}

MCRequests == Good \cup Cut \cup Extended \cup Changed
=============================================================================
