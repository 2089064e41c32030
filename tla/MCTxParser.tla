----------------------------- MODULE MCTxParser -----------------------------
(* Transactions of a client that builds the order itself, and what becomes *)
(* of them when bytes are cut off, added or changed.  Bytes have three     *)
(* bits, words and hashes one byte, depths two bytes.                      *)
EXTENDS TxParserProperties, RequestWriter

(* Cell references: a depth and a hash.  No cell a client can refer to is  *)
(* as deep as C2, the deepest that can be written.                         *)
C2 == <<7, 7, 2>>
C3 == <<1, 0, 3>>
C4 == <<1, 7, 2>>

-----------------------------------------------------------------------------
Comments == {<<>>, <<2>>, <<3, 6>>, <<4, 2, 5>>}

Transfers ==
  [query : {<<>>, <<6>>}, amount : {<<>>, <<5, 1>>}, dest : {<<0, 4>>},
   response : {<<7, 2>>}, custom : {<<>>, C4}, forward : {<<>>, <<3>>},
   payload : {<<>>, C3}]

TransferHints(j) ==
  Optional(j.query) \o Varuint(j.amount) \o j.dest \o j.response
    \o Optional(j.custom) \o Varuint(j.forward) \o Optional(j.payload)

TransferRefs(j) == OptionalRefs(j.custom) \o OptionalRefs(j.payload)

TransferCell(j) ==
  CellWith(UintBits(JettonOp, ByteBits)
             \o BytesBits(IF j.query = <<>> THEN <<0>> ELSE j.query)
             \o AmountBits(j.amount) \o AddressBits(j.dest) \o AddressBits(j.response)
             \o MaybeBit(j.custom) \o AmountBits(j.forward) \o MaybeBit(j.payload),
           TransferRefs(j))

CommentCell(text) == CellWith(UintBits(0, ByteBits) \o BytesBits(text), <<>>)

(* The payload: the reference to a cell over these, with the hash <<1>>.   *)
Payload(cellrefs) == ReferenceWith(<<1>>, cellrefs)
Flat == Payload(<<>>)

(* What follows the state-init: a payload with its hints, or none.  cell   *)
(* is the one the payload's hash stands for.                               *)
HintsBlock(type, hints) ==
  <<1, type, Len(hints) \div 8, Len(hints) % 8>> \o hints

PayloadTail(payload, hints, cell) ==
  [bytes |-> Optional(payload) \o hints, payload |-> payload, cell |-> cell]

Described ==
  {PayloadTail(Flat, HintsBlock(0, c), CommentCell(c)) : c \in Comments}
    \cup {PayloadTail(Payload(TransferRefs(j)), HintsBlock(1, TransferHints(j)), TransferCell(j)) :
            j \in Transfers}

NoPayloadTail == PayloadTail(<<>>, <<0>>, CommentCell(<<2>>))

(* Hints of another cell, none, cut short, unprintable or too long text,   *)
(* unknown ids, hints without a payload.                                   *)
Wrong ==
  {PayloadTail(Flat, HintsBlock(0, <<2>>), CommentCell(<<3>>)),
   PayloadTail(Flat, <<0>>, CommentCell(<<2>>)),
   PayloadTail(Flat, HintsBlock(1, <<0, 1>>), CommentCell(<<2>>)),
   PayloadTail(Flat, HintsBlock(0, <<2, 1>>), CommentCell(<<2, 1>>)),
   PayloadTail(Flat, HintsBlock(0, <<2, 2, 2, 2>>), CommentCell(<<2, 2, 2, 2>>)),
   PayloadTail(Flat, HintsBlock(2, <<2>>), CommentCell(<<2>>)),
   PayloadTail(<<>>, <<1>>, CommentCell(<<2>>))}

Heads ==
  [timeout : {1, 4}, value : {<<>>, <<2>>, <<0, 7, 3>>}, bounce : {0, 1}, mode : {3},
   init : {<<>>, C2, C3}]

HeadBytes(h) ==
  <<0, 5, h.timeout>> \o Varuint(h.value) \o <<1, 6>> \o <<h.bounce, h.mode>>
    \o Optional(h.init)

SomeTails == {NoPayloadTail} \cup {t \in Described : Len(t.bytes) < 9}
SomeHead  == [timeout |-> 1, value |-> <<2>>, bounce |-> 1, mode |-> 3, init |-> C3]

-----------------------------------------------------------------------------
(* The message and the order, as the client builds them.                   *)
Zeros(n) == [i \in 1..n |-> 0]

ClientMessage(h, t) ==
  LET cellrefs == OptionalRefs(h.init) \o OptionalRefs(t.payload)
      message  ==
        CellWith(<<0, 1, h.bounce, 0>> \o <<0, 0>> \o AddressBits(<<1, 6>>)
                   \o AmountBits(h.value) \o Zeros(1)
                   \o Zeros(2 * LengthBits + (LongLen + WordLen) * ByteBits)
                   \o (IF h.init = <<>> THEN <<0>> ELSE <<1, 1>>) \o MaybeBit(t.payload),
                 cellrefs)
  IN  ReferenceWith(message, cellrefs)

ClientOrder(h, t) ==
  CellWith(UintBits(Wallet, WordLen * ByteBits) \o BytesBits(<<h.timeout, 5, 0, h.mode>>),
           <<ClientMessage(h, t)>>)

-----------------------------------------------------------------------------
Request(head, tail, expected) ==
  LET bytes == HeadBytes(head) \o tail.bytes
  IN  [bytes |-> bytes, size |-> Len(bytes), client |-> expected,
       cells |-> (<<1>> :> tail.cell)]

Sent(h, t) == Request(h, t, IF h.init = C2 THEN <<>> ELSE ClientOrder(h, t))

Good ==
  {Sent(h, t) : h \in Heads, t \in SomeTails} \cup {Sent(SomeHead, t) : t \in Described}

Bad == {Request(SomeHead, t, <<>>) : t \in Wrong}

(* Requests to take apart: all kinds of fields are present.                *)
Full ==
  {Request(SomeHead, t, <<>>) :
     t \in {NoPayloadTail} \cup {d \in Described : Len(d.bytes) \in {9, 26, 27}}}

Cut == {[r EXCEPT !.size = n] : r \in Full, n \in 0..39}
Extended == {[r EXCEPT !.bytes = @ \o <<0>>, !.size = @ + 1] : r \in Full}
Changed ==
  UNION {{[r EXCEPT !.bytes[i] = b] : i \in 1..r.size, b \in {0, 1, 2, 7}} : r \in Full}

MCRequests ==
  Good \cup Bad \cup {r \in Cut : r.size < Len(r.bytes)} \cup Extended \cup Changed
=============================================================================
