------------------------- MODULE TxParserProperties -------------------------
(***************************************************************************)
(* What an accepted transaction means to those who read the signed order:  *)
(* the wallet contract and, for the payload, the contract it is sent to.   *)
(***************************************************************************)
EXTENDS TxParser, CellReader

(* transaction_order, message and CommonMsgInfo of doc/TRANSACTION.md; the *)
(* message comes from no address, holds no extra currencies, and has its   *)
(* state-init and its body in references.                                  *)
OrderSchema ==
  << Part("wallet", "uint", WordLen * ByteBits),
     Part("timeout", "uint", WordLen * ByteBits),
     Part("seqno", "uint", WordLen * ByteBits),
     Part("op", "tag", UintBits(0, ByteBits)),
     Part("send_mode", "uint", ByteBits),
     Part("message", "^", 0) >>

MessageSchema ==
  << Part("int_msg_info", "tag", <<0>>),
     Part("ihr_disabled", "uint", 1),
     Part("bounce", "uint", 1),
     Part("bounced", "tag", <<0>>),
     Part("src", "tag", <<0, 0>>),
     Part("dest", "address", <<1, 0, 0>>),
     Part("value", "amount", 0),
     Part("other", "tag", <<0>>),
     Part("ihr_fee", "amount", 0),
     Part("fwd_fee", "amount", 0),
     Part("created_lt", "uint", LongLen * ByteBits),
     Part("created_at", "uint", WordLen * ByteBits),
     Part("init", "maybe^", <<1, 1>>),
     Part("body", "maybe^", <<1>>) >>

(* doc/MESSAGES.md                                                         *)
CommentSchema ==
  << Part("op", "tag", UintBits(0, WordLen * ByteBits)),
     Part("text", "rest", 0) >>

JettonSchema ==
  << Part("op", "tag", UintBits(JettonOp, WordLen * ByteBits)),
     Part("query_id", "uint", LongLen * ByteBits),
     Part("amount", "amount", 0),
     Part("destination", "address", <<1, 0, 0>>),
     Part("response_destination", "address", <<1, 0, 0>>),
     Part("custom_payload", "maybe^", <<1>>),
     Part("forward_ton_amount", "amount", 0),
     Part("forward_payload", "maybe^", <<1>>) >>

-----------------------------------------------------------------------------
Accepted == pc = "done" /\ status = "PARSING_OK"

OptionalRef(flag, value) == IF Is(flag) THEN CellRef(value) ELSE <<>>

(* hash.c: what the wallet reads in the signed order is what the request   *)
(* said, down to the depths and hashes of the cells it refers to: no two   *)
(* requests that differ in a field that counts have the same order.        *)
OrderReadsBack ==
  Accepted =>
    LET o == ReadBy(OrderSchema, CellOf(order))
        m == ReadBy(MessageSchema, CellOf(o.values.message.hash))
    IN  /\ o.ok /\ m.ok
        /\ o.values.wallet = UintBits(Wallet, WordLen * ByteBits)
        /\ o.values.timeout = BytesBits(tx.timeout)
        /\ o.values.seqno = BytesBits(tx.seqno)
        /\ o.values.send_mode = BytesBits(tx.send_mode)
        /\ m.values.bounce = tx.bounce
        /\ m.values.dest = BytesBits(tx.to)
        /\ m.values.value = BytesBits(Amount(tx.value))
        /\ m.values.init = OptionalRef(tx.has_state_init, tx.state_init)
        /\ m.values.body = OptionalRef(tx.has_payload, tx.payload)

(* cell.c: the depth the order gives for the message is above those the    *)
(* message gives for its references, as long as none of these is the       *)
(* largest of 16 bits: TON's limit of 1024 is far below.                   *)
DepthAboveReferences ==
  Accepted =>
    LET o == ReadBy(OrderSchema, CellOf(order))
        message == o.values.message
        inner == ToSet(CellOf(message.hash).refs)
    IN  (\A ref \in inner : ref.max_depth < DepthByte * DepthByte - 1)
          => \A ref \in inner : message.max_depth > ref.max_depth

-----------------------------------------------------------------------------
Shown(item, value) == <<[item |-> item, shows |-> value]>>

ShownRef(item, ref) == IF ref = <<>> THEN <<>> ELSE Shown(item, ref.hash)

JettonReview(v) ==
  Shown("Jetton units", v.amount) \o Shown("Send jetton to", v.destination)
    \o IF ~expert THEN <<>>
       ELSE Shown("Send excess to", v.response_destination)
              \o ShownRef("Custom payload", v.custom_payload)
              \o Shown("Forward amount", v.forward_ton_amount)
              \o ShownRef("Forward payload", v.forward_payload)

LinesShown ==
  [i \in 1..Len(lines) |->
     [item |-> lines[i].item,
      shows |-> IF lines[i].item \in {"Custom payload", "Forward payload"}
                THEN lines[i].body ELSE BytesBits(lines[i].body)]]

(* transaction_hints.c: read by the contract it is sent to, the payload    *)
(* that is signed is the comment or the transfer that is shown, with each  *)
(* part of it on its line, in its order, and nothing else; only the        *)
(* hash of the payload ties the two together.                              *)
LinesDescribePayload ==
  (Accepted /\ Is(tx.has_payload) /\ BytesNumber(tx.hints_type) \in {0, 1}) =>
    LET body    == CellOf(cells[CellRef(tx.payload).hash])
        comment == ReadBy(CommentSchema, body)
        transfer == ReadBy(JettonSchema, body)
    IN  IF BytesNumber(tx.hints_type) = 0
        THEN comment.ok /\ LinesShown = Shown("Comment", comment.values.text)
        ELSE transfer.ok /\ LinesShown = JettonReview(transfer.values)

-----------------------------------------------------------------------------
(* deserialize.c: the fields of an accepted request, one after the other,  *)
(* are its bytes, and those of a jetton transfer its hints: nothing of     *)
(* what was sent is skipped, read twice, or left unread.  The fields are   *)
(* those that doc/TRANSACTION.md lists and the address `to', which it does *)
(* not, behind the value.                                                  *)
TxFieldsInOrder ==
  <<"tag", "seqno", "timeout", "value", "to", "bounce", "send_mode",
    "has_state_init", "state_init", "has_payload", "payload", "has_hints",
    "hints_type", "hints_len", "hints_data">>

JettonFieldsInOrder ==
  <<"has_query_id", "query_id", "amount", "destination", "response",
    "has_custom_payload", "custom_payload", "forward_amount",
    "has_forward_payload", "forward_payload">>

Written(names, values) ==
  FlattenSeq([i \in 1..Len(names) |-> values[names[i]]])

WholeRequestRead ==
  Accepted =>
    /\ Written(TxFieldsInOrder, tx) = SubSeq(buf.ptr, 1, buf.size)
    /\ Is(tx.has_hints) /\ BytesNumber(tx.hints_type) = 1
         => Written(JettonFieldsInOrder, jetton) = tx.hints_data

(* The first n fields of the layout are what has been read of b; nothing   *)
(* is known yet of the others.                                             *)
ReadSoFar(layout, n, values, b) ==
  /\ Written([i \in 1..n |-> layout[i].name], values) = SubSeq(b.ptr, 1, b.offset)
  /\ \A i \in (n + 1)..Len(layout) : values[layout[i].name] = <<>>

TypeOK ==
  /\ pc \in {"start", "tx", "jetton", "compare", "end", "hash", "done"}
  /\ tx \in Values(TxLayout) /\ jetton \in Values(JettonLayout)
  /\ InData(buf) /\ InData(hbuf)
  /\ Len(tx.hints_data) < SizeMod

Transfer == Is(tx.has_hints) /\ BytesNumber(tx.hints_type) = TRANSACTION_TRANSFER_JETTON

AllOf(layout, values, b) ==
  ReadSoFar(layout, Len(layout), values, b) /\ b.offset = b.size

(* deserialize.c: wherever the parser is, the fields it has stored, one    *)
(* after the other, are the bytes it has moved past, of the request and,   *)
(* within a transfer, of its hints; the fields to come are empty, hints    *)
(* have a payload, and no fields of a transfer are left from elsewhere.    *)
RequestInv ==
  /\ TypeOK
  /\ pc \in {"start", "tx"} => jetton = NoValues(JettonLayout)
  /\ pc = "start" => at = 1
  /\ pc \in {"start", "tx"} =>
       at \in 1..(Len(TxLayout) + 1) /\ ReadSoFar(TxLayout, at - 1, tx, buf)
  /\ pc \in {"jetton", "compare", "end", "hash"} \/ Accepted =>
       ReadSoFar(TxLayout, Len(TxLayout), tx, buf)
  /\ pc = "jetton" =>
       /\ at \in 1..(Len(JettonLayout) + 1) /\ ReadSoFar(JettonLayout, at - 1, jetton, hbuf)
       /\ hbuf.ptr = tx.hints_data /\ hbuf.size = Len(tx.hints_data)
  /\ (pc \in {"compare", "end", "hash"} \/ Accepted) /\ Transfer =>
       /\ AllOf(JettonLayout, jetton, hbuf)
       /\ hbuf.ptr = tx.hints_data /\ hbuf.size = Len(tx.hints_data)
  /\ pc = "hash" \/ Accepted => buf.offset = buf.size
  /\ Is(tx.has_hints) => Is(tx.has_payload)

(* deserialize.c: wherever the parser is, the fields the request has and   *)
(* that are read so far are as long as hash_tx takes them to be: what it   *)
(* copies into the order fits there, whatever the host has sent.  The      *)
(* length of hints_data is the request's own.                              *)
FieldsInForm ==
  \A i \in 1..Len(TxLayout) :
    /\ ~Missing(TxLayout[i], tx) /\ TxLayout[i].name # "hints_data"
    /\ (pc = "tx" => i < at) /\ (pc \notin {"start", "done"} \/ Accepted)
    => InForm(TxLayout[i], tx[TxLayout[i].name])

(* deserialize.c, transaction_hints.c, hash.c: a transaction that a client *)
(* has written, with the hints of its payload, is accepted, and the order  *)
(* whose hash is signed is the one the client has built without the app,   *)
(* down to the depth of each cell: its signature would be no use to it     *)
(* with any other.                                                         *)
ClientsOrderIsSigned ==
  pc = "done" /\ client # <<>> => status = "PARSING_OK" /\ order = client
=============================================================================
