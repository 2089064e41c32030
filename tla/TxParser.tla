------------------------------ MODULE TxParser ------------------------------
(***************************************************************************)
(* transaction/deserialize.c, transaction_hints.c and hash.c on bytes: one *)
(* request is read field by field into the structure, its hints into       *)
(* another and into the cell they describe, that cell is compared with the *)
(* payload, and the order to be signed is hashed.  TxRequest has the same  *)
(* functions on abstract fields, with failing hash functions.              *)
(***************************************************************************)
EXTENDS FieldReader

CONSTANTS
  Requests,      \* [bytes, size, cells, client]: what a host may send
  MaxLen,        \* 510: MAX_TRANSACTION_LEN
  MaxMemo,       \* 120: MAX_MEMO_LEN
  MaxValueBytes, \* 15: MAX_VALUE_BYTES_LEN
  Wallet,        \* 698983191
  JettonOp       \* 0x0f8a7ea5

ASSUME RequestsAssumption ==
  /\ \A r \in Requests :
       r.bytes \in Seq(Byte) /\ r.size \in 0..Len(r.bytes) /\ r.size < SizeMod
  /\ MaxValueBytes \in Nat

(* The length of an amount fits into its bits, and the cells of hash_tx    *)
(* into a BitString_t: in the program 15 < 16, 112 and 505 bits of 1024.   *)
ASSUME OrderAssumption ==
  /\ Wallet \in Nat /\ MaxValueBytes < 2^LengthBits
  /\ (3 * WordLen + 2) * ByteBits <= Capacity * ByteBits
  /\ 13 + (1 + HashLen + MaxValueBytes + LongLen + WordLen) * ByteBits + 3 * LengthBits
       <= Capacity * ByteBits

(* So do the cells the hints describe: 992 and 880 bits of 1024.           *)
ASSUME PayloadAssumption ==
  /\ JettonOp \in Nat /\ MaxMemo \in Nat
  /\ (WordLen + MaxMemo) * ByteBits <= Capacity * ByteBits
  /\ 8 + (WordLen + LongLen + 2 * (1 + HashLen + MaxValueBytes)) * ByteBits + 2 * LengthBits
       <= Capacity * ByteBits

(* The hint ids.                                                           *)
TRANSACTION_COMMENT == 0
TRANSACTION_TRANSFER_JETTON == 1

VARIABLES
  cells,  \* which cells the hashes a request may hold are the hashes of
  client, \* the order its client expects to be signed; <<>> for no client's request
  expert, \* N_storage.expert_mode
  pc,     \* the part being read, or the step to come
  at,     \* the next field of that part
  buf,    \* the request
  hbuf,   \* hints_data
  tx,     \* transaction_t: the bytes of each field
  jetton, \* the fields of a jetton transfer
  bits,   \* the cell the hints describe, while it is built
  refs,
  lines,  \* transaction_t.hints: the title and the bytes of each
  order,  \* the order's cell
  status  \* parser_status_e

state == <<bits, refs, lines>>
vars == <<cells, client, expert, pc, at, buf, hbuf, tx, jetton, state, order, status>>

-----------------------------------------------------------------------------
TxLayout ==
  << Field("tag", "bytes", 1, ""),
     Field("seqno", "BE", WordLen, ""),
     Field("timeout", "BE", WordLen, ""),
     Field("value", "varuint", MaxValueBytes, ""),
     Field("to", "address", 0, ""),
     Field("bounce", "bool", 0, ""),
     Field("send_mode", "bytes", 1, ""),
     Field("has_state_init", "bool", 0, ""),
     Field("state_init", "cellref", 0, "has_state_init"),
     Field("has_payload", "bool", 0, ""),
     Field("payload", "cellref", 0, "has_payload"),
     Field("has_hints", "bool", 0, ""),
     Field("hints_type", "BE", WordLen, "has_hints"),
     Field("hints_len", "BE", ShortLen, "has_hints"),
     Field("hints_data", "bytes", 0, "has_hints") >>

ErrorOf(name) ==
  CASE name = "tag"       -> "TAG_PARSING_ERROR"
    [] name = "seqno"     -> "SEQ_PARSING_ERROR"
    [] name = "timeout"   -> "TIMEOUT_PARSING_ERROR"
    [] name = "value"     -> "VALUE_PARSING_ERROR"
    [] name = "to"        -> "TO_PARSING_ERROR"
    [] name = "bounce"    -> "BOUNCE_PARSING_ERROR"
    [] name = "send_mode" -> "SEND_MODE_PARSING_ERROR"
    [] name = "has_payload" -> "PAYLOAD_PARSING_ERROR"
    [] name \in {"has_state_init", "state_init", "payload"} ->
         "STATE_INIT_PARSING_ERROR"
    [] OTHER -> "HINTS_PARSING_ERROR"

JettonLayout ==
  << Field("has_query_id", "bool", 0, ""),
     Field("query_id", "BE", LongLen, "has_query_id"),
     Field("amount", "varuint", MaxValueBytes, ""),
     Field("destination", "address", 0, ""),
     Field("response", "address", 0, ""),
     Field("has_custom_payload", "bool", 0, ""),
     Field("custom_payload", "cellref", 0, "has_custom_payload"),
     Field("forward_amount", "varuint", MaxValueBytes, ""),
     Field("has_forward_payload", "bool", 0, ""),
     Field("forward_payload", "cellref", 0, "has_forward_payload") >>

(* Title and setting of the line of a field; other fields have none.       *)
JettonLine ==
  [amount          |-> [item |-> "Jetton units",    expert |-> FALSE],
   destination     |-> [item |-> "Send jetton to",  expert |-> FALSE],
   response        |-> [item |-> "Send excess to",  expert |-> TRUE],
   custom_payload  |-> [item |-> "Custom payload",  expert |-> TRUE],
   forward_amount  |-> [item |-> "Forward amount",  expert |-> TRUE],
   forward_payload |-> [item |-> "Forward payload", expert |-> TRUE]]

-----------------------------------------------------------------------------
Fail(error) ==
  /\ pc' = "done" /\ status' = error
  /\ UNCHANGED <<at, tx, hbuf, jetton, state, order>>

Init ==
  /\ \E r \in Requests : /\ buf = Buffer(r.bytes, r.size)
                         /\ cells = r.cells /\ client = r.client
  /\ expert \in BOOLEAN
  /\ pc = "start" /\ at = 1 /\ hbuf = Buffer(<<>>, 0)
  /\ tx = NoValues(TxLayout) /\ jetton = NoValues(JettonLayout)
  /\ bits = NoBits /\ refs = <<>> /\ lines = <<>>
  /\ order = <<>> /\ status = "none"

-----------------------------------------------------------------------------
(* transaction_deserialize                                                 *)
CheckLength ==
  /\ pc = "start"
  /\ IF buf.size > MaxLen THEN Fail("WRONG_LENGTH_ERROR")
     ELSE /\ pc' = "tx"
          /\ UNCHANGED <<at, tx, hbuf, jetton, state, order, status>>
  /\ UNCHANGED <<cells, client, expert, buf>>

(* Only tag 0 is supported, and hints need a payload.                      *)
Allowed(name, value) ==
  /\ name = "tag" => value = <<0>>
  /\ name = "has_hints" => ~Is(value) \/ Is(tx.has_payload)

ReadTxField ==
  /\ pc = "tx" /\ at <= Len(TxLayout)
  /\ LET f == TxLayout[at]
         n == IF f.name = "hints_data" THEN BytesNumber(tx.hints_len) ELSE f.n
         r == ReadCall(buf, [kind |-> f.kind, n |-> n])
     IN  IF Missing(f, tx)
         THEN /\ at' = at + 1
              /\ UNCHANGED <<pc, buf, tx, hbuf, jetton, state, order, status>>
         ELSE /\ buf' = r.buf
              /\ IF r.ok /\ Allowed(f.name, r.value)
                 THEN /\ at' = at + 1 /\ tx' = [tx EXCEPT ![f.name] = r.value]
                      /\ UNCHANGED <<pc, hbuf, jetton, state, order, status>>
                 ELSE Fail(ErrorOf(f.name))
  /\ UNCHANGED <<cells, client, expert>>

(* Seeded fault: what is left is not looked at.                            *)
CheckNothing ==
  /\ pc = "end"
  /\ pc' = "hash" /\ status' = "PARSING_OK"
  /\ UNCHANGED <<cells, client, expert, buf, at, tx, hbuf, jetton, state, order>>

(* What is left is refused only after the hints have been processed.       *)
CheckEnd ==
  /\ pc = "end"
  /\ IF buf.offset # buf.size THEN Fail("WRONG_LENGTH_ERROR")
     ELSE /\ pc' = "hash" /\ status' = "PARSING_OK"
          /\ UNCHANGED <<at, tx, hbuf, jetton, state, order>>
  /\ UNCHANGED <<cells, client, expert, buf>>

-----------------------------------------------------------------------------
(* process_hints                                                           *)
ProcessHints ==
  /\ pc = "tx" /\ at > Len(TxLayout)
  /\ UNCHANGED <<cells, client, expert, buf, tx, order>>

NoPayload ==
  /\ ProcessHints /\ ~Is(tx.has_payload)
  /\ pc' = "end"
  /\ UNCHANGED <<at, hbuf, jetton, state, status>>

PayloadWithoutHints ==
  /\ ProcessHints /\ Is(tx.has_payload) /\ ~Is(tx.has_hints)
  /\ Fail("HINTS_PARSING_ERROR")

HintsOfType(T) ==
  /\ ProcessHints /\ Is(tx.has_payload) /\ Is(tx.has_hints)
  /\ BytesNumber(tx.hints_type) \in T

Comment ==
  /\ HintsOfType({TRANSACTION_COMMENT})
  /\ IF Len(tx.hints_data) > MaxMemo \/ ~IsAscii(tx.hints_data)
     THEN Fail("HINTS_PARSING_ERROR")
     ELSE /\ bits' = StoreBuffer(StoreUint(NoBits, 0, WordLen * ByteBits), tx.hints_data)
          /\ refs' = <<>>
          /\ lines' = <<[item |-> "Comment", body |-> tx.hints_data]>>
          /\ pc' = "compare"
          /\ UNCHANGED <<at, hbuf, jetton, status>>

StartJetton ==
  /\ HintsOfType({TRANSACTION_TRANSFER_JETTON})
  /\ bits' = StoreUint(NoBits, JettonOp, WordLen * ByteBits)
  /\ refs' = <<>> /\ lines' = <<>>
  /\ pc' = "jetton" /\ at' = 1
  /\ hbuf' = Buffer(tx.hints_data, Len(tx.hints_data))
  /\ UNCHANGED <<jetton, status>>

(* The cell is never built.                                                *)
UnknownHints ==
  /\ HintsOfType(Nat \ {TRANSACTION_COMMENT, TRANSACTION_TRANSFER_JETTON})
  /\ lines' = <<>>
  /\ pc' = "compare"
  /\ UNCHANGED <<at, hbuf, jetton, bits, refs, status>>

(* What reading f stores.  A query_id that is absent is zero; an absent    *)
(* reference leaves its bit.                                               *)
JettonStored(s, f, value, absent) ==
  CASE f.name = "query_id" ->
         IF absent THEN StoreUint(s, 0, LongLen * ByteBits) ELSE StoreBuffer(s, value)
    [] f.kind = "varuint"  -> StoreCoinsBuf(s, Amount(value))
    [] f.kind = "address"  -> StoreAddress(s, value)
    [] f.kind = "cellref"  -> StoreBit(s, IF absent THEN 0 ELSE 1)
    [] OTHER -> s

JettonBody(f, value) ==
  CASE f.kind = "varuint" -> Amount(value)
    [] f.kind = "cellref" -> CellRef(value).hash
    [] OTHER -> value

JettonLines(f, value) ==
  IF f.name \in DOMAIN JettonLine /\ (JettonLine[f.name].expert => expert)
  THEN <<[item |-> JettonLine[f.name].item, body |-> JettonBody(f, value)]>>
  ELSE <<>>

ReadJettonField ==
  /\ pc = "jetton" /\ at <= Len(JettonLayout)
  /\ LET f == JettonLayout[at]
         r == ReadCall(hbuf, [kind |-> f.kind, n |-> f.n])
     IN  IF Missing(f, jetton)
         THEN /\ bits' = JettonStored(bits, f, <<>>, TRUE)
              /\ at' = at + 1
              /\ UNCHANGED <<pc, hbuf, tx, jetton, refs, lines, order, status>>
         ELSE IF ~r.ok THEN Fail("HINTS_PARSING_ERROR")
         ELSE /\ hbuf' = r.buf
              /\ jetton' = [jetton EXCEPT ![f.name] = r.value]
              /\ bits' = JettonStored(bits, f, r.value, FALSE)
              /\ refs' = IF f.kind = "cellref" THEN Append(refs, CellRef(r.value)) ELSE refs
              /\ lines' = lines \o JettonLines(f, r.value)
              /\ at' = at + 1
              /\ UNCHANGED <<pc, tx, order, status>>
  /\ UNCHANGED <<cells, client, expert, buf>>

EndJetton ==
  /\ pc = "jetton" /\ at > Len(JettonLayout)
  /\ IF hbuf.offset # hbuf.size THEN Fail("HINTS_PARSING_ERROR")
     ELSE /\ pc' = "compare"
          /\ UNCHANGED <<at, tx, hbuf, jetton, state, order, status>>
  /\ UNCHANGED <<cells, client, expert, buf>>

(* Seeded fault: the hash is computed but not compared.                    *)
DescribesAny(ref) == ref.hash \in DOMAIN cells

(* The hash of the cell is the payload's.                                  *)
Describes(ref) ==
  ref.hash \in DOMAIN cells /\ cells[ref.hash] = Representation(bits, refs)

(* Only the hashes are compared.  For an unknown type the one is whatever  *)
(* the stack held.                                                         *)
ComparePayload ==
  /\ pc = "compare"
  /\ \E same \in IF BytesNumber(tx.hints_type) <= TRANSACTION_TRANSFER_JETTON
                 THEN {Describes(CellRef(tx.payload))} ELSE BOOLEAN :
       IF same THEN /\ pc' = "end"
                    /\ UNCHANGED <<at, tx, hbuf, jetton, state, order, status>>
       ELSE Fail("HINTS_PARSING_ERROR")
  /\ UNCHANGED <<cells, client, expert, buf>>

-----------------------------------------------------------------------------
(* hash_tx: the message from the wallet, and the order that carries it.    *)
MessageInfo ==
  LET header == StoreBits(NoBits, <<0, 1, IF Is(tx.bounce) THEN 1 ELSE 0, 0>>)
      dest   == StoreAddress(StoreAddressNull(header), tx.to)
      value  == StoreBit(StoreCoinsBuf(dest, Amount(tx.value)), 0)
      fees   == StoreCoins(StoreCoins(value, 0), 0)
  IN  StoreUint(StoreUint(fees, 0, LongLen * ByteBits), 0, WordLen * ByteBits)

MessageFlags ==
  (IF Is(tx.has_state_init) THEN <<1, 1>> ELSE <<0>>)
    \o (IF Is(tx.has_payload) THEN <<1>> ELSE <<0>>)

MessageRefs ==
  (IF Is(tx.has_state_init) THEN <<CellRef(tx.state_init)>> ELSE <<>>)
    \o (IF Is(tx.has_payload) THEN <<CellRef(tx.payload)>> ELSE <<>>)

Message == HashCell(StoreBits(MessageInfo, MessageFlags), MessageRefs)

OrderBits ==
  LET wallet == StoreUint(NoBits, Wallet, WordLen * ByteBits)
      limits == StoreBuffer(StoreBuffer(wallet, tx.timeout), tx.seqno)
  IN  StoreBuffer(StoreUint(limits, 0, ByteBits), tx.send_mode)

HashTx ==
  /\ pc = "hash"
  /\ order' = Representation(OrderBits, <<Message>>)
  /\ pc' = "done"
  /\ UNCHANGED <<cells, client, expert, at, buf, hbuf, tx, jetton, state, status>>

Next ==
  \/ CheckLength \/ ReadTxField \/ CheckEnd
  \/ NoPayload \/ PayloadWithoutHints \/ Comment \/ StartJetton \/ UnknownHints
  \/ ReadJettonField \/ EndJetton \/ ComparePayload
  \/ HashTx

Spec == Init /\ [][Next]_vars
=============================================================================
