--------------------------- MODULE RequestWriter ---------------------------
(***************************************************************************)
(* A client of the app, for the instances of the parsers: the bytes of its *)
(* requests, and the cells it builds itself, by doc/TRANSACTION.md,        *)
(* MESSAGES.md and CUSTOM_DATA.md and as tests/application_client does it. *)
(* In two things it follows that client, and not TRANSACTION.md: it writes *)
(* the address `to' behind the value, and no payload without hints.  In    *)
(* one it does not: the amount zero has no bytes, in the request as in the *)
(* cell.  It uses none of the app's stores.                                *)
(***************************************************************************)
EXTENDS CellReader

(* A cell: what is hashed for these bits and references.                   *)
Chunk(bits, k) == SubSeq(bits, (k - 1) * ByteBits + 1, k * ByteBits)

PaddedTo(bits, n) ==
  [i \in 1..n |-> IF i <= Len(bits) THEN bits[i]
                  ELSE IF i = Len(bits) + 1 THEN 1 ELSE 0]

CellWith(bits, cellrefs) ==
  LET full  == Len(bits) \div ByteBits
      bytes == IF full * ByteBits = Len(bits) THEN full ELSE full + 1
      data  == PaddedTo(bits, bytes * ByteBits)
  IN  <<Len(cellrefs), full + bytes>>
        \o [k \in 1..bytes |-> Number(Chunk(data, k))]
        \o FlattenSeq([i \in 1..Len(cellrefs) |-> SubSeq(cellrefs[i], 1, 2)])
        \o [i \in 1..Len(cellrefs) |-> SubSeq(cellrefs[i], 3, Len(cellrefs[i]))]

(* The reference to a cell: its depth in two bytes, and its hash.          *)
CellDepthOver(cellrefs) ==
  IF cellrefs = <<>> THEN 0
  ELSE 1 + Max({c[1] * 2^ByteBits + c[2] : c \in ToSet(cellrefs)})

ReferenceWith(hash, cellrefs) ==
  LET depth == CellDepthOver(cellrefs)
  IN  <<depth \div 2^ByteBits, depth % 2^ByteBits>> \o hash

(* A varuint, an optional field after its flag, a flag.                    *)
Varuint(bytes)  == <<Len(bytes)>> \o bytes
Optional(bytes) == IF bytes = <<>> THEN <<0>> ELSE <<1>> \o bytes

AmountBits(bytes) == UintBits(Len(bytes), LengthBits) \o BytesBits(bytes)
AddressBits(bytes) == <<1, 0, 0>> \o BytesBits(bytes)
MaybeBit(bytes) == IF bytes = <<>> THEN <<0>> ELSE <<1>>
OptionalRefs(bytes) == IF bytes = <<>> THEN <<>> ELSE <<bytes>>
=============================================================================
