-------------------------------- MODULE Cell --------------------------------
(***************************************************************************)
(* common/cell.c: the hash and the depth of a cell.  A reference is        *)
(*                                                                         *)
(*   [max_depth |-> n, hash |-> h]                                         *)
(*                                                                         *)
(* SHA-256 is taken to be injective: the hash of a cell that is built here *)
(* is the sequence that is hashed, in which each hash counts as one        *)
(* element.  A hash a request holds is the sequence of its bytes.          *)
(***************************************************************************)
EXTENDS BitString

(* A depth has 16 bits and is hashed as two bytes.                         *)
DepthByte == 2^ByteBits

Ref(depth, hash) == [max_depth |-> depth, hash |-> hash]

(* The data of a finalized bit string, as bytes.                           *)
ByteValue(byte) ==
  FoldLeft(LAMBDA v, b : 2 * v + b, 0,
           [i \in 1..ByteBits |-> byte[ByteBits - i]])

DataBytes(s) ==
  [k \in 1..(s.cursor \div ByteBits) |-> ByteValue(s.data[k - 1])]

Descriptor(bits) ==
  (bits \div ByteBits) + ((bits + ByteBits - 1) \div ByteBits)

(* Seeded fault: the bytes of a depth the other way round.                 *)
DepthBytesSwapped(depth) == <<depth % DepthByte, depth \div DepthByte>>

DepthBytes(depth) == <<depth \div DepthByte, depth % DepthByte>>

Representation(s, refs) ==
  <<Len(refs), Descriptor(s.cursor)>> \o DataBytes(Finalize(s))
    \o FlattenSeq([i \in 1..Len(refs) |-> DepthBytes(refs[i].max_depth)])
    \o [i \in 1..Len(refs) |-> refs[i].hash]

(* Seeded fault: the depth of the first reference counts.                  *)
DepthOfFirst(refs) ==
  IF refs = <<>> THEN 0 ELSE (refs[1].max_depth + 1) % (DepthByte * DepthByte)

(* The depth is kept in 16 bits.                                           *)
CellDepth(refs) ==
  IF refs = <<>> THEN 0
  ELSE LET deepest == CHOOSE d \in {refs[i].max_depth : i \in 1..Len(refs)} :
                        \A i \in 1..Len(refs) : refs[i].max_depth <= d
       IN  (deepest + 1) % (DepthByte * DepthByte)

HashCell(s, refs) == Ref(CellDepth(refs), Representation(s, refs))
=============================================================================
