----------------------------- MODULE ByteBuffer -----------------------------
(***************************************************************************)
(* common/buffer.c, read.c, write.c and bip32.c: reading the bytes of a    *)
(* request through a buffer_t.  The record                                 *)
(*                                                                         *)
(*   [ptr |-> bytes, size |-> n, offset |-> n]                             *)
(*                                                                         *)
(* has in ptr all the memory behind the pointer, of which the first size   *)
(* bytes are the data: what follows is left from whatever the array held   *)
(* before.  A read returns [ok, value, buf].  A number is the sequence of  *)
(* its bytes, most significant first.                                      *)
(***************************************************************************)
EXTENDS Widths

CONSTANTS
  SizeMod, \* 2^32: size_t arithmetic is modulo this
  MaxPath  \* 10: MAX_BIP32_PATH

(* The widths of the program are nowhere near 2^32.                        *)
ASSUME SizeAssumption ==
  /\ SizeMod \in Nat \ {0} /\ MaxPath \in Nat
  /\ 2^ByteBits \in 1..SizeMod /\ ShortLen < SizeMod /\ HashLen < SizeMod

Buffer(bytes, n) == [ptr |-> bytes, size |-> n, offset |-> 0]

Refused(b) == [ok |-> FALSE, value |-> <<>>, buf |-> b]

-----------------------------------------------------------------------------
(* buffer_remaining, buffer_can_read                                       *)
Remaining(b) == (b.size - b.offset) % SizeMod

CanReadOneMore(b, n) == Remaining(b) + 1 >= n  \* Seeded fault.
CanRead(b, n) == Remaining(b) >= n

(* buffer_seek_set, buffer_seek_cur, buffer_seek_end                       *)
SeekSet(b, n) == IF n > b.size THEN b ELSE [b EXCEPT !.offset = n]

(* Seeded fault: only a sum that wraps around is refused.                  *)
SeekCurUnbounded(b, n) ==
  LET to == (b.offset + n) % SizeMod
  IN  IF to < b.offset THEN b ELSE [b EXCEPT !.offset = to]

(* The sum may wrap around.                                                *)
SeekCur(b, n) ==
  LET to == (b.offset + n) % SizeMod
  IN  IF to < b.offset \/ to > b.size THEN b ELSE [b EXCEPT !.offset = to]

SeekEnd(b, n) == IF n > b.size THEN b ELSE [b EXCEPT !.offset = b.size - n]

-----------------------------------------------------------------------------
BytesAt(b, n) == SubSeq(b.ptr, b.offset + 1, b.offset + n)

(* buffer_read_buffer, buffer_read_ref, buffer_read_u8.                    *)
ReadBytes(b, n) ==
  IF CanRead(b, n)
  THEN [ok |-> TRUE, value |-> BytesAt(b, n), buf |-> SeekCur(b, n)]
  ELSE Refused(b)

(* buffer_read_u16, u32 and u64, in either order.                          *)
ReadUint(b, n, order) ==
  LET r == ReadBytes(b, n)
  IN  IF order = "LE" THEN [r EXCEPT !.value = Reverse(@)] ELSE r

(* A byte that is neither 0 nor 1 is refused and stays unread.             *)
ReadBool(b) ==
  IF CanRead(b, 1) /\ BytesAt(b, 1)[1] \in {0, 1} THEN ReadBytes(b, 1)
  ELSE Refused(b)

(* Two reads in a row: the first stays read when the second is refused.    *)
Then(first, second) ==
  IF ~first.ok THEN first
  ELSE IF second.ok THEN [second EXCEPT !.value = first.value \o second.value]
  ELSE Refused(second.buf)

(* Seeded fault: any length is taken.                                      *)
ReadVaruintUnbounded(b, max) ==
  LET length == ReadBytes(b, 1)
  IN  Then(length, ReadBytes(length.buf, length.value[1]))

(* A length, then that many bytes.                                         *)
ReadVaruint(b, max) ==
  LET length == ReadBytes(b, 1)
  IN  Then(length,
           IF length.value[1] > max THEN Refused(length.buf)
           ELSE ReadBytes(length.buf, length.value[1]))

ReadAddress(b) ==
  LET workchain == ReadBytes(b, 1)
  IN  Then(workchain, ReadBytes(workchain.buf, HashLen))

ReadCellRef(b) ==
  LET maxDepth == ReadUint(b, ShortLen, "BE")
  IN  Then(maxDepth, ReadBytes(maxDepth.buf, HashLen))

(* buffer_copy and buffer_move: the rest of the data, if it is no longer   *)
(* than n.                                                                 *)
Move(b, n) ==
  IF Remaining(b) > n THEN Refused(b)
  ELSE [ok |-> TRUE, value |-> BytesAt(b, Remaining(b)), buf |-> SeekEnd(b, 0)]

(* write_u16_be, u32 and u64 into an array.                                *)
WriteUint(array, at, value) ==
  [i \in 1..Len(array) |-> IF i - at \in 1..Len(value) THEN value[i - at] ELSE array[i]]

-----------------------------------------------------------------------------
(* bip32_path_read: before each element it is tested that the previous     *)
(* ones were in the data.                                                  *)
PathRead(length, n) ==
  /\ n \in 1..MaxPath
  /\ \A i \in 0..(n - 1) : i * WordLen <= length

(* buffer_read_bip32_path: the result of the seek is not looked at.        *)
ReadPath(b, n) ==
  IF PathRead(Remaining(b), n)
  THEN [ok |-> TRUE, value |-> BytesAt(b, n * WordLen),
        buf |-> SeekCur(b, n * WordLen)]
  ELSE Refused(b)

-----------------------------------------------------------------------------
(* A call of the reading interface, by its kind and its argument.          *)
ReadCall(b, c) ==
  CASE c.kind = "bytes"   -> ReadBytes(b, c.n)
    [] c.kind = "BE"      -> ReadUint(b, c.n, "BE")
    [] c.kind = "LE"      -> ReadUint(b, c.n, "LE")
    [] c.kind = "bool"    -> ReadBool(b)
    [] c.kind = "varuint" -> ReadVaruint(b, c.n)
    [] c.kind = "address" -> ReadAddress(b)
    [] c.kind = "cellref" -> ReadCellRef(b)
    [] c.kind = "move"    -> Move(b, c.n)
    [] c.kind = "path"    -> ReadPath(b, c.n)
=============================================================================
