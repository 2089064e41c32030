---------------------------- MODULE FieldReader ----------------------------
(***************************************************************************)
(* What transaction/ and sign_data/ share: a request is read field by      *)
(* field.  The fields are tables; a field is read if the flag it names is  *)
(* set, and its value is the sequence of its bytes.                        *)
(***************************************************************************)
EXTENDS ByteBuffer, Cell, TLC

CONSTANT Ascii  \* 0x20..0x7E: check_ascii

Field(name, kind, n, when) == [name |-> name, kind |-> kind, n |-> n, when |-> when]

NoValues(layout) ==
  [name \in {layout[i].name : i \in 1..Len(layout)} |-> <<>>]

(* The types of what is read.                                              *)
Values(layout) == [{layout[i].name : i \in 1..Len(layout)} -> Seq(Byte)]

(* A position that is in the data.                                         *)
InData(b) ==
  /\ b \in [ptr : Seq(Byte), size : Nat, offset : Nat]
  /\ b.offset <= b.size /\ b.size < SizeMod /\ b.size <= Len(b.ptr)

(* What a read gives for a field: as many bytes as it asked for, a flag,   *)
(* a length within its limit and that many bytes, an account, a reference. *)
InForm(f, value) ==
  CASE f.kind = "bool"    -> value \in {<<0>>, <<1>>}
    [] f.kind = "varuint" -> value[1] \in 0..f.n /\ Len(value) = 1 + value[1]
    [] f.kind = "address" -> Len(value) = 1 + HashLen
    [] f.kind = "cellref" -> Len(value) = ShortLen + HashLen
    [] OTHER              -> Len(value) = f.n

BytesNumber(bytes) ==
  FoldLeft(LAMBDA v, byte : v * 2^ByteBits + byte, 0, bytes)

(* What a field holds: an amount without its length, a cell_ref as such.   *)
Amount(value)  == Tail(value)
CellRef(value) ==
  Ref(BytesNumber(SubSeq(value, 1, ShortLen)), SubSeq(value, ShortLen + 1, Len(value)))

Is(field) == field = <<1>>
Missing(f, values) == f.when # "" /\ ~Is(values[f.when])

IsAscii(text) == ToSet(text) \subseteq Ascii
=============================================================================
