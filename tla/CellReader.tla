----------------------------- MODULE CellReader -----------------------------
(***************************************************************************)
(* How the other side reads a cell: the wallet contract and the contracts  *)
(* it sends to, by the TL-B schemas of doc/TRANSACTION.md, MESSAGES.md and *)
(* CUSTOM_DATA.md.  Nothing here is taken from the encoders.               *)
(*                                                                         *)
(* A schema is a sequence of parts [name, kind, n].  Reading gives for     *)
(* each name the bits it has or, for a reference, the reference.           *)
(***************************************************************************)
EXTENDS Cell, TLC

Number(bits) == FoldLeft(LAMBDA v, b : 2 * v + b, 0, bits)

BytesBits(bytes) ==
  FlattenSeq([i \in 1..Len(bytes) |-> UintBits(bytes[i], ByteBits)])

-----------------------------------------------------------------------------
(* A cell from what is hashed.  The second descriptor is odd when the last *)
(* byte is padded: then the last one and the zeros after it are no data.   *)
Unpadded(bits) ==
  SubSeq(bits, 1, (CHOOSE i \in 1..Len(bits) :
                     /\ bits[i] = 1
                     /\ \A j \in (i + 1)..Len(bits) : bits[j] = 0) - 1)

CellOf(rep) ==
  LET bytes  == (rep[2] + 1) \div 2
      bits   == BytesBits(SubSeq(rep, 3, 2 + bytes))
      depths == SubSeq(rep, 3 + bytes, 2 + bytes + 2 * rep[1])
      hashes == SubSeq(rep, 3 + bytes + 2 * rep[1], Len(rep))
  IN  [bits |-> IF rep[2] % 2 = 1 THEN Unpadded(bits) ELSE bits,
       refs |-> [i \in 1..rep[1] |->
                   Ref(depths[2 * i - 1] * DepthByte + depths[2 * i], hashes[i])]]

-----------------------------------------------------------------------------
Part(name, kind, n) == [name |-> name, kind |-> kind, n |-> n]
Unread(cell) ==
  [ok |-> TRUE, bits |-> cell.bits, refs |-> cell.refs, values |-> <<>>]

First(s, n) == SubSeq(s, 1, n)
Rest(s, n)  == SubSeq(s, n + 1, Len(s))

(* These values and one more.                                              *)
Holding(values, name, value) ==
  [n \in DOMAIN values \cup {name} |-> IF n = name THEN value ELSE values[n]]

(* The next n bits are the value of a part of that name.                   *)
Bits(r, name, n) ==
  IF n > Len(r.bits) THEN [r EXCEPT !.ok = FALSE]
  ELSE [r EXCEPT !.bits = Rest(@, n), !.values = Holding(@, name, First(r.bits, n))]

Reference(r, name) ==
  IF r.refs = <<>> THEN [r EXCEPT !.ok = FALSE]
  ELSE [r EXCEPT !.refs = Tail(@), !.values = Holding(@, name, r.refs[1])]

Absent(r, name) == [r EXCEPT !.values = Holding(@, name, <<>>)]

StartsWith(r, tag) == Len(r.bits) >= Len(tag) /\ First(r.bits, Len(tag)) = tag

Malformed(r) == [r EXCEPT !.ok = FALSE]

(* After the tag, Value; with the other tag there is none.                 *)
Choice(r, p, absent, Value(_)) ==
  IF StartsWith(r, p.n) THEN Value([r EXCEPT !.bits = Rest(@, Len(p.n))])
  ELSE IF absent # <<>> /\ StartsWith(r, absent)
  THEN Absent([r EXCEPT !.bits = Rest(@, Len(absent))], p.name)
  ELSE Malformed(r)

(* One part: a constant, an unsigned number, an amount (its length, then   *)
(* its bytes), the workchain and hash of a standard address after a tag,   *)
(* a reference, a reference after a tag, what is left of the bits.         *)
ReadPart(r, p) ==
  CASE ~r.ok -> r
    [] p.kind = "tag"      -> Choice(r, p, <<>>, LAMBDA t : t)
    [] p.kind = "uint"     -> Bits(r, p.name, p.n)
    [] p.kind = "amount"   ->
         Bits([r EXCEPT !.bits = Rest(@, LengthBits)], p.name,
              ByteBits * Number(First(r.bits, LengthBits)))
    [] p.kind \in {"address", "maybeAddress"} ->
         Choice(r, p, IF p.kind = "address" THEN <<>> ELSE <<0>>,
                LAMBDA t : Bits(t, p.name, ByteBits * (1 + HashLen)))
    [] p.kind = "^"        -> Reference(r, p.name)
    [] p.kind = "maybe^"   -> Choice(r, p, <<0>>, LAMBDA t : Reference(t, p.name))
    [] p.kind = "rest"     -> Bits(r, p.name, Len(r.bits))

(* The values of a cell by a schema, if it is one of that schema and holds *)
(* nothing else.                                                           *)
ReadBy(schema, cell) ==
  LET r == FoldLeft(ReadPart, Unread(cell), schema)
  IN  [ok |-> r.ok /\ r.bits = <<>> /\ r.refs = <<>>, values |-> r.values]

(* Text in snake format: the data of a chain of cells.                     *)
SnakeText(cell) ==
  LET Walk[n \in Nat] ==
        IF n = 0 THEN cell
        ELSE LET c == Walk[n - 1]
             IN  IF c.refs = <<>> THEN c
                 ELSE LET next == CellOf(c.refs[1].hash)
                      IN  [bits |-> c.bits \o next.bits, refs |-> next.refs]
      end == Walk[IF cell.refs = <<>> THEN 0 ELSE cell.refs[1].max_depth + 1]
  IN  [ok |-> end.refs = <<>>, bits |-> end.bits]
=============================================================================
