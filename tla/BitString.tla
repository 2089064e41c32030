----------------------------- MODULE BitString -----------------------------
(***************************************************************************)
(* common/bits.c: the data of a cell while it is built.  The record is     *)
(*                                                                         *)
(*   [data |-> bytes, cursor |-> bits]                                     *)
(*                                                                         *)
(* where a byte is a function from the weight of a bit to its value.       *)
(***************************************************************************)
EXTENDS Widths

CONSTANTS
  LengthBits, \* 4: bits of the length of an amount
  Capacity    \* 128: bytes of a BitString_t

ASSUME BitStringAssumption == {LengthBits, Capacity} \subseteq Nat \ {0}

Bit == 0..1
BitString == [data : [0..(Capacity - 1) -> [0..(ByteBits - 1) -> Bit]],
              cursor : 0..(Capacity * ByteBits)]

(* BitString_init                                                          *)
NoBits ==
  [data |-> [k \in 0..(Capacity - 1) |-> [w \in 0..(ByteBits - 1) |-> 0]],
   cursor |-> 0]

(* The bit at position i of what has been stored.                          *)
BitAt(s, i) == s.data[i \div ByteBits][(ByteBits - 1) - (i % ByteBits)]
Content(s)  == [i \in 1..s.cursor |-> BitAt(s, i - 1)]

(* BitString_storeBit                                                      *)
StoreBit(s, v) ==
  [s EXCEPT !.data[s.cursor \div ByteBits][(ByteBits - 1) - (s.cursor % ByteBits)] = v,
            !.cursor = @ + 1]

StoreBits(s, bits) == FoldLeft(StoreBit, s, bits)

(* BitString_storeUint: the n low bits of v, the most significant first.   *)
UintBits(v, n) == [i \in 1..n |-> (v \div 2^(n - i)) % 2]
StoreUint(s, v, n) == StoreBits(s, UintBits(v, n))

(* BitString_storeBuffer                                                   *)
StoreBuffer(s, bytes) ==
  FoldLeft(LAMBDA t, byte : StoreUint(t, byte, ByteBits), s, bytes)

(* BitString_storeCoins: the fewest bytes that hold v, none for zero.      *)
CoinsLength(v) ==
  CHOOSE n \in 0..8 :
    /\ v < 2^(n * ByteBits)
    /\ n > 0 => v >= 2^((n - 1) * ByteBits)

StoreCoins(s, v) ==
  StoreUint(StoreUint(s, CoinsLength(v), LengthBits), v, CoinsLength(v) * ByteBits)

(* BitString_storeCoinsBuf                                                 *)
StoreCoinsBuf(s, bytes) ==
  StoreBuffer(StoreUint(s, Len(bytes), LengthBits), bytes)

(* BitString_storeAddress, with the chain and the hash in one sequence,    *)
(* and BitString_storeAddressNull.                                         *)
StoreAddress(s, bytes) ==
  StoreBuffer(StoreUint(StoreUint(s, 2, 2), 0, 1), bytes)

StoreAddressNull(s) == StoreUint(s, 0, 2)

(* Seeded fault: data that ends with a byte is padded as well.             *)
FinalizeAlways(s) ==
  StoreBits(s, [i \in 1..(ByteBits - (s.cursor % ByteBits)) |-> IF i = 1 THEN 1 ELSE 0])

(* BitString_finalize: a one and zeros up to the end of the byte.          *)
Finalize(s) ==
  IF s.cursor % ByteBits = 0 THEN s
  ELSE StoreBits(s, [i \in 1..(ByteBits - (s.cursor % ByteBits)) |->
                       IF i = 1 THEN 1 ELSE 0])
=============================================================================
