------------------------------ MODULE Friendly ------------------------------
(***************************************************************************)
(* common/crc16.c, base64.c, format_address.c and address.c: a wallet's    *)
(* address, from its key to the text that is shown.                        *)
(***************************************************************************)
EXTENDS Cell

CONSTANT Digest(_)  \* SHA-256, from what is hashed to its bytes

-----------------------------------------------------------------------------
(* crc16, in bits, the most significant first; those above the lowest 16   *)
(* are lost in the return.  The eight rounds for a byte are linear: they   *)
(* move the low byte up, and add what the high byte becomes in them.       *)
Xor(a, b) == [i \in 1..Len(a) |-> (a[i] + b[i]) % 2]
Value(bits) == FoldLeft(LAMBDA v, b : 2 * v + b, 0, bits)

CrcRounds ==
  LET Round(crc) ==
        LET shifted == Tail(crc) \o <<0>>
        IN  IF crc[1] = 1 THEN Xor(shifted, UintBits(4129, 16)) ELSE shifted  \* 0x1021
      Rounds[n \in 0..8, high \in 0..255] ==
        IF n = 0 THEN UintBits(high * 2^8, 16) ELSE Round(Rounds[n - 1, high])
  IN  [high \in 0..255 |-> Rounds[8, high]]

Crc16(bytes) ==
  LET Add(crc, byte) ==
        LET high == Xor(SubSeq(crc, 1, 8), UintBits(byte, 8))
        IN  Xor(SubSeq(crc, 9, 16) \o UintBits(0, 8), CrcRounds[Value(high)])
      crc == FoldLeft(Add, UintBits(0, 16), bytes)
  IN  <<Value(SubSeq(crc, 1, 8)), Value(SubSeq(crc, 9, 16))>>

(* base64_encode: characters as codes, three bytes at a time, with what is *)
(* missing filled up.                                                      *)
Base64Char(v) ==
  CASE v < 26 -> 65 + v
    [] v \in 26..51 -> 71 + v
    [] v \in 52..61 -> v - 4
    [] v = 62 -> 45
    [] v = 63 -> 95

Base64(data) ==
  LET groups == (Len(data) + 2) \div 3
      padding == 3 * groups - Len(data)
      Octet(i) == IF i <= Len(data) THEN data[i] ELSE 0
      Triple(g) == Octet(3 * g - 2) * 2^16 + Octet(3 * g - 1) * 2^8 + Octet(3 * g)
      Group(g) == [i \in 1..4 |-> Base64Char((Triple(g) \div 2^(6 * (4 - i))) % 64)]
      text == FlattenSeq([g \in 1..groups |-> Group(g)])
  IN  [i \in 1..Len(text) |-> IF i > Len(text) - padding THEN 61 ELSE text[i]]

(* address_to_friendly                                                     *)
AddressToFriendly(chain, hash, bounceable, testOnly) ==
  LET tag   == (IF bounceable THEN 17 ELSE 81) + (IF testOnly THEN 128 ELSE 0)
      bytes == <<tag, chain>> \o hash
  IN  bytes \o Crc16(bytes)

-----------------------------------------------------------------------------
(* pubkey_to_hash: the data cell of the wallet, and its state-init, whose  *)
(* code cell is given by its hash.                                         *)
CodeHash ==
  << 254, 181, 255, 104, 32, 226, 255, 13, 148, 131, 231, 224, 214, 44, 129, 125,
     132, 103, 137, 251, 74, 229, 128, 200, 120, 134, 109, 149, 157, 171, 213, 192 >>

(* Seeded fault: the last bit of the data is left out.                     *)
DataCellShort(key) ==
  <<0, 81, 0, 0, 0, 0, 41, 169, 163, 23>> \o key \o <<128>>

DataCell(key) ==
  <<0, 81, 0, 0, 0, 0, 41, 169, 163, 23>> \o key \o <<64>>

StateInit(key) ==
  <<2, 1, 52, 0, 7, 0, 0>> \o <<CodeHash, DataCell(key)>>

(* address_from_pubkey                                                     *)
AddressFromPubkey(key, chain, bounceable, testOnly) ==
  AddressToFriendly(chain, Digest(StateInit(key)), bounceable, testOnly)
=============================================================================
