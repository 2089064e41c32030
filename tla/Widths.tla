------------------------------- MODULE Widths -------------------------------
(***************************************************************************)
(* The sizes the byte-level modules count in (stdint.h, constants.h).  The *)
(* comment gives the program's value.                                      *)
(***************************************************************************)
EXTENDS Integers, Sequences, SequencesExt

CONSTANTS
  ByteBits, \* 8: bits of a byte
  ShortLen, \* 2: bytes of a uint16_t
  WordLen,  \* 4: bytes of a uint32_t
  LongLen,  \* 8: bytes of a uint64_t
  HashLen   \* 32: HASH_LEN

ASSUME WidthsAssumption ==
  {ByteBits, ShortLen, WordLen, LongLen, HashLen} \subseteq Nat \ {0}

Byte == 0..(2^ByteBits - 1)
=============================================================================
