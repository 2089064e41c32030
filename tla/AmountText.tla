----------------------------- MODULE AmountText -----------------------------
(***************************************************************************)
(* common/int256.c and format_bigint.c: an amount, a sequence of bytes,    *)
(* the most significant first, as decimal text.  A character is its code.  *)
(***************************************************************************)
EXTENDS Integers, Sequences, SequencesExt

Digit(d) == 48 + d
Point == 46
Space == 32

Repeated(c, n) == [i \in 1..n |-> c]

-----------------------------------------------------------------------------
(* The bytes at the end of the sixteen 16-bit words, which are then        *)
(* swapped: the most significant word comes first.                         *)
Words(value) ==
  LET bytes == Repeated(0, 32 - Len(value)) \o value
  IN  [k \in 1..16 |-> bytes[2 * k - 1] * 2^8 + bytes[2 * k]]

AllZeroes(n) == \A k \in 1..Len(n) : n[k] = 0

(* One round of the long division: the words, and what remains.            *)
DivideByTen(n) ==
  LET Step(s, word) ==
        LET dividend == s.carry * 2^16 + word
        IN  [words |-> Append(s.words, dividend \div 10), carry |-> dividend % 10]
  IN  FoldLeft(Step, [words |-> <<>>, carry |-> 0], n)

(* uint256_to_decimal into an array of size characters: each round gives   *)
(* the digit before those it has, until the words are zero.                *)
Uint256ToDecimal(value, size) ==
  LET Digits[n \in [1..16 -> 0..(2^16 - 1)]] ==
        LET d == DivideByTen(n)
        IN  IF AllZeroes(n) THEN <<>> ELSE Append(Digits[d.words], Digit(d.carry))
      text == Digits[Words(value)]
  IN  IF text = <<>> THEN [ok |-> size >= 2, text |-> <<Digit(0)>>]
      ELSE [ok |-> Len(text) <= size, text |-> text]

-----------------------------------------------------------------------------
WithoutLastZeros(text) ==
  SubSeq(text, 1, CHOOSE n \in 0..Len(text) :
                    /\ n > 0 => text[n] # Digit(0)
                    /\ \A i \in (n + 1)..Len(text) : text[i] = Digit(0))

(* Seeded fault: zeros are dropped at the end of a whole number, too.      *)
AdjustDecimalsAllZeros(src, room, decimals) ==
  LET whole == SubSeq(src, 1, Len(src) - decimals)
      part  == SubSeq(src, Len(src) - decimals + 1, Len(src))
      small == <<Digit(0), Point>> \o Repeated(Digit(0), decimals - Len(src)) \o src
  IN  [ok |-> TRUE,
       text |-> IF src = <<Digit(0)>> THEN src
                ELSE WithoutLastZeros(IF Len(src) <= decimals THEN small
                                      ELSE IF decimals = 0 THEN whole
                                      ELSE whole \o <<Point>> \o part)]

(* adjustDecimals: the point before the last digits, after zeros if there  *)
(* are too few; zeros at the end of the fraction, and then the point, are  *)
(* dropped.  src has no leading zero.                                      *)
AdjustDecimals(src, room, decimals) ==
  LET few   == Len(src) <= decimals
      whole == IF few THEN <<Digit(0)>> ELSE SubSeq(src, 1, Len(src) - decimals)
      part  == WithoutLastZeros(
                 IF few THEN Repeated(Digit(0), decimals - Len(src)) \o src
                 ELSE SubSeq(src, Len(src) - decimals + 1, Len(src)))
      needed == IF src = <<Digit(0)>> THEN 2
                ELSE IF few THEN decimals + 3 ELSE Len(src) + 2
  IN  [ok |-> room >= needed,
       text |-> IF src = <<Digit(0)>> THEN src
                ELSE IF part = <<>> THEN whole ELSE whole \o <<Point>> \o part]

(* amountToString: the ticker and a space, if there is one, then the       *)
(* number, or nothing if it finds no room.  room is taken to hold the      *)
(* ticker; the array of the digits has 100 characters.                     *)
AmountToString(value, decimals, ticker, room) ==
  LET digits == Uint256ToDecimal(value, 100)
      before == IF ticker = <<>> THEN <<>> ELSE ticker \o <<Space>>
      number == AdjustDecimals(digits.text, room - Len(before), decimals)
  IN  IF ~digits.ok THEN [ok |-> FALSE, text |-> <<>>]
      ELSE [ok |-> number.ok,
            text |-> before \o (IF number.ok THEN number.text ELSE <<>>)]
=============================================================================
