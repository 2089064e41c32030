------------------------ MODULE ReviewTextProperties ------------------------
(***************************************************************************)
(* What a user learns from a review: the texts on the screen are read the  *)
(* way a wallet reads an address and a person a number, without the        *)
(* operators that have written them.                                       *)
(***************************************************************************)
EXTENDS ReviewText, CellReader

(* A number from its bits or digits, as sixteen bytes: 2^31 is too little. *)
TimesPlus(bytes, factor, plus) ==
  LET Step(byte, s) ==
        LET n == byte * factor + s.carry
        IN  [carry |-> n \div 256, bytes |-> <<n % 256>> \o s.bytes]
  IN  FoldRight(Step, bytes, [carry |-> plus, bytes |-> <<>>]).bytes

ToBytes16(bytes) == Repeated(0, 16 - Len(bytes)) \o bytes

IsNumber(text) == text # <<>> /\ \A i \in 1..Len(text) : text[i] \in 48..57

DigitsValue(text) ==
  FoldLeft(LAMBDA n, c : TimesPlus(n, 10, c - 48), Repeated(0, 16), text)

(* text is the amount value, written with the ticker and the fewest digits *)
(* that show it to that many decimals.                                     *)
SaysAmount(text, value, ticker, decimals) ==
  LET start == IF ticker = <<>> THEN 0 ELSE Len(ticker) + 1
      number == SubSeq(text, start + 1, Len(text))
      points == {i \in 1..Len(number) : number[i] = 46}
      point  == IF points = {} THEN Len(number) + 1 ELSE Min(points)
      whole  == SubSeq(number, 1, point - 1)
      part   == SubSeq(number, point + 1, Len(number))
  IN  /\ ticker # <<>> => SubSeq(text, 1, start) = Append(ticker, 32)
      /\ IsNumber(whole) /\ (Len(whole) > 1 => whole[1] # 48)
      /\ points # {} => IsNumber(part) /\ part[Len(part)] # 48 /\ Len(part) <= decimals
      /\ DigitsValue(whole \o part \o Repeated(48, decimals - Len(part))) = ToBytes16(value)

-----------------------------------------------------------------------------
(* The bytes of a text in the URL-safe alphabet, without padding.          *)
Base64Value(c) ==
  CASE c \in 65..90 -> c - 65
    [] c \in 97..122 -> c - 71
    [] c \in 48..57 -> c + 4
    [] c = 45 -> 62
    [] c = 95 -> 63

FromBase64(text) ==
  LET core == SelectSeq(text, LAMBDA c : c # 61)
      bits == FlattenSeq([i \in 1..Len(core) |-> UintBits(Base64Value(core[i]), 6)])
  IN  [k \in 1..(Len(bits) \div 8) |-> Number(SubSeq(bits, 8 * k - 7, 8 * k))]

(* The remainder by x^16 + x^12 + x^5 + 1 is zero.  A polynomial is the    *)
(* set of its exponents; Power[e] is what x^e leaves.                      *)
Plus(p, q) == (p \ q) \cup (q \ p)

Remainder(exponents) ==
  LET Power[e \in 0..23] ==
        LET times == {d + 1 : d \in Power[e - 1]}
        IN  IF e < 16 THEN {e}
            ELSE IF 16 \in times THEN Plus(times \ {16}, {12, 5, 0}) ELSE times
  IN  {d \in 0..15 : Cardinality({e \in exponents : d \in Power[e]}) % 2 = 1}

Divisible(bytes) ==
  LET Exponents(byte) == {e \in 0..7 : (byte \div 2^e) % 2 = 1}
      Extend(p, byte) == Remainder(Plus({e + 8 : e \in p}, Exponents(byte)))
  IN  FoldLeft(Extend, {}, bytes) = {}

(* A friendly address.                                                     *)
ReadFriendly(text) ==
  LET bytes == FromBase64(text)
      tag   == bytes[1] % 128
  IN  [ok |-> Len(bytes) = 36 /\ tag \in {17, 81} /\ Divisible(bytes),
       bounceable |-> tag = 17,
       testOnly |-> bytes[1] >= 128,
       body |-> SubSeq(bytes, 2, 34)]

SaysAddress(text, body, bounceable, testOnly) ==
  /\ Len(text) = 48
  /\ ReadFriendly(text) = [ok |-> TRUE, bounceable |-> bounceable,
                           testOnly |-> testOnly, body |-> body]

-----------------------------------------------------------------------------
(* What the text of each line has to say.                                  *)
Says(item, text, body) ==
  CASE item \in {"Comment", "Text", "App domain"} -> text = body
    [] item \in {"Custom payload", "Forward payload", "Data hash", "Extension hash"}
         -> Len(text) = 44 /\ FromBase64(text) = body
    [] item = "Jetton units"   -> SaysAmount(text, body, <<>>, 0)
    [] item = "Forward amount" -> SaysAmount(text, body, TON, 9)
    [] item = "Contract address" -> SaysAddress(text, body, TRUE, FALSE)
    [] item \in {"Send jetton to", "Send excess to"} ->
         SaysAddress(text, body, FALSE, FALSE)

LineReads(line, title, text) ==
  title = CharsOf(line.item) /\ Says(line.item, text, line.body)

(* hints.c, hint_buffers_nbgl.c, display_bagl.c: each line of the request  *)
(* is on the screen with its title, whole and saying what the request      *)
(* says: the lines that share a buffer do not run into each other, nothing *)
(* of an earlier review or page is left, no line is cut; on BAGL, each     *)
(* page has the line that belongs there.                                   *)
LinesReadBack ==
  (pc = "shown" /\ request.kind \in {"tx", "data"}) =>
    IF nbgl
    THEN \A i \in 1..Len(Hints) :
           LineReads(Hints[i], TextAt(titles, pairs[i].item), TextAt(bodies, pairs[i].value))
    ELSE HasLine(page) =>
           LineReads(Hints[LineOf(page)], TextAt(titles, 0), TextAt(bodies, 0))

(* display_transaction.c: the amount and the address on the screen say     *)
(* what is sent, where and with which bounce flag; mode 128 sends all.     *)
TransferReadsBack ==
  (pc # "format" /\ request.kind = "tx") =>
    /\ pc # "refused"
    /\ IF request.send_mode >= 128 THEN amount = CharsOf("ALL YOUR TONs")
       ELSE SaysAmount(amount, request.value, TON, 9)
    /\ SaysAddress(address, request.to, request.bounce, FALSE)

-----------------------------------------------------------------------------
(* address.c: the hash of the address that is shown is that of a state-    *)
(* init with the wallet's code and data: no seqno yet, the wallet id that  *)
(* hash.c puts into each order, the key, no plugins.                       *)
StateInitSchema ==
  << Part("split_depth", "tag", <<0>>), Part("special", "tag", <<0>>),
     Part("code", "maybe^", <<1>>), Part("data", "maybe^", <<1>>),
     Part("library", "tag", <<0>>) >>

DataSchema ==
  << Part("seqno", "uint", 32), Part("wallet", "uint", 32),
     Part("key", "uint", 256), Part("plugins", "tag", <<0>>) >>

OrderWallet == <<0>> \o UintBits(698983191, 31)

AddressOfWallet ==
  (pc = "shown" /\ request.kind = "address") =>
    LET init == ReadBy(StateInitSchema, CellOf(hashed))
        data == ReadBy(DataSchema, CellOf(init.values.data.hash))
        shown == ReadFriendly(address)
    IN  /\ init.ok /\ data.ok /\ init.values.data.max_depth = 0
        /\ data.values.seqno = Repeated(0, 32)
        /\ data.values.wallet = OrderWallet
        /\ data.values.key = BytesBits(request.key)
        /\ shown.ok /\ ~shown.bounceable /\ (shown.testOnly <=> request.flags \in {1, 3})
        /\ shown.body = <<IF request.flags \in {2, 3} THEN 255 ELSE 0>> \o Digest(hashed)

(* proof_deserialize.c, display_proof.c: the proof that is signed is, byte *)
(* by byte, the TON Connect message (as application_client/ton_utils.py    *)
(* builds it) for the address on the screen, whose one byte of workchain   *)
(* stands for four, and the domain on the screen.                          *)
SignExtended(chain) == IF chain < 128 THEN <<0, 0, 0, chain>> ELSE <<255, 255, 255, chain>>

ProofShowsWhatItSigns ==
  (pc = "shown" /\ request.kind = "proof") =>
    LET message == hashed[2]
        shown   == ReadFriendly(address)
        length  == message[38]
        signed  == SubSeq(message, 42, 41 + length)
        sent    == SubSeq(request.bytes, 2 + length, Len(request.bytes))
    IN  /\ shown.ok /\ (shown.testOnly <=> request.flags \in {1, 3})
        /\ SubSeq(message, 2, 5) = SignExtended(shown.body[1])
        /\ (shown.body[1] = 255) <=> request.flags \in {2, 3}
        /\ SubSeq(message, 6, 37) = Tail(shown.body)
        /\ SubSeq(message, 38, 41) = <<request.bytes[1], 0, 0, 0>>
        /\ signed = SubSeq(request.bytes, 2, 1 + length)
        /\ IF \A i \in 1..length : signed[i] \in 32..126 THEN domain = signed
           ELSE domain = CharsOf("<cannot display>")
        /\ SubSeq(message, 42 + length, Len(message))
             = Reverse(SubSeq(sent, 1, 8)) \o SubSeq(sent, 9, Len(sent))
=============================================================================
