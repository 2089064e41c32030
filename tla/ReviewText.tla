----------------------------- MODULE ReviewText -----------------------------
(***************************************************************************)
(* The text of the reviews: common/hints.c, ui/hint_buffers_nbgl.c,        *)
(* ui/helpers/ and the hint pages of ui/display_bagl.c, with what          *)
(* proof_deserialize hashes.  The buffers are global: they hold what the   *)
(* last review left.  A request is of one of the kinds                     *)
(*                                                                         *)
(*   [kind |-> "tx", value, to, bounce, send_mode, lines]                  *)
(*   [kind |-> "data", lines]                                              *)
(*   [kind |-> "address", key, flags]                                      *)
(*   [kind |-> "proof", key, flags, bytes]                                 *)
(*                                                                         *)
(* with the lines [item, body] TxParser and DataParser leave in the hint   *)
(* holder.  Characters are codes; those of a title are pairs.              *)
(***************************************************************************)
EXTENDS AmountText, Friendly, ByteBuffer, FiniteSetsExt

CONSTANTS
  Requests,
  Leftovers, \* what a buffer may be filled with before
  NUL        \* the character that ends a text

VARIABLES
  request,
  nbgl,     \* HAVE_NBGL; otherwise HAVE_BAGL
  pc,       \* "format", "print", "shown" or "refused"
  titles,   \* g_hint_title_buffer, or g_hint_title
  bodies,   \* g_hint_buffer, or g_hint_body
  titleAt,  \* hint_title_buffer_offset
  bodyAt,   \* hint_buffer_offset
  pairs,    \* NBGL: where the lines begin
  page,     \* BAGL: the page on the screen
  amount,   \* g_amount, g_address and g_domain, without the NUL
  address,
  domain,
  hashed    \* what the signed or the shown hash is the hash of

buffers == <<titles, bodies, titleAt, bodyAt, pairs>>
vars == <<request, nbgl, pc, buffers, page, amount, address, domain, hashed>>

-----------------------------------------------------------------------------
Ascii == 32..126
TON == <<84, 79, 78>>
CharsOf(title) == [i \in 1..Len(title) |-> <<title, i>>]

AllYourTons  == CharsOf("ALL YOUR TONs")
NotDisplayed == CharsOf("<cannot display>")

(* What add_hint_text, _hash, _amount and _address are called with.        *)
Text(body)  == [kind |-> "text", body |-> body]
Hash(body)  == [kind |-> "hash", body |-> body]
Friend(body, bounceable) ==
  [kind |-> "address", body |-> body, bounceable |-> bounceable]
Units(body, ticker, decimals) ==
  [kind |-> "amount", body |-> body, ticker |-> ticker, decimals |-> decimals]

HintOf(line) ==
  CASE line.item \in {"Comment", "Text", "App domain"} -> Text(line.body)
    [] line.item \in {"Custom payload", "Forward payload", "Data hash", "Extension hash"}
         -> Hash(line.body)
    [] line.item = "Jetton units"     -> Units(line.body, <<>>, 0)
    [] line.item = "Forward amount"   -> Units(line.body, TON, 9)
    [] line.item = "Contract address" -> Friend(line.body, TRUE)
    [] line.item \in {"Send jetton to", "Send excess to"} -> Friend(line.body, FALSE)

Hints == IF request.kind \in {"tx", "data"} THEN request.lines ELSE <<>>

-----------------------------------------------------------------------------
(* strncpy's zeros, and base64 in an array that has been cleared.          *)
Filled(text, room) == text \o [i \in 1..(room - Len(text)) |-> NUL]

Truncated(text, room) == SubSeq(text, 1, room - 2) \o <<126, NUL>>

(* print_string                                                            *)
PrintString(text, room) ==
  IF Len(text) < room THEN Filled(text, room) ELSE Truncated(text, room)

(* What print_hint writes in an array of that many characters.  Zeros that *)
(* were behind the point, and the last character of the array, which       *)
(* amountToString clears, lie behind the NUL.                              *)
PrintBody(hint, room) ==
  CASE hint.kind = "text" ->
         IF Len(hint.body) < room THEN Append(hint.body, NUL)
         ELSE Truncated(hint.body, room)
    [] hint.kind = "hash" ->
         IF Len(Base64(hint.body)) < room THEN Append(Base64(hint.body), NUL) ELSE <<>>
    [] hint.kind = "amount" ->
         LET a == AmountToString(hint.body, hint.decimals, hint.ticker, room)
         IN  IF a.ok THEN Append(a.text, NUL) ELSE a.text
    [] hint.kind = "address" ->
         LET bytes == AddressToFriendly(hint.body[1], Tail(hint.body),
                                        hint.bounceable, FALSE)
         IN  Filled(IF Len(Base64(bytes)) < room THEN Base64(bytes) ELSE <<>>, room)

Put(array, at, text) ==
  [i \in 1..Len(array) |->
     IF i - at \in 1..Len(text) THEN text[i - at] ELSE array[i]]

(* The text at an offset, up to the NUL or the end (strnlen).              *)
TextAt(array, at) ==
  LET nuls == {i \in (at + 1)..Len(array) : array[i] = NUL}
  IN  SubSeq(array, at + 1, IF nuls = {} THEN Len(array) ELSE Min(nuls) - 1)

(* Seeded fault: the next line begins on the NUL of the last.              *)
NextAtNul(array, at) == at + Len(TextAt(array, at))

Next_(array, at) == at + Len(TextAt(array, at)) + 1

(* print_hint of line i, at these offsets.                                 *)
PrintHint(i, t, b) ==
  LET line == Hints[i]
  IN  /\ titles' = Put(titles, t, PrintString(CharsOf(line.item), Len(titles) - t))
      /\ bodies' = Put(bodies, b, PrintBody(HintOf(line), Len(bodies) - b))

-----------------------------------------------------------------------------
Init ==
  /\ request \in Requests /\ nbgl \in BOOLEAN
  /\ pc = "format" /\ titleAt = 0 /\ bodyAt = 0 /\ pairs = <<>> /\ page = 0
  /\ \E c \in Leftovers :
       /\ titles = Repeated(c, IF nbgl THEN 256 ELSE 32)  \* 32 * MAX_HINTS
       /\ bodies = Repeated(c, IF nbgl THEN 512 ELSE 256) \* 64 * MAX_HINTS
  /\ amount = <<>> /\ address = <<>> /\ domain = <<>> /\ hashed = <<>>

Shows(friendly) == address' = Base64(friendly)

(* display_transaction                                                     *)
FormatTransaction ==
  /\ pc = "format" /\ request.kind = "tx"
  /\ LET text == AmountToString(request.value, 9, TON, 44)
         all  == (request.send_mode \div 2^7) % 2 = 1
     IN  IF ~all /\ ~text.ok
         THEN pc' = "refused" /\ amount' = text.text /\ UNCHANGED address
         ELSE /\ amount' = IF all THEN AllYourTons ELSE text.text
              /\ Shows(AddressToFriendly(request.to[1], Tail(request.to),
                                         request.bounce, FALSE))
              /\ pc' = "print"
  /\ UNCHANGED <<request, nbgl, buffers, page, domain, hashed>>

FormatData ==
  /\ pc = "format" /\ request.kind = "data"
  /\ pc' = "print"
  /\ UNCHANGED <<request, nbgl, buffers, page, amount, address, domain, hashed>>

-----------------------------------------------------------------------------
(* The flags of an address: P2_ADDR_FLAG_TESTNET, _MASTERCHAIN.            *)
Testnet     == request.flags % 2 = 1
Masterchain == request.flags \div 2 = 1

(* display_address                                                         *)
FormatAddress ==
  /\ pc = "format" /\ request.kind = "address"
  /\ hashed' = StateInit(request.key)
  /\ Shows(AddressFromPubkey(request.key, IF Masterchain THEN 255 ELSE 0, FALSE, Testnet))
  /\ pc' = "shown"
  /\ UNCHANGED <<request, nbgl, buffers, page, amount, domain>>

(* deserialize_proof, after the path: each part is read if those before    *)
(* it could be.                                                            *)
ProofParts(b) ==
  LET length  == ReadBytes(b, 1)
      name    == ReadBytes(length.buf, length.value[1])
      time    == ReadUint(name.buf, LongLen, "BE")
      payload == Move(time.buf, 128)
  IN  IF ~length.ok THEN [ok |-> FALSE]
      ELSE IF length.value[1] > 128 \/ ~name.ok THEN [ok |-> FALSE]
      ELSE [ok |-> time.ok /\ payload.ok, domain_len |-> length.value[1],
            domain |-> name.value, timestamp |-> time.value, payload |-> payload.value]

(* workchain: an int32_t, as its bytes.                                    *)
Workchain == IF Masterchain THEN Repeated(255, WordLen) ELSE Repeated(0, WordLen)

ProofHashed(p) ==
  << "ton-connect",
     <<"ton-proof-item-v2/">> \o Workchain \o Digest(StateInit(request.key))
       \o <<p.domain_len, 0, 0, 0>> \o p.domain \o Reverse(p.timestamp) \o p.payload >>

(* Seeded fault: every address is of the base chain.                       *)
ProofChainBase == 0

(* display_proof                                                           *)
ProofChain == IF Workchain = Repeated(255, WordLen) THEN 255 ELSE 0

FormatProof ==
  /\ pc = "format" /\ request.kind = "proof"
  /\ LET p == ProofParts(Buffer(request.bytes, Len(request.bytes)))
     IN  IF ~p.ok THEN pc' = "refused" /\ UNCHANGED <<address, domain, hashed>>
         ELSE /\ hashed' = ProofHashed(p)
              /\ Shows(AddressToFriendly(ProofChain, Digest(StateInit(request.key)),
                                         FALSE, Testnet))
              /\ domain' = IF ToSet(p.domain) \subseteq Ascii THEN p.domain ELSE NotDisplayed
              /\ pc' = "shown"
  /\ UNCHANGED <<request, nbgl, buffers, page, amount>>

-----------------------------------------------------------------------------
(* print_hints: all lines, one behind the other.                           *)
PrintNextHint ==
  /\ pc = "print" /\ nbgl /\ Len(pairs) < Len(Hints)
  /\ PrintHint(Len(pairs) + 1, titleAt, bodyAt)
  /\ pairs' = Append(pairs, [item |-> titleAt, value |-> bodyAt])
  /\ titleAt' = Next_(titles', titleAt)
  /\ bodyAt'  = Next_(bodies', bodyAt)
  /\ UNCHANGED <<request, nbgl, pc, page, amount, address, domain, hashed>>

ShowPairs ==
  /\ pc = "print" /\ nbgl /\ Len(pairs) = Len(Hints)
  /\ pc' = "shown"
  /\ UNCHANGED <<request, nbgl, buffers, page, amount, address, domain, hashed>>

(* The pages of BAGL's flow: those before the lines, the lines, Approve    *)
(* and Reject; g_hint_offset is the number of the first, negated.          *)
PagesBefore == IF request.kind = "tx" THEN 3 ELSE 1
LineOf(p) == p - PagesBefore + 1
HasLine(p) == LineOf(p) \in 1..Len(Hints)

StartFlow ==
  /\ pc = "print" /\ ~nbgl
  /\ pc' = "shown"
  /\ UNCHANGED <<request, nbgl, buffers, page, amount, address, domain, hashed>>

(* The hint step prints its line when it is entered, from either side.     *)
TurnPage ==
  /\ pc = "shown" /\ ~nbgl /\ request.kind \in {"tx", "data"}
  /\ page' \in {page - 1, page + 1} \cap 0..(PagesBefore + Len(Hints) + 1)
  /\ IF HasLine(page') THEN PrintHint(LineOf(page'), 0, 0)
     ELSE UNCHANGED <<titles, bodies>>
  /\ UNCHANGED <<request, nbgl, pc, titleAt, bodyAt, pairs, amount, address, domain, hashed>>

Next ==
  \/ FormatTransaction \/ FormatData \/ FormatAddress \/ FormatProof
  \/ PrintNextHint \/ ShowPairs \/ StartFlow \/ TurnPage

Spec == Init /\ [][Next]_vars
=============================================================================
