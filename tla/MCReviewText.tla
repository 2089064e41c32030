---------------------------- MODULE MCReviewText ----------------------------
(* Requests of real size, the longest among them, in buffers of real size  *)
(* with and without the remains of other reviews.                          *)
EXTENDS ReviewTextProperties

(* Any 32 bytes that depend on what is hashed.                             *)
MCDigest(rep) ==
  LET data == rep[Len(rep)]
      sum  == FoldLeft(LAMBDA s, b : (3 * s + b) % 251, 7, data)
  IN  [i \in 1..32 |-> (sum * i + rep[3]) % 256]

Bytes32(a, b) == [i \in 1..32 |-> (a * i + b) % 256]
Body(chain, a) == <<chain>> \o Bytes32(a, a)
Long(n) == [i \in 1..n |-> 33 + ((7 * i) % 90)]

(* Amounts with each number of digits on either side of the point.         *)
Amounts ==
  {<<>>, <<0>>, <<0, 0, 0>>, <<1>>, <<9>>, <<10>>, <<100>>, <<0, 1>>, <<3, 232>>,
   <<39, 16>>, <<5, 245, 225, 0>>, <<59, 154, 202, 0>>, <<59, 154, 202, 1>>,
   <<59, 154, 201, 255>>, <<2, 84, 11, 228, 0>>, <<23, 72, 118, 232, 0>>}
  \cup {<<b>> \o Repeated(0, n) : b \in {1, 100, 255}, n \in 1..14}
  \cup {Repeated(255, n) : n \in 1..15}
  \cup {[i \in 1..15 |-> (37 * i) % 256]}

Transfer(units, custom, fwd, payload) ==
  <<[item |-> "Jetton units", body |-> units],
    [item |-> "Send jetton to", body |-> Body(0, 5)],
    [item |-> "Send excess to", body |-> Body(255, 11)]>>
  \o (IF custom THEN <<[item |-> "Custom payload", body |-> Bytes32(3, 1)]>> ELSE <<>>)
  \o <<[item |-> "Forward amount", body |-> fwd]>>
  \o (IF payload THEN <<[item |-> "Forward payload", body |-> Bytes32(255, 4)]>> ELSE <<>>)

NoExpert(lines) == SubSeq(lines, 1, 2)
Comment(n) == <<[item |-> "Comment", body |-> Long(n)]>>
TextLine(n) == <<[item |-> "Text", body |-> Long(n)]>>

App(addr, n, ext) ==
  (IF addr THEN <<[item |-> "Contract address", body |-> Body(0, 9)]>> ELSE <<>>)
  \o (IF n < 0 THEN <<>> ELSE <<[item |-> "App domain", body |-> Long(n)]>>)
  \o <<[item |-> "Data hash", body |-> Bytes32(0, 255)]>>
  \o (IF ext THEN <<[item |-> "Extension hash", body |-> Bytes32(7, 7)]>> ELSE <<>>)

Tx(value, to, bounce, mode, lines) ==
  [kind |-> "tx", value |-> value, to |-> to, bounce |-> bounce,
   send_mode |-> mode, lines |-> lines]

Max15 == Repeated(255, 15)

Transactions ==
  {Tx(v, Body(0, 1), b, 3, <<>>) : v \in Amounts, b \in BOOLEAN}
  \cup {Tx(<<1>>, Body(c, 200), FALSE, m, Comment(n)) :
          c \in {0, 255}, m \in {0, 127, 128, 255}, n \in {0, 1, 120}}
  \cup {Tx(Max15, Body(0, 1), TRUE, 3, Transfer(v, c, w, p)) :
          v \in {<<>>, <<10>>, Max15}, w \in {<<59, 154, 202, 0>>, Max15},
          c \in BOOLEAN, p \in BOOLEAN}
  \cup {Tx(<<1>>, Body(0, 1), TRUE, 3, NoExpert(Transfer(v, FALSE, <<>>, FALSE))) :
          v \in {<<>>, Max15}}

Data ==
  {[kind |-> "data", lines |-> TextLine(n)] : n \in {0, 1, 127, 128, 188}}
  \cup {[kind |-> "data", lines |-> App(a, n, e)] :
          a \in BOOLEAN, n \in {-1, 0, 5, 126}, e \in BOOLEAN}

Addresses ==
  {[kind |-> "address", key |-> Bytes32(k, k), flags |-> f] : k \in {0, 1, 77, 255}, f \in 0..3}

ProofBytes(n, m) == <<n>> \o Long(n) \o <<0, 1, 2, 3, 4, 5, 6, 7>> \o Long(m)

Proofs ==
  {[kind |-> "proof", key |-> Bytes32(5, 3), flags |-> f, bytes |-> b] :
     f \in 0..3,
     b \in {ProofBytes(0, 0), ProofBytes(4, 3), ProofBytes(128, 100), ProofBytes(129, 3),
            ProofBytes(4, 129), <<2, 33, 200, 9, 8, 7, 6, 5, 4, 3, 2>>, <<>>, <<3, 33>>,
            SubSeq(ProofBytes(4, 0), 1, 12)}}

MCRequests == Transactions \cup Data \cup Addresses \cup Proofs
=============================================================================
