------------------------------ MODULE MCBuffer ------------------------------
(* Requests of up to four bytes, and the bytes that follow them in memory. *)
(* Bytes have two bits, elements of a path two bytes, hashes one; size_t   *)
(* has four bits.                                                          *)
EXTENDS BufferReader

MCInputs ==
  {[bytes |-> b \o <<1, 2>>, size |-> n] : b \in [1..4 -> {0, 1, 2}], n \in 0..4}

MCCalls ==
  [kind : {"bytes", "move", "varuint"}, n : {0, 1, 2, 4}]
    \cup [kind : {"BE", "LE"}, n : {2, 3}]
    \cup [kind : {"bool", "address", "cellref"}, n : {1}]
    \cup [kind : {"path"}, n : {0, 1, 2, 3}]

MCSeeks == {0, 1, 3, 14, 15}
=============================================================================
