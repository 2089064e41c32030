----------------------------- MODULE ByteStream -----------------------------
(***************************************************************************)
(* What the parsers rely on when they read a request: the data is a        *)
(* sequence, a read that succeeds returns the well-formed value it begins  *)
(* with and takes exactly its bytes, and one that fails brings no byte     *)
(* back.  Nothing here knows of sizes, offsets or the arithmetic on them.  *)
(*                                                                         *)
(* The one exception is a path whose last element is cut: it is accepted   *)
(* with whatever followed the data in memory, and nothing is taken.        *)
(***************************************************************************)
EXTENDS Integers, Sequences, SequencesExt

CONSTANTS Calls, WordLen, ShortLen, HashLen, MaxPath

VARIABLES
  data,  \* the bytes of the request
  left,  \* those not read yet
  call,  \* the last read
  result \* and what it returned

vars == <<data, left, call, result>>

First(s, n) == SubSeq(s, 1, n)
Rest(s, n)  == SubSeq(s, n + 1, Len(s))

(* The lengths a value of the kind of c may have at the beginning of s.    *)
Lengths(c, s) ==
  CASE c.kind \in {"bytes", "BE", "LE"} -> {c.n}
    [] c.kind = "bool"    -> {n \in {1} : s[1] \in {0, 1}}
    [] c.kind = "varuint" -> {n \in {1 + s[1]} : s[1] <= c.n}
    [] c.kind = "address" -> {1 + HashLen}
    [] c.kind = "cellref" -> {ShortLen + HashLen}
    [] c.kind = "move"    -> {n \in {Len(s)} : n <= c.n}
    [] c.kind = "path"    -> {n \in {c.n * WordLen} : c.n \in 1..MaxPath}

(* s begins with a value of n bytes for c.                                 *)
BeginsWith(c, s, n) ==
  /\ n <= Len(s)
  /\ c.kind \in {"bool", "varuint"} => Len(s) > 0
  /\ n \in Lengths(c, s)

Ordered(c, bytes) == IF c.kind = "LE" THEN Reverse(bytes) ELSE bytes

-----------------------------------------------------------------------------
Init ==
  /\ left = data
  /\ call = [kind |-> "none", n |-> 0]
  /\ result = [ok |-> FALSE, value |-> <<>>]

Take(c) ==
  \E n \in 0..Len(left) :
    /\ BeginsWith(c, left, n)
    /\ result' = [ok |-> TRUE, value |-> Ordered(c, First(left, n))]
    /\ left' = Rest(left, n)

Refuse(c) ==
  /\ \A n \in 0..Len(left) : ~BeginsWith(c, left, n)
  /\ result' = [ok |-> FALSE, value |-> <<>>]
  /\ \E n \in 0..Len(left) : left' = Rest(left, n)

AcceptCutPath(c) ==
  /\ c.kind = "path" /\ c.n \in 1..MaxPath
  /\ Len(left) \in ((c.n - 1) * WordLen)..(c.n * WordLen - 1)
  /\ result'.ok
  /\ UNCHANGED left

Read ==
  \E c \in Calls :
    /\ call' = c
    /\ Take(c) \/ Refuse(c) \/ AcceptCutPath(c)
    /\ UNCHANGED data

(* Going to any position of the data.                                      *)
Seek ==
  /\ \E n \in 0..Len(data) : left' = Rest(data, n)
  /\ UNCHANGED <<data, call, result>>

Next == Read \/ Seek

Spec == Init /\ [][Next]_vars
=============================================================================
