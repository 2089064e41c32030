---------------------------- MODULE BufferReader ----------------------------
(***************************************************************************)
(* A parser at work on a buffer_t: any sequence of calls of the interface  *)
(* of common/buffer.h on any request, also after a call that failed.       *)
(***************************************************************************)
EXTENDS ByteBuffer

CONSTANTS
  Inputs, \* requests: [bytes |-> the memory, size |-> how much is data]
  Calls,  \* the reads, as [kind, n]
  Seeks   \* the arguments of the seeks

ASSUME InputsAssumption ==
  /\ \A i \in Inputs :
       /\ i.bytes \in Seq(Byte) /\ i.size \in Nat /\ i.size < SizeMod
       /\ i.size + WordLen <= Len(i.bytes)
  /\ Seeks \subseteq 0..(SizeMod - 1)

Kinds ==
  {"bytes", "BE", "LE", "bool", "varuint", "address", "cellref", "move", "path"}

(* Constants of the program, or bytes it has read: none is near 2^32.      *)
ASSUME CallsAssumption ==
  \A c \in Calls :
    c.kind \in Kinds /\ c.n \in Nat /\ c.n < SizeMod /\ c.n * WordLen < SizeMod

VARIABLES
  buf,   \* the buffer_t
  call,  \* the last read
  result \* and what it returned

vars == <<buf, call, result>>

Init ==
  /\ \E i \in Inputs : buf = Buffer(i.bytes, i.size)
  /\ call = [kind |-> "none", n |-> 0]
  /\ result = [ok |-> FALSE, value |-> <<>>]

Read(c) ==
  LET r == ReadCall(buf, c)
  IN  /\ call' = c
      /\ result' = [ok |-> r.ok, value |-> r.value]
      /\ buf' = r.buf

Seek(n) ==
  /\ buf' \in {SeekSet(buf, n), SeekCur(buf, n), SeekEnd(buf, n)}
  /\ UNCHANGED <<call, result>>

Next ==
  \/ \E c \in Calls : Read(c)
  \/ \E n \in Seeks : Seek(n)

Spec == Init /\ [][Next]_vars

-----------------------------------------------------------------------------
(* A buffer_t over request data with some memory behind it.                *)
Buffers ==
  {b \in [ptr : Seq(Byte), size : Nat, offset : Nat] :
     b.size < SizeMod /\ b.size + WordLen <= Len(b.ptr)}

(* The types of the state: the data is smaller than size_t can count and   *)
(* all of it, with the rest of a cut path, is in memory.                   *)
TypeOK ==
  /\ buf \in Buffers
  /\ result.ok \in BOOLEAN

(* buffer.c: the position stays in the data, whatever was read or sought   *)
(* before, so that the unsigned size - offset of buffer_remaining is the   *)
(* number of bytes left and no later read leaves the data.                 *)
OffsetInside == buf.offset \in 0..buf.size

(* Together they are inductive.                                            *)
IInv == TypeOK /\ OffsetInside

(* buffer.h: every call returns the bytes at the position the previous     *)
(* ones left, in the order asked for, and moves past exactly these; sizes, *)
(* unsigned differences and sums that wrap around do not show.             *)
Stream ==
  INSTANCE ByteStream WITH
    data <- SubSeq(buf.ptr, 1, buf.size),
    left <- SubSeq(buf.ptr, buf.offset + 1, buf.size)

ReadsTheStream == Stream!Spec

(* bip32.h:13-27 and test_bip32.c:84: a path that is longer than the data  *)
(* left is not read.  bip32_path_read lets the last element be cut.        *)
PathInData ==
  [][\A c \in Calls :
       (Read(c) /\ c.kind = "path" /\ result'.ok)
         => c.n * WordLen <= buf.size - buf.offset]_vars
=============================================================================
