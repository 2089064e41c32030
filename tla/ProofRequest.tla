---------------------------- MODULE ProofRequest ----------------------------
(***************************************************************************)
(* proof/proof_deserialize.c: the address proof request, sent in a single  *)
(* command.  After the path come                                           *)
(*                                                                         *)
(*   [f |-> "proof_domain", long, ascii]   the domain and its length       *)
(*   [f |-> "timestamp"]                                                   *)
(*   [f |-> "proof_payload", long]         if it is not empty              *)
(***************************************************************************)
EXTENDS AppTypes

(* The status word the fields are refused with, in the order of the code's *)
(* tests; SW_OK when they are read to the end.                             *)
ProofStatus(fields) ==
  CASE Len(fields) = 0 -> "SW_WRONG_DATA_LENGTH"
    [] Len(fields) > 0 ->
         IF fields[1].long THEN "SW_REQUEST_TOO_LONG"
         ELSE IF Len(fields) = 1 THEN "SW_WRONG_DATA_LENGTH"
         ELSE IF Len(fields) > 2 /\ fields[3].long THEN "SW_REQUEST_TOO_LONG"
         ELSE "SW_OK"

(* What is hashed and signed: the address of the path's key in the         *)
(* workchain the flags pick, and the fields.                               *)
ProofDigest(path, chain, fields) ==
  [kind |-> "proof", path |-> path, chain |-> chain, fields |-> fields]

(* display_proof: a domain that is not ASCII is not displayed.             *)
DomainLine(digest) ==
  [item |-> "App domain",
   of |-> IF digest.fields[1].ascii THEN SubSeq(digest.fields, 1, 1) ELSE <<>>]
=============================================================================
