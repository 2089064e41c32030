------------------------------ MODULE AppTypes ------------------------------
(***************************************************************************)
(* The data the app works on (types.h, constants.h, sw.h): request types,  *)
(* the global context G_context, responses, and the vocabulary of the      *)
(* host's commands.                                                        *)
(*                                                                         *)
(* Request data is a sequence of serialized fields.  A field is a record   *)
(* whose component f names the part of the request layout it encodes       *)
(* (TxRequest and SignDataRequest say which); what it holds is abstract.   *)
(* A chunk may end after any field, and lengths are counted in fields.     *)
(***************************************************************************)
EXTENDS Naturals, Sequences

CONSTANTS
  Paths,      \* BIP32 paths below m/44'/607' with at least three elements
  NoPath,     \* bip32_path of a zeroed context
  Field,      \* the serialized fields a host may send
  Commands,   \* the commands a host may send
  NoCommand,  \* the zeroed command_t, and a host that waits for nothing
  MaxRawLen,  \* MAX_TRANSACTION_LEN and MAX_DATA_LEN, in fields
  MaxHints,   \* MAX_HINTS
  HashMayFail \* whether the cx_sha256 and cx_hash calls may report an error

(***************************************************************************)
(* How the path bytes of a command read: a path in Paths, or one of        *)
(*   "short"    a read past the data that bip32_path_read refuses,         *)
(*   "foreign"  a path that check_global_bip32_path refuses,               *)
(*   "cut"      data that ends one element early.                          *)
(***************************************************************************)
BadPaths == {"short", "foreign", "cut"}
PathValue == Paths \cup {NoPath, "short", "foreign"}

StatusWord ==
  {"SW_OK", "SW_DENY", "SW_WRONG_P1P2", "SW_WRONG_DATA_LENGTH",
   "SW_INS_NOT_SUPPORTED", "SW_CLA_NOT_SUPPORTED", "SW_DISPLAY_ADDRESS_FAIL",
   "SW_WRONG_TX_LENGTH", "SW_TX_PARSING_FAIL", "SW_WRONG_SIGN_DATA_LENGTH",
   "SW_SIGN_DATA_PARSING_FAIL", "SW_BAD_STATE", "SW_SIGNATURE_FAIL",
   "SW_REQUEST_TOO_LONG", "SW_BAD_BIP32_PATH"}

Instruction ==
  {"GET_VERSION", "GET_APP_NAME", "GET_PUBLIC_KEY", "SIGN_TX",
   "GET_ADDRESS_PROOF", "SIGN_DATA", "UNKNOWN"}

(***************************************************************************)
(* A command APDU.  framed: its length agrees with Lc; cla: the class is   *)
(* the app's; data: Lc is not zero.  path and fields say how the data read *)
(* as a BIP32 path and, after it or without it, as request fields.         *)
(***************************************************************************)
Command ==
  [framed : BOOLEAN, cla : BOOLEAN, ins : Instruction, p1 : 0..255,
   p2 : 0..255, data : BOOLEAN, path : Paths \cup BadPaths,
   fields : Seq(Field)]

RequestType ==
  {"CONFIRM_ADDRESS", "CONFIRM_TRANSACTION", "GET_PROOF", "CONFIRM_SIGN_DATA"}

ContextState == {"STATE_NONE", "STATE_PARSED", "STATE_APPROVED"}

(***************************************************************************)
(* What a signature is computed over.  The hash functions are taken to be  *)
(* injective: a digest is the content it covers.  A transaction's digest   *)
(* covers its fields up to the payload; a proof's the address of path on   *)
(* the chain flags pick and all that was sent; a data digest the fields    *)
(* that went into the cell.                                                *)
(***************************************************************************)
Digest ==
  [kind : {"none", "transaction", "proof", "data"}, path : PathValue,
   chain : {"basechain", "masterchain"}, fields : Seq(Field)]

NoDigest ==
  [kind |-> "none", path |-> NoPath, chain |-> "basechain", fields |-> <<>>]

(* A line of a review: its title, and the fields its body is printed from. *)
Title ==
  {"Comment", "Jetton units", "Send jetton to", "Send excess to",
   "Custom payload", "Forward amount", "Forward payload", "Text",
   "Contract address", "App domain", "Data hash", "Extension hash"}

Line == [item : Title, of : Seq(Field)]

(***************************************************************************)
(* G_context.  raw: raw_tx or raw_data; key: raw_public_key, as the path   *)
(* it was derived for; digest: what m_hash, hash or cell_hash cover;       *)
(* hints: the hint holder.  The members of its union are kept apart: a     *)
(* handler that changes the request type clears all of them first.         *)
(***************************************************************************)
Context ==
  [state : ContextState, req_type : RequestType, bip32_path : PathValue,
   key : PathValue, raw : Seq(Field), digest : Digest, hints : Seq(Line)]

(* explicit_bzero(&G_context): CONFIRM_ADDRESS is the request type 0.      *)
ZeroContext ==
  [state |-> "STATE_NONE", req_type |-> "CONFIRM_ADDRESS",
   bip32_path |-> NoPath, key |-> NoPath, raw |-> <<>>, digest |-> NoDigest,
   hints |-> <<>>]

Response ==
  [sw : StatusWord \cup {"none"},
   what : {"none", "version", "name", "key", "signature"},
   path : PathValue, digest : Digest]

Status(sw) == [sw |-> sw, what |-> "none", path |-> NoPath, digest |-> NoDigest]

(* G_output_len = 0 *)
NoResponse == Status("none")

Data(what) == [Status("SW_OK") EXCEPT !.what = what]

(* helper_send_response_pubkey and the three helper_send_response_sig      *)
KeyOf(c) == [Data("key") EXCEPT !.path = c.key]
SignatureOf(c) ==
  [Data("signature") EXCEPT !.path = c.bip32_path, !.digest = c.digest]

(***************************************************************************)
(* A review on the screen: which validate callback its buttons run, and    *)
(* what was formatted for it from the context.                             *)
(***************************************************************************)
Review ==
  [request : RequestType \cup {"none"}, path : PathValue, flags : 0..255,
   digest : Digest, lines : Seq(Line)]

NoReview ==
  [request |-> "none", path |-> NoPath, flags |-> 0, digest |-> NoDigest,
   lines |-> <<>>]

(* The titles a hints block can have, and the one part of an app-data      *)
(* request that has no flag saying whether it is there.                    *)
ASSUME FieldAssumption ==
  \A x \in Field : /\ x.f = "hints" => /\ x.items \in Seq(Title)
                                       /\ x.expert \in Seq(Title)
                   /\ x.f = "data" => x.has = TRUE

ASSUME TypesAssumption ==
  /\ NoPath \notin Paths
  /\ Paths \cap BadPaths = {}
  /\ NoPath \notin BadPaths
  /\ Commands \subseteq Command
  /\ NoCommand \notin Commands
  /\ MaxRawLen \in Nat
  /\ MaxHints \in Nat
  /\ HashMayFail \in BOOLEAN
=============================================================================
