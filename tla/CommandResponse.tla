-------------------------- MODULE CommandResponse --------------------------
(***************************************************************************)
(* What a host may rely on: every response on the wire is an answer to the *)
(* one command the host waits on, of the kind that command asks for, or    *)
(* the link is dropped and nothing of the exchange is left.                *)
(***************************************************************************)
EXTENDS AppTypes

VARIABLES
  pending,  \* the command the host waits on
  wire      \* the response being sent

crVars == <<pending, wire>>

IsLast(c) == c.p2 = 0

(* The commands whose answer is the user's.                                *)
Confirmable(c) ==
  \/ c.ins = "GET_PUBLIC_KEY" /\ c.p1 = 1
  \/ c.ins = "GET_ADDRESS_PROOF"
  \/ c.ins \in {"SIGN_TX", "SIGN_DATA"} /\ IsLast(c)

Signs(c, r) ==
  CASE c.ins = "GET_ADDRESS_PROOF" ->
         /\ r.digest.kind = "proof"
         /\ r.path = c.path
         /\ r.digest.path = c.path
         /\ r.digest.fields = c.fields
    [] c.ins = "SIGN_TX"   -> IsLast(c) /\ r.digest.kind = "transaction"
    [] c.ins = "SIGN_DATA" -> IsLast(c) /\ r.digest.kind = "data"
    [] c.ins \notin {"GET_ADDRESS_PROOF", "SIGN_TX", "SIGN_DATA"} -> FALSE

Answers(c, r) ==
  CASE r.what = "version"   -> c.ins = "GET_VERSION"
    [] r.what = "name"      -> c.ins = "GET_APP_NAME"
    [] r.what = "key"       -> c.ins = "GET_PUBLIC_KEY" /\ c.path \in {r.path, "cut"}
    [] r.what = "signature" -> Signs(c, r)
    [] r.what = "none"      ->
         /\ r.sw = "SW_OK" => c.ins \in {"SIGN_TX", "SIGN_DATA"} /\ ~IsLast(c)
         /\ r.sw \in {"SW_DENY", "SW_SIGNATURE_FAIL"} => Confirmable(c)

Idle == pending = NoCommand /\ wire = NoResponse

Init == Idle

Send == Idle /\ pending' \in Commands /\ UNCHANGED wire

Reply ==
  /\ pending # NoCommand
  /\ wire = NoResponse
  /\ wire' # NoResponse
  /\ Answers(pending, wire')
  /\ UNCHANGED pending

Deliver == wire # NoResponse /\ Idle'

Drop == Idle'

Spec == Init /\ [][Send \/ Reply \/ Deliver \/ Drop]_crVars
=============================================================================
