--------------------------- MODULE SigningConsent ---------------------------
(***************************************************************************)
(* What the user may rely on: a review stays as it was shown until it is   *)
(* answered, and the only signature there ever is to send is the one over  *)
(* what the open review shows, for the path it shows.                      *)
(***************************************************************************)
EXTENDS AppTypes

VARIABLES
  review,    \* what the user is looking at
  released   \* the signature there is to send

scVars == <<review, released>>

Closed == review = NoReview /\ released = NoResponse

Init == Closed

Present == Closed /\ review' # NoReview /\ UNCHANGED released

(* The reviews of which a signature can come, and the signature.           *)
KindReviewed(request) ==
  CASE request = "CONFIRM_TRANSACTION" -> "transaction"
    [] request = "GET_PROOF"           -> "proof"
    [] request = "CONFIRM_SIGN_DATA"   -> "data"
    [] request \in {"CONFIRM_ADDRESS", "none"} -> "none"

Consented(r, s) ==
  /\ r.request \in {"CONFIRM_TRANSACTION", "GET_PROOF", "CONFIRM_SIGN_DATA"}
  /\ r.path \in Paths
  /\ s.path = r.path
  /\ s.digest = r.digest
  /\ s.digest.kind = KindReviewed(r.request)

Release ==
  /\ review # NoReview
  /\ released = NoResponse
  /\ released' # NoResponse
  /\ Consented(review, released')
  /\ UNCHANGED review

Close == Closed'

Spec == Init /\ [][Present \/ Release \/ Close]_scVars
=============================================================================
