-------------------------- MODULE TonAppInvariant --------------------------
(***************************************************************************)
(* The inductive invariants behind the safety properties and the two       *)
(* refinements, for both user interfaces, with and without failing hash    *)
(* functions: IInv for the link and the reviews, and on top of it          *)
(* UploadInv for the content of the context and AnswerInv for the command  *)
(* the host waits on.                                                      *)
(***************************************************************************)
EXTENDS TonAppProperties

(* A command is dispatched only while the host waits for its answer.       *)
DispatchInv ==
  pc = "dispatch" =>
    cmd \in Commands /\ G_io_state = "RECEIVED" /\ pending # NoCommand

(* A review is open from the end of its handler to the end of its answer:  *)
(* all that time the host waits and io.c is on its way to WAITING.         *)
ReviewLinkInv ==
  /\ screen \in ReviewScreens =>
       /\ pc \in {"recv", "exchange", "answering"}
       /\ pending # NoCommand
       /\ G_io_state = IF pc = "recv" THEN "RECEIVED" ELSE "WAITING"
  /\ pc = "answering" => screen \in ReviewScreens

(* The loop of app_main goes on, but for the errors of the hash functions, *)
(* and no one waits without a review.                                      *)
LoopInv ==
  /\ pc = "return" => HashMayFail
  /\ pc = "recv" =>
       /\ G_io_state # "WAITING"
       /\ G_io_state = "READY" \/ screen \in ReviewScreens
  /\ pc = "replying" => G_io_state = "RECEIVED"
  /\ pc = "exchange" /\ G_io_state = "WAITING" =>
       screen \in ReviewScreens

(* An upload has a path that was checked.                                  *)
PathInv ==
  ctx.req_type \in {"CONFIRM_TRANSACTION", "CONFIRM_SIGN_DATA"} =>
    ctx.bip32_path \in Paths

(* What is under review has been hashed for the request under review.      *)
ReviewedDigestInv ==
  screen \in ReviewScreens =>
    /\ shown.path \in Paths
    /\ shown.request # "CONFIRM_ADDRESS" =>
         ctx.digest.kind = UserView!KindReviewed(shown.request)

(* No review is kept behind another screen.                                *)
ClosedInv == screen \notin ReviewScreens => shown = NoReview

IInv ==
  /\ TypeOK
  /\ DispatchInv
  /\ ReviewLinkInv
  /\ LoopInv
  /\ PathInv
  /\ ReviewedDigestInv
  /\ ClosedInv
  /\ ReviewMatchesContext
  /\ SignatureOnlyOfReviewed

-----------------------------------------------------------------------------
(***************************************************************************)
(* The context of one request, and what of it an open review rests on: the *)
(* inductive invariant behind ContextOfOneRequest, TxReviewFaithful and    *)
(* SignedDataShown, together with IInv.                                    *)
(***************************************************************************)
Uploads == {"CONFIRM_TRANSACTION", "CONFIRM_SIGN_DATA"}

Begins(s, t) == Len(s) <= Len(t) /\ \A i \in 1..Len(s) : s[i] = t[i]

Parts(s) == {s[i] : i \in 1..Len(s)}

(* Only an upload holds data and lines, and no more data than fits.        *)
DataOfUpload(c) ==
  /\ c.req_type \notin Uploads => c.raw = <<>> /\ c.hints = <<>>
  /\ Len(c.raw) <= MaxRawLen

(* A digest is one of the data held.  A failed hash of an inner cell makes *)
(* a digest that leaves that cell out.                                     *)
DigestOfUpload(c) ==
  /\ c.digest.kind = "transaction" =>
       c.req_type = "CONFIRM_TRANSACTION" /\ Begins(c.digest.fields, c.raw)
  /\ c.digest.kind = "data" =>
       /\ c.req_type = "CONFIRM_SIGN_DATA"
       /\ ~HashMayFail => Begins(c.digest.fields, c.raw)

(* Lines are left in the holder by earlier attempts to parse the upload.   *)
(* Those of a transaction were of the same payload, which there still is;  *)
(* those of data were all printed from what is still held.                 *)
LinesOfUpload(c) ==
  /\ c.req_type = "CONFIRM_TRANSACTION" /\ c.hints # <<>> =>
       Len(c.raw) >= 3 /\ c.raw[3].cell # "none"
  /\ c.req_type = "CONFIRM_SIGN_DATA" =>
       \A line \in Parts(c.hints) : Parts(line.of) \subseteq Parts(c.raw)

OneRequest(c) == DataOfUpload(c) /\ DigestOfUpload(c) /\ LinesOfUpload(c)

(* A transaction under review is readable and hashed, and the holder has   *)
(* the lines of its hints if they are of a type the app knows.             *)
TxReviewed(c, expert) ==
  /\ TxReadable(c.raw)
  /\ c.digest = TxDigest(c.raw)
  /\ c.raw[3].cell # "none" /\ c.raw[4].type # "other" =>
       c.raw[4].cell = c.raw[3].cell /\ c.hints = HintLines(c.raw[4], expert)

(* Of data under review, each part that is there has a line.               *)
LineFor(part, lines) ==
  \/ part.f \in {"address", "domain", "ext"} /\ ~part.has
  \/ \E line \in Parts(lines) : part \in Parts(line.of)

DataReviewed(c) ==
  \A i \in 2..Len(c.digest.fields) : LineFor(c.digest.fields[i], c.hints)

Reviewed(c, expert) ==
  /\ c.req_type = "CONFIRM_TRANSACTION" => TxReviewed(c, expert)
  /\ c.req_type = "CONFIRM_SIGN_DATA" => DataReviewed(c)

(* However often an upload is interrupted, refused, retried and resumed,   *)
(* the context is of one request, and an open review rests on all of it.   *)
UploadInv ==
  /\ OneRequest(ctx)
  /\ screen \in ReviewScreens => Reviewed(ctx, N_storage.expert_mode)

-----------------------------------------------------------------------------
(***************************************************************************)
(* What becomes of the command the host waits on: the inductive invariant  *)
(* behind AnswersTheCommand, together with IInv.                           *)
(***************************************************************************)

(* The review that command c opens, when it shows context x.               *)
ReviewFor(c, x) ==
  CASE x.req_type = "CONFIRM_ADDRESS" ->
         c.ins = "GET_PUBLIC_KEY" /\ c.p1 = 1 /\ c.path \in {x.key, "cut"}
    [] x.req_type = "GET_PROOF" ->
         /\ c.ins = "GET_ADDRESS_PROOF"
         /\ x.bip32_path = c.path
         /\ x.digest.path = c.path
         /\ x.digest.fields = c.fields
    [] x.req_type = "CONFIRM_TRANSACTION" -> c.ins = "SIGN_TX" /\ HostView!IsLast(c)
    [] x.req_type = "CONFIRM_SIGN_DATA" -> c.ins = "SIGN_DATA" /\ HostView!IsLast(c)

(* From its arrival to its answer the host waits on the command that is    *)
(* processed; what is queued or sent, or will come of the review, answers  *)
(* it.  What a sent response leaves in the buffer is not sent again.       *)
AnswerInv ==
  /\ pc = "dispatch" => pending = cmd
  /\ pc = "replying" \/ (pc = "recv" /\ G_io_state = "READY" /\ output # NoResponse) =>
       pending # NoCommand /\ HostView!Answers(pending, output)
  /\ pc \in {"replying", "answering"} => output # NoResponse
  /\ screen \in ReviewScreens => ReviewFor(pending, ctx)
=============================================================================
