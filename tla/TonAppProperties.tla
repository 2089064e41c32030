-------------------------- MODULE TonAppProperties --------------------------
(***************************************************************************)
(* What TonApp has to guarantee.                                           *)
(***************************************************************************)
EXTENDS TonApp

(* The values of all variables are of their types.                         *)
TypeOK == IoTypeOK /\ UiTypeOK

-----------------------------------------------------------------------------
(* The link.                                                               *)

(* No command is answered twice, and io_recv_command is never called in    *)
(* WAITING: each would make app_main return, and main restart the app.     *)
AppMainNeverReturns == pc # "return"

(* While io_exchange waits, it waits for the user (G_io_state is WAITING)  *)
(* if and only if there is a review on the screen to be answered.          *)
ReviewIffWaiting ==
  pc = "exchange" => (G_io_state = "WAITING" <=> screen \in ReviewScreens)

(* COMMANDS.md: "0xB002 SW_DISPLAY_ADDRESS_FAIL Address conversion to      *)
(* string failed": app_main does not return while a status word it has     *)
(* queued is still to be sent.                                             *)
QueuedAnswerKept == pc = "return" => output = NoResponse

(* constants.h: "Max hints in one transaction": the hint holder's array is *)
(* never written past its end.                                             *)
HintsFit == pc # "overrun"

(* io.c, dispatcher.c and the handlers implement the host's view.          *)
Wire == IF pc \in {"replying", "answering"} THEN output ELSE NoResponse
HostView == INSTANCE CommandResponse WITH wire <- Wire
AnswersTheCommand == HostView!Spec

-----------------------------------------------------------------------------
(* The context.                                                            *)

(* G_context is of one request: an upload has a path that was checked, no  *)
(* more data than there is room for, and what is to be signed is of the    *)
(* request's kind and is the beginning of the data uploaded for it, though *)
(* uploads are interrupted, refused, resumed and mixed with any command.   *)
ContextOfOneRequest ==
  LET uploads == {"CONFIRM_TRANSACTION", "CONFIRM_SIGN_DATA"}
  IN  /\ ctx.req_type \in uploads => ctx.bip32_path \in Paths
      /\ ctx.req_type \notin uploads => ctx.raw = <<>> /\ ctx.hints = <<>>
      /\ Len(ctx.raw) <= MaxRawLen
      /\ ctx.digest.kind = "transaction" => ctx.req_type = "CONFIRM_TRANSACTION"
      /\ ctx.digest.kind = "data" => ctx.req_type = "CONFIRM_SIGN_DATA"
      /\ ctx.digest.kind \in {"transaction", "data"} =>
           /\ Len(ctx.digest.fields) <= Len(ctx.raw)
           /\ \A i \in 1..Len(ctx.digest.fields) : ctx.digest.fields[i] = ctx.raw[i]

-----------------------------------------------------------------------------
(* The reviews.                                                            *)

(* What was formatted for the review on the screen is what the context     *)
(* holds, until the review is over: the validate callbacks sign the        *)
(* context, not what was displayed.                                        *)
ReviewMatchesContext ==
  screen \in ReviewScreens =>
    /\ shown.request = ctx.req_type
    /\ shown = Formatted(ctx.req_type, ctx, shown.flags)

(* A signature exists only while the answer to an open review is sent, and *)
(* it is over what the review shows.                                       *)
SignatureOnlyOfReviewed ==
  output.what = "signature" =>
    /\ pc = "answering"
    /\ screen \in ReviewScreens
    /\ shown.path \in Paths
    /\ output = [Data("signature") EXCEPT !.path = shown.path, !.digest = shown.digest]
    /\ output.digest.kind # "none"

(* Nor is there another step than the answer to a review from which a      *)
(* signature comes, or one that changes what an open review shows.         *)
OpenReview == IF screen \in ReviewScreens THEN shown ELSE NoReview
Released == IF output.what = "signature" THEN output ELSE NoResponse
UserView == INSTANCE SigningConsent WITH review <- OpenReview, released <- Released
SignsWithConsent == UserView!Spec

(* A transaction's review has the lines of the hints that describe the     *)
(* payload that is signed, under the current setting, and none when there  *)
(* is no payload, whatever was in the holder from earlier attempts.        *)
TxReviewFaithful ==
  screen \in ReviewScreens /\ shown.request = "CONFIRM_TRANSACTION" =>
    LET payload == shown.digest.fields[3]
        hints   == ctx.raw[4]
    IN  IF payload.cell = "none" THEN shown.lines = <<>>
        ELSE hints.type # "other" =>
               /\ hints.cell = payload.cell
               /\ shown.lines = HintLines(hints, N_storage.expert_mode)

(* TRANSACTION.md: a transaction with payload and hints is "a transaction  *)
(* of some known types (...). Ledger will display all important fields".   *)
PayloadDescribed ==
  screen \in ReviewScreens /\ shown.request = "CONFIRM_TRANSACTION" =>
    (shown.digest.fields[3].cell # "none" => ctx.raw[4].type # "other")

(* Every part of the data to sign is shown in a line of its own reading,   *)
(* and no line shows anything but data uploaded under the same path.       *)
SignedDataShown ==
  screen \in ReviewScreens /\ shown.request = "CONFIRM_SIGN_DATA" =>
    LET signed == shown.digest.fields
        parts(line) == {line.of[i] : i \in 1..Len(line.of)}
        lines == {shown.lines[i] : i \in 1..Len(shown.lines)}
        sent  == {ctx.raw[i] : i \in 1..Len(ctx.raw)}
    IN  /\ \A i \in 2..Len(signed) :
             \/ signed[i].f \in {"address", "domain", "ext"} /\ ~signed[i].has
             \/ \E line \in lines : signed[i] \in parts(line)
        /\ \A line \in lines : parts(line) \subseteq sent

-----------------------------------------------------------------------------
(* The setting.                                                            *)

(* Once it is initialized, only the user's switch changes N_storage: no    *)
(* restart, crash or command does.                                         *)
SettingKept ==
  [][N_storage.initialized /\ N_storage' # N_storage => SetExpertMode]_vars

-----------------------------------------------------------------------------
(* Every command the host sends is answered, or the link or the app goes   *)
(* down; the user answers the reviews.                                     *)
EveryCommandAnswered == pending # NoCommand ~> pending = NoCommand
=============================================================================
