--------------------------------- MODULE Ui ---------------------------------
(***************************************************************************)
(* The screens (ui/), the buttons' callbacks (ui/action/validate.c) and    *)
(* the stored setting (N_storage), for the two user interface libraries:   *)
(* BAGL (buttons, Nano) and NBGL (touch, Stax).                            *)
(*                                                                         *)
(* External: the libraries show what they are given and call back when a   *)
(* button is used; a new screen replaces the old one and its callbacks.    *)
(* Button events are not delivered while a response is being sent.         *)
(***************************************************************************)
EXTENDS Io, ProofRequest

CONSTANT Nbgl  \* HAVE_NBGL; otherwise HAVE_BAGL

ASSUME UiAssumption == Nbgl \in BOOLEAN

VARIABLES
  ctx,        \* G_context
  screen,
  shown,      \* what was formatted for the review on the screen
  N_storage

uiVars == <<ctx, screen, shown, N_storage>>

vars == <<ioVars, uiVars>>

(***************************************************************************)
(* "menu"       the main menu and its About pages                          *)
(* "settings"   the expert-mode setting                                    *)
(* "review"     a review with its approve and reject buttons               *)
(* "confirm"    NBGL: "Reject transaction?"                                *)
(* "status"     NBGL: the page that follows a choice                       *)
(***************************************************************************)
Screen == {"menu", "settings", "review", "confirm", "status"}
ReviewScreens == {"review", "confirm"}

UiTypeOK ==
  /\ ctx \in Context
  /\ screen \in Screen
  /\ shown \in Review
  /\ N_storage \in [initialized : BOOLEAN, expert_mode : BOOLEAN]

(* Seeded fault: every start writes the store.                             *)
NvInitAlways(s) == [initialized |-> TRUE, expert_mode |-> FALSE]

(* nv_init: the setting is written once in the life of the device.         *)
NvInit(s) ==
  IF s.initialized THEN s ELSE [initialized |-> TRUE, expert_mode |-> FALSE]

-----------------------------------------------------------------------------
(* The state each ui_display function wants to find in the context.        *)
DisplayState(request) ==
  IF request \in {"CONFIRM_TRANSACTION", "CONFIRM_SIGN_DATA"}
  THEN "STATE_PARSED" ELSE "STATE_NONE"

(* What the review of request prints of context c: an address under flags, *)
(* and the lines of the hint holder the interface looks at.  BAGL skips    *)
(* the holder of a transaction without payload, NBGL does not look.        *)
ShownLines(request, c) ==
  CASE request = "CONFIRM_TRANSACTION" ->
         IF Nbgl \/ c.digest.fields[3].cell # "none" THEN c.hints ELSE <<>>
    [] request = "CONFIRM_SIGN_DATA" -> c.hints
    [] request = "GET_PROOF"         -> <<DomainLine(c.digest)>>
    [] request = "CONFIRM_ADDRESS"   -> <<>>

Formatted(request, c, flags) ==
  [request |-> request, path |-> c.bip32_path, flags |-> flags,
   digest |-> c.digest, lines |-> ShownLines(request, c)]

(* Seeded fault: the review is formatted from the context as it was before *)
(* the command.                                                            *)
UiDisplayOld(request, c, flags) ==
  IF c.req_type # request \/ c.state # DisplayState(request)
  THEN /\ ctx' = [c EXCEPT !.state = "STATE_NONE"]
       /\ Reply(Status("SW_BAD_STATE"))
       /\ UNCHANGED <<screen, shown>>
  ELSE /\ ctx' = c
       /\ screen' = "review"
       /\ shown' = [Formatted(request, c, flags) EXCEPT !.digest = ctx.digest]
       /\ AnswerLater

(* The four ui_display functions, called with the context c the handler    *)
(* has built.  display_address can fail; it has queued a status word then, *)
(* and -1 is returned nevertheless.                                        *)
UiDisplay(request, c, flags) ==
  IF c.req_type # request \/ c.state # DisplayState(request)
  THEN /\ ctx' = [c EXCEPT !.state = "STATE_NONE"]
       /\ Reply(Status("SW_BAD_STATE"))
       /\ UNCHANGED <<screen, shown>>
  ELSE /\ ctx' = c
       /\ \/ /\ screen' = "review"
             /\ shown' = Formatted(request, c, flags)
             /\ AnswerLater
          \/ /\ HashMayFail /\ request = "CONFIRM_ADDRESS"
             /\ output' = Status("SW_DISPLAY_ADDRESS_FAIL")
             /\ G_io_state' = "READY"
             /\ pc' = "return"
             /\ UNCHANGED <<screen, shown>>

-----------------------------------------------------------------------------
(* The validate callbacks.  Only the transaction's keeps the context state.*)
(* Deriving the key or signing may fail.                                   *)
ValidatePubkey(choice) ==
  /\ Answer(IF choice THEN KeyOf(ctx) ELSE Status("SW_DENY"))
  /\ UNCHANGED ctx

ValidateTransaction(choice) ==
  \/ /\ choice
     /\ Answer(SignatureOf(ctx))
     /\ ctx' = [ctx EXCEPT !.state = "STATE_APPROVED"]
  \/ /\ Answer(Status(IF choice THEN "SW_SIGNATURE_FAIL" ELSE "SW_DENY"))
     /\ ctx' = [ctx EXCEPT !.state = "STATE_NONE"]

(* ui_action_validate_proof and ui_action_validate_sign_data               *)
ValidateOther(choice) ==
  /\ \/ choice /\ Answer(SignatureOf(ctx))
     \/ Answer(Status(IF choice THEN "SW_SIGNATURE_FAIL" ELSE "SW_DENY"))
  /\ UNCHANGED ctx

Validate(choice) ==
  /\ pc = "exchange"
  /\ CASE shown.request = "CONFIRM_ADDRESS"     -> ValidatePubkey(choice)
       [] shown.request = "CONFIRM_TRANSACTION" -> ValidateTransaction(choice)
       [] shown.request \in {"GET_PROOF", "CONFIRM_SIGN_DATA"} ->
            ValidateOther(choice)
  /\ UNCHANGED <<cmd, pending, screen, shown, N_storage>>

(* NBGL asks again before it rejects a transaction.                        *)
AsksAgain == Nbgl /\ shown.request = "CONFIRM_TRANSACTION"

Approve == screen = "review" /\ Validate(TRUE)

Reject == screen = "review" /\ ~AsksAgain /\ Validate(FALSE)

ConfirmReject == screen = "confirm" /\ Validate(FALSE)

(* A button that does no more than change the screen.                      *)
Navigate(from, to) ==
  /\ pc = "exchange"
  /\ screen = from
  /\ screen' = to
  /\ UNCHANGED <<ioVars, ctx, shown, N_storage>>

AskRejection == AsksAgain /\ Navigate("review", "confirm")

GoBack == Navigate("confirm", "review")

OpenSettings == Navigate("menu", "settings")

CloseSettings == Navigate("settings", "menu")

DismissStatus == Navigate("status", "menu")

(* BAGL offers No and Yes, NBGL a switch that inverts what is stored.      *)
SetExpertMode ==
  /\ pc = "exchange"
  /\ screen = "settings"
  /\ \E value \in IF Nbgl THEN {~N_storage.expert_mode} ELSE BOOLEAN :
       N_storage' = [N_storage EXCEPT !.expert_mode = value]
  /\ UNCHANGED <<ioVars, ctx, screen, shown>>

(* Seeded fault: the review stays on the screen with its buttons.          *)
ReviewDoneOpen == AnswerSent /\ UNCHANGED uiVars

(* A validate callback ends: BAGL shows the menu, NBGL a status page.      *)
ReviewDone ==
  /\ AnswerSent
  /\ screen' = IF Nbgl THEN "status" ELSE "menu"
  /\ shown' = NoReview
  /\ UNCHANGED <<ctx, N_storage>>
=============================================================================
