------------------------------- MODULE TonApp -------------------------------
(***************************************************************************)
(* The app: main.c's start and restart, the command handlers (handler/),   *)
(* composed with the link (Io) and the screens (Ui).                       *)
(***************************************************************************)
EXTENDS Ui, Dispatcher, TxRequest, SignDataRequest

(* The device before its first use; a store that was never written is 0.   *)
Init ==
  /\ pc = "off"
  /\ G_io_state = "READY"
  /\ output = NoResponse
  /\ cmd = NoCommand
  /\ pending = NoCommand
  /\ ctx = ZeroContext
  /\ screen = "menu"
  /\ shown = NoReview
  /\ N_storage = [initialized |-> FALSE, expert_mode |-> FALSE]

-----------------------------------------------------------------------------
(* An iteration of main: the screens are reset, nv_init, the menu, and     *)
(* app_main up to its loop.                                                *)
Restarted ==
  /\ IoStart("recv")
  /\ ctx' = ZeroContext
  /\ screen' = "menu"
  /\ shown' = NoReview
  /\ N_storage' = NvInit(N_storage)

Launch == pc = "off" /\ Restarted

(* app_main returned -1: main powers USB off and on, and calls it again.   *)
AppMainReturns == pc = "return" /\ Restarted

(* USB is unplugged while io_exchange runs: io_event throws                *)
(* EXCEPTION_IO_RESET, which app_main passes on to main.                   *)
IoReset == pc \in {"replying", "exchange", "answering"} /\ Restarted

(* The app ends; its memory is cleared before it runs again.               *)
Stopped ==
  /\ IoStart("off")
  /\ ctx' = ZeroContext
  /\ screen' = "menu"
  /\ shown' = NoReview
  /\ UNCHANGED N_storage

Quit == pc = "exchange" /\ screen = "menu" /\ Stopped

PowerLoss == pc # "off" /\ Stopped

-----------------------------------------------------------------------------
(* What is left alone by every handler, and by one that only answers.      *)
HandlerFrame == UNCHANGED <<cmd, pending, N_storage>>
ScreenFrame  == UNCHANGED <<screen, shown>>

(* A handler that leaves c in the context and responds with r.             *)
Respond(c, r) == ctx' = c /\ Reply(r) /\ ScreenFrame

Handling(ins) ==
  pc = "dispatch" /\ cmd.ins = ins /\ DispatchStatus(cmd) = "SW_OK"

(* The context after explicit_bzero and the reading of a path.             *)
WithPath(path) == [ZeroContext EXCEPT !.bip32_path = path]

WithKey(path) == [WithPath(path) EXCEPT !.key = path]

RejectCommand ==
  /\ pc = "dispatch"
  /\ DispatchStatus(cmd) # "SW_OK"
  /\ Respond(ctx, Status(DispatchStatus(cmd)))
  /\ HandlerFrame

GetVersion ==
  Handling("GET_VERSION") /\ Respond(ctx, Data("version")) /\ HandlerFrame

GetAppName ==
  Handling("GET_APP_NAME") /\ Respond(ctx, Data("name")) /\ HandlerFrame

GetPublicKey ==
  /\ Handling("GET_PUBLIC_KEY")
  /\ \E path \in PathReadings(cmd.path) :
       \/ /\ PathStatus(path) # "SW_OK"
          /\ Respond(WithPath(path), Status(PathStatus(path)))
       \/ /\ PathStatus(path) = "SW_OK"
          /\ \/ Respond(WithPath(path), Status("SW_BAD_STATE"))
             \/ IF cmd.p1 = 1
                THEN UiDisplay("CONFIRM_ADDRESS", WithKey(path), cmd.p2)
                ELSE Respond(WithKey(path), KeyOf(WithKey(path)))
  /\ HandlerFrame

(* The proof of path's key.  req_type is set when all has been read and    *)
(* hashed.  A path that was read past its end leaves the domain's length   *)
(* to be read from the path's bytes, more than the data holds.             *)
ProofFor(path) ==
  LET c == [WithKey(path) EXCEPT !.digest =
              ProofDigest(path, Workchain(cmd.p2), cmd.fields)]
      status == IF cmd.path = "cut" THEN "SW_WRONG_DATA_LENGTH"
                ELSE ProofStatus(cmd.fields)
  IN  \/ Respond(WithPath(path), Status("SW_BAD_STATE"))
      \/ /\ HashMayFail
         /\ Respond(WithKey(path), Status("SW_DISPLAY_ADDRESS_FAIL"))
      \/ /\ status # "SW_OK"
         /\ Respond(WithKey(path), Status(status))
      \/ /\ status = "SW_OK" /\ HashMayFail
         /\ Respond(WithKey(path), Status("SW_BAD_STATE"))
      \/ /\ status = "SW_OK"
         /\ UiDisplay("GET_PROOF", [c EXCEPT !.req_type = "GET_PROOF"], cmd.p2)

GetAddressProof ==
  /\ Handling("GET_ADDRESS_PROOF")
  /\ \E path \in PathReadings(cmd.path) :
       \/ /\ PathStatus(path) # "SW_OK"
          /\ Respond(WithPath(path), Status(PathStatus(path)))
       \/ /\ PathStatus(path) = "SW_OK"
          /\ ProofFor(path)
  /\ HandlerFrame

-----------------------------------------------------------------------------
(* Seeded fault: the path of an upload is not checked.                     *)
StartUploadUnchecked(request) ==
  \E path \in PathReadings(cmd.path) :
    Respond([WithPath(path) EXCEPT !.req_type = request], Status("SW_OK"))

(* Seeded fault: an accepted path is not answered.                         *)
StartUploadSilent(request) ==
  \E path \in PathReadings(cmd.path) :
    \/ /\ PathStatus(path) # "SW_OK"
       /\ Respond(WithPath(path), Status(PathStatus(path)))
    \/ /\ PathStatus(path) = "SW_OK"
       /\ ctx' = [WithPath(path) EXCEPT !.req_type = request]
       /\ AnswerLater
       /\ ScreenFrame

(* The first command of an upload: a path, kept for the request that the   *)
(* following commands carry.                                               *)
StartUpload(request) ==
  \E path \in PathReadings(cmd.path) :
    \/ /\ PathStatus(path) # "SW_OK"
       /\ Respond(WithPath(path), Status(PathStatus(path)))
    \/ /\ PathStatus(path) = "SW_OK"
       /\ Respond([WithPath(path) EXCEPT !.req_type = request], Status("SW_OK"))

SignTxFirst ==
  /\ Handling("SIGN_TX") /\ IsFirst(cmd)
  /\ StartUpload("CONFIRM_TRANSACTION")
  /\ HandlerFrame

SignDataFirst ==
  /\ Handling("SIGN_DATA") /\ IsFirst(cmd)
  /\ StartUpload("CONFIRM_SIGN_DATA")
  /\ HandlerFrame

(* The context with the data of cmd appended.                              *)
Uploaded == [ctx EXCEPT !.raw = @ \o cmd.fields]

(* Seeded fault: the length of what has been uploaded is not checked.      *)
ChunkStatusUnbounded(request, too_long) ==
  IF ctx.req_type # request THEN "SW_BAD_STATE"
  ELSE IF IsMore(cmd) THEN "SW_OK" ELSE "none"

(* Seeded fault: data is taken without an upload having been started.      *)
ChunkStatusAnyRequest(request, too_long) ==
  IF Len(Uploaded.raw) > MaxRawLen THEN too_long
  ELSE IF IsMore(cmd) THEN "SW_OK" ELSE "none"

(* The answer to a following command, "SW_OK" when it is not the last and  *)
(* "none" when the request is to be parsed.                                *)
ChunkStatus(request, too_long) ==
  IF ctx.req_type # request THEN "SW_BAD_STATE"
  ELSE IF Len(Uploaded.raw) > MaxRawLen THEN too_long
  ELSE IF IsMore(cmd) THEN "SW_OK" ELSE "none"

KeepChunk(status) ==
  /\ status # "none"
  /\ Respond(IF status = "SW_OK" THEN Uploaded ELSE ctx, Status(status))

(* The whole transaction is there: it is parsed, hashed and displayed.     *)
SignTxParse ==
  \E o \in TxOutcomes(Uploaded.raw, ctx.hints, N_storage.expert_mode) :
    LET c == [Uploaded EXCEPT !.hints = o.hints]
    IN  IF o.ok
        THEN UiDisplay("CONFIRM_TRANSACTION",
                       [c EXCEPT !.digest = TxDigest(c.raw),
                                 !.state = "STATE_PARSED"], 0)
        ELSE Respond(c, Status("SW_TX_PARSING_FAIL"))

SignTxChunk ==
  /\ Handling("SIGN_TX") /\ ~IsFirst(cmd)
  /\ LET status == ChunkStatus("CONFIRM_TRANSACTION", "SW_WRONG_TX_LENGTH")
     IN  KeepChunk(status) \/ (status = "none" /\ SignTxParse)
  /\ HandlerFrame

(* The hints of a sign-data request are added to those already held: the   *)
(* holder is only reset with the context, and has room for MaxHints.       *)
SignDataParse ==
  \E o \in DataOutcomes(Uploaded.raw) :
    LET c == [Uploaded EXCEPT !.hints = @ \o o.lines]
    IN  IF Len(c.hints) > MaxHints
        THEN /\ pc' = "overrun"
             /\ ctx' = c
             /\ UNCHANGED <<G_io_state, output>>
             /\ ScreenFrame
        ELSE IF o.ok
        THEN UiDisplay("CONFIRM_SIGN_DATA",
                       [c EXCEPT !.digest = DataDigest(o.cell),
                                 !.state = "STATE_PARSED"], 0)
        ELSE Respond(c, Status("SW_SIGN_DATA_PARSING_FAIL"))

SignDataChunk ==
  /\ Handling("SIGN_DATA") /\ ~IsFirst(cmd)
  /\ LET status == ChunkStatus("CONFIRM_SIGN_DATA", "SW_WRONG_SIGN_DATA_LENGTH")
     IN  KeepChunk(status) \/ (status = "none" /\ SignDataParse)
  /\ HandlerFrame
-----------------------------------------------------------------------------
(* io_recv_command and the sending of queued responses.                    *)
Receive == IoRecvCommand /\ UNCHANGED uiVars
Send    == ReplySent /\ UNCHANGED uiVars
Host    == \E c \in Commands : HostSends(c) /\ UNCHANGED uiVars

Handler ==
  \/ RejectCommand
  \/ GetVersion
  \/ GetAppName
  \/ GetPublicKey
  \/ GetAddressProof
  \/ SignTxFirst
  \/ SignTxChunk
  \/ SignDataFirst
  \/ SignDataChunk

(* The user answers the review; the rest of what the user may do.          *)
UserDecides == Approve \/ Reject \/ ConfirmReject
UserRoams ==
  \/ AskRejection
  \/ GoBack
  \/ OpenSettings
  \/ CloseSettings
  \/ DismissStatus
  \/ SetExpertMode
  \/ Quit

Environment == Launch \/ IoReset \/ PowerLoss

Device == Receive \/ Send \/ Handler \/ ReviewDone \/ AppMainReturns

Next == Device \/ Host \/ UserDecides \/ UserRoams \/ Environment

Spec == Init /\ [][Next]_vars

(* The program runs, and the user ends up pressing one of the two buttons  *)
(* that end a review.  Nothing makes the host send, or the link fail.      *)
FairSpec == Spec /\ WF_vars(Device) /\ WF_vars(UserDecides)
=============================================================================
