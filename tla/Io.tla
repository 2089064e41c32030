--------------------------------- MODULE Io ---------------------------------
(***************************************************************************)
(* io.c: the state machine that lets a handler answer at once or leave the *)
(* answer to a button, and the host's end of the link.                     *)
(*                                                                         *)
(* External: io_exchange of the SDK.  Called with IO_ASYNCH_REPLY it sends *)
(* nothing, whatever length it is given, and waits; without the flag it    *)
(* sends the queued response and then waits; IO_RETURN_AFTER_TX sends and  *)
(* returns.  While it waits it runs the UI's events.  The link is half     *)
(* duplex, as ISO 7816 has it: the host sends no command before it has the *)
(* answer to the last one, unless the link was reset in between.           *)
(***************************************************************************)
EXTENDS AppTypes

VARIABLES
  pc,          \* where main and app_main are, see ProgramPoint
  G_io_state,
  output,      \* the response G_output_len and G_io_apdu_buffer hold
  cmd,         \* the command being processed
  pending      \* the command the host waits on

ioVars == <<pc, G_io_state, output, cmd, pending>>

(***************************************************************************)
(* "off"        the app is not running                                     *)
(* "recv"       app_main is about to call io_recv_command                  *)
(* "replying"   io_exchange is sending the queued response                 *)
(* "exchange"   io_exchange waits for a command                            *)
(* "dispatch"   a command was received                                     *)
(* "answering"  a button's io_send_response is sending its answer          *)
(* "return"     app_main has returned                                      *)
(* "overrun"    the hint array was written past its end: from here on the  *)
(*              model says nothing of what the program does                *)
(***************************************************************************)
ProgramPoint ==
  {"off", "recv", "replying", "exchange", "dispatch", "answering", "return",
   "overrun"}

IoTypeOK ==
  /\ pc \in ProgramPoint
  /\ G_io_state \in {"READY", "RECEIVED", "WAITING"}
  /\ output \in Response
  /\ cmd \in Commands \cup {NoCommand}
  /\ pending \in Commands \cup {NoCommand}

-----------------------------------------------------------------------------
(* G_io_state when io_recv_command calls io_exchange; WAITING makes it     *)
(* return -1 instead.                                                      *)
RecvState ==
  CASE G_io_state = "READY"    -> "RECEIVED"
    [] G_io_state = "RECEIVED" -> "WAITING"
    [] G_io_state = "WAITING"  -> "READY"

(* app_main clears cmd and calls io_recv_command.                          *)
IoRecvCommand ==
  /\ pc = "recv"
  /\ cmd' = NoCommand
  /\ G_io_state' = RecvState
  /\ pc' = CASE G_io_state = "WAITING" -> "return"
             [] G_io_state = "READY" /\ output # NoResponse -> "replying"
             [] G_io_state = "RECEIVED" \/ output = NoResponse -> "exchange"
  /\ UNCHANGED <<output, pending>>

(* io_exchange has sent the queued response.  G_output_len keeps its value.*)
ReplySent ==
  /\ pc = "replying"
  /\ pc' = "exchange"
  /\ pending' = NoCommand
  /\ UNCHANGED <<G_io_state, output, cmd>>

(* Seeded fault: after the wait in WAITING, RECEIVED is not set again.     *)
HostSendsStateKept(c) ==
  /\ pc = "exchange"
  /\ pending = NoCommand
  /\ pending' = c
  /\ cmd' = c
  /\ pc' = "dispatch"
  /\ UNCHANGED <<G_io_state, output>>

(* The host sends c: io_exchange returns, and io_recv_command with it.     *)
HostSends(c) ==
  /\ pc = "exchange"
  /\ pending = NoCommand
  /\ pending' = c
  /\ cmd' = c
  /\ G_io_state' = "RECEIVED"
  /\ pc' = "dispatch"
  /\ UNCHANGED output

(* io_send_response called by a handler: the response is queued for the    *)
(* next io_recv_command.  A second response to a command returns -1, which *)
(* makes app_main return.                                                  *)
Reply(r) ==
  /\ output' = r
  /\ G_io_state' = "READY"
  /\ pc' = IF G_io_state = "READY" THEN "return" ELSE "recv"

(* A handler that returns 0 and leaves the answer to a button.             *)
AnswerLater == pc' = "recv" /\ UNCHANGED <<G_io_state, output>>

(* io_send_response called by a button, inside io_exchange.                *)
Answer(r) == pc' = "answering" /\ output' = r /\ UNCHANGED G_io_state

(* Seeded fault: the state is not set back to READY.                       *)
AnswerSentWaiting ==
  /\ pc = "answering"
  /\ pc' = "exchange"
  /\ output'  = IF G_io_state = "WAITING" THEN NoResponse ELSE output
  /\ pending' = IF G_io_state = "WAITING" THEN NoCommand ELSE pending
  /\ UNCHANGED <<G_io_state, cmd>>

(* Seeded fault: G_output_len keeps its value after the answer is sent.    *)
AnswerSentOutputKept ==
  /\ pc = "answering"
  /\ pc' = "exchange"
  /\ G_io_state' = "READY"
  /\ pending' = IF G_io_state = "WAITING" THEN NoCommand ELSE pending
  /\ UNCHANGED <<output, cmd>>

(* ... and when it returns: in WAITING it has sent the response itself, in *)
(* any other state it has queued it.                                       *)
AnswerSent ==
  /\ pc = "answering"
  /\ pc' = "exchange"
  /\ G_io_state' = "READY"
  /\ output'  = IF G_io_state = "WAITING" THEN NoResponse ELSE output
  /\ pending' = IF G_io_state = "WAITING" THEN NoCommand ELSE pending
  /\ UNCHANGED cmd

(* What app_main starts from; a host that was waiting sees a reset link.   *)
IoStart(p) ==
  /\ pc' = p
  /\ G_io_state' = "READY"
  /\ output' = NoResponse
  /\ cmd' = NoCommand
  /\ pending' = NoCommand
=============================================================================
