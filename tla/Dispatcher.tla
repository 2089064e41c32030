----------------------------- MODULE Dispatcher -----------------------------
(***************************************************************************)
(* apdu/parser.c and apdu/dispatcher.c: which commands reach a handler,    *)
(* and with which status word the others are turned away.                  *)
(***************************************************************************)
EXTENDS AppTypes

P2_FIRST == 1
P2_MORE  == 2
P2_ADDR_FLAGS_MAX == 3

HasBit(n, b) == (n \div b) % 2 = 1

IsFirst(c) == HasBit(c.p2, P2_FIRST)

(* Seeded fault: the wrong bit of P2.                                      *)
IsMoreWrongBit(c) == HasBit(c.p2, P2_FIRST)

IsMore(c)  == HasBit(c.p2, P2_MORE)

P2_ADDR_FLAG_MASTERCHAIN == 2

Workchain(flags) ==
  IF HasBit(flags, P2_ADDR_FLAG_MASTERCHAIN) THEN "masterchain" ELSE "basechain"

(* P1 and P2 of each instruction.  The flags of a signing command are      *)
(* FIRST and MORE, and FIRST does not come without MORE.                   *)
ParametersOK(c) ==
  CASE c.ins \in {"GET_VERSION", "GET_APP_NAME"} -> c.p1 = 0 /\ c.p2 = 0
    [] c.ins = "GET_PUBLIC_KEY" ->
         /\ c.p1 \in {0, 1}
         /\ c.p2 <= P2_ADDR_FLAGS_MAX
         /\ c.p1 = 0 => c.p2 = 0
    [] c.ins \in {"SIGN_TX", "SIGN_DATA"} ->
         /\ c.p1 = 0
         /\ c.p2 <= P2_FIRST + P2_MORE
         /\ IsFirst(c) => IsMore(c)
    [] c.ins = "GET_ADDRESS_PROOF" -> c.p1 = 1 /\ c.p2 <= P2_ADDR_FLAGS_MAX

(* The status word apdu_parser's caller or apdu_dispatcher answers with,   *)
(* SW_OK when a handler is called.  The order of the tests is the code's.  *)
DispatchStatus(c) ==
  CASE ~c.framed           -> "SW_WRONG_DATA_LENGTH"
    [] c.framed /\ ~c.cla  -> "SW_CLA_NOT_SUPPORTED"
    [] c.framed /\ c.cla   ->
         IF c.ins = "UNKNOWN" THEN "SW_INS_NOT_SUPPORTED"
         ELSE IF ~ParametersOK(c) THEN "SW_WRONG_P1P2"
         ELSE IF c.ins \notin {"GET_VERSION", "GET_APP_NAME"} /\ ~c.data
              THEN "SW_WRONG_DATA_LENGTH"
              ELSE "SW_OK"

(* Seeded fault: the elements that were not read are left as they were.    *)
PathReadingsUnread(p) == {p}

(***************************************************************************)
(* What reading the path of a command can give (bip32_path_read): its test *)
(* offset > in_len lets one element be read past the end of the data, from *)
(* what the APDU buffer held before, so a cut path gives any path.         *)
(***************************************************************************)
PathReadings(p) == IF p = "cut" THEN Paths ELSE {p}

(* ... and the status word for it, with check_global_bip32_path.           *)
PathStatus(p) ==
  CASE p = "short"   -> "SW_WRONG_DATA_LENGTH"
    [] p = "foreign" -> "SW_BAD_BIP32_PATH"
    [] p \notin {"short", "foreign"} -> "SW_OK"
=============================================================================
