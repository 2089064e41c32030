------------------------------ MODULE TxRequest ------------------------------
(***************************************************************************)
(* transaction/deserialize.c, transaction_hints.c and hash.c: what parsing *)
(* the uploaded bytes of a transaction does.  The layout is                *)
(*                                                                         *)
(*   [f |-> "fixed", ...]         tag .. send_mode                         *)
(*   [f |-> "init", ...]          has_state_init, state_init               *)
(*   [f |-> "payload", cell]      has_payload, payload ("none": absent)    *)
(*   [f |-> "hints", type, cell, items, expert, complete]                  *)
(*                                                                         *)
(* A hints block has the type "none" (has_hints = 0), "comment", "jetton"  *)
(* or "other" (an id the app does not know); cell is the cell the known    *)
(* types describe, items and then expert the titles of what is read from   *)
(* it, the latter for expert mode only, and complete says that hints_data  *)
(* is well formed to its end.                                              *)
(***************************************************************************)
EXTENDS AppTypes

TxLayout == <<"fixed", "init", "payload", "hints">>

(* The four parts are there, and hints only beside a payload.  What may    *)
(* follow them is found only after the hints have been processed.          *)
TxReadable(raw) ==
  /\ Len(raw) >= Len(TxLayout)
  /\ \A i \in 1..Len(TxLayout) : raw[i].f = TxLayout[i]
  /\ raw[4].type # "none" => raw[3].cell # "none"

(* The lines process_hints adds for block h.  A comment is refused before  *)
(* its line is added, a jetton transfer after the lines of what was read.  *)
HintLines(h, expert) ==
  LET titles == h.items \o (IF expert THEN h.expert ELSE <<>>)
  IN  IF h.type = "other" \/ (h.type = "comment" /\ ~h.complete) THEN <<>>
      ELSE [i \in 1..Len(titles) |-> [item |-> titles[i], of |-> <<h>>]]

(* Seeded fault: the cell the hints describe is not compared.              *)
HintsAcceptedUncompared(payload, h) ==
  IF payload.cell = "none" THEN {TRUE}
  ELSE IF h.type = "other" THEN BOOLEAN
  ELSE {h.type # "none" /\ h.complete}

(***************************************************************************)
(* process_hints on a readable request: whether the hints may describe the *)
(* payload, and the hint holder.  With no payload it returns before it     *)
(* resets the holder.  For an id it does not know it compares the payload  *)
(* with a cell it never built: an uninitialized local.                     *)
(***************************************************************************)
HintsAccepted(payload, h) ==
  IF payload.cell = "none" THEN {TRUE}
  ELSE IF h.type = "other" THEN BOOLEAN
  ELSE {h.type # "none" /\ h.complete /\ h.cell = payload.cell}

HintHolder(payload, h, held, expert) ==
  IF payload.cell = "none" \/ h.type = "none" THEN held ELSE HintLines(h, expert)

(* hash_tx: the order that is signed commits to all but the hints.         *)
TxDigest(raw) ==
  [NoDigest EXCEPT !.kind = "transaction", !.fields = SubSeq(raw, 1, 3)]

(***************************************************************************)
(* transaction_deserialize, then hash_tx: the outcomes on raw, given what  *)
(* the holder held and the setting.  Hints are processed before trailing   *)
(* data is refused, so a refused request leaves its lines in the holder.   *)
(* A hash error refuses the request; in a comment it may come before the   *)
(* line is added.                                                          *)
(***************************************************************************)
TxOutcomes(raw, held, expert) ==
  IF ~TxReadable(raw) THEN {[ok |-> FALSE, hints |-> held]}
  ELSE LET holder == HintHolder(raw[3], raw[4], held, expert)
           early  == IF raw[4].type = "comment" THEN {<<>>} ELSE {}
       IN  {[ok |-> accepted /\ Len(raw) = Len(TxLayout), hints |-> holder] :
              accepted \in HintsAccepted(raw[3], raw[4])}
           \cup {[ok |-> FALSE, hints |-> hints] :
                   hints \in IF HashMayFail THEN {holder} \cup early ELSE {}}
=============================================================================
