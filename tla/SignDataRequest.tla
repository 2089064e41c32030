--------------------------- MODULE SignDataRequest ---------------------------
(***************************************************************************)
(* sign_data/sign_data_deserialize.c: what parsing the uploaded bytes of a *)
(* sign-data request does.  The layout is a schema field, then             *)
(*                                                                         *)
(*   plaintext   any number of [f |-> "text", ascii], the rest of the data *)
(*   appdata     [f |-> "address", has], [f |-> "domain", has, valid],     *)
(*               [f |-> "data", has |-> TRUE], [f |-> "ext", has]; what    *)
(*               follows is not looked at.                                 *)
(*                                                                         *)
(* [f |-> "schema", schema] stands for schema_crc and timestamp.           *)
(***************************************************************************)
EXTENDS AppTypes

CONSTANTS
  MaxPlaintext, \* MAX_PLAINTEXT_LENGTH, in fields
  MaxInline     \* how much text encode_text stores in the first cell

ASSUME PlaintextAssumption == MaxPlaintext \in Nat /\ MaxInline \in Nat

IsSchema(raw, s) == Len(raw) > 0 /\ raw[1].f = "schema" /\ raw[1].schema = s

-----------------------------------------------------------------------------
(* PLAINTEXT_REQUEST                                                       *)
PlaintextOK(raw) ==
  /\ Len(raw) - 1 <= MaxPlaintext
  /\ \A i \in 2..Len(raw) : raw[i].f = "text" /\ raw[i].ascii

TextLine(raw) == <<[item |-> "Text", of |-> SubSeq(raw, 2, Len(raw))]>>

-----------------------------------------------------------------------------
(* APP_DATA_REQUEST                                                        *)
AppLayout == <<"schema", "address", "domain", "data", "ext">>

AppTitle(i) ==
  CASE i = 2 -> "Contract address"
    [] i = 3 -> "App domain"
    [] i = 4 -> "Data hash"
    [] i = 5 -> "Extension hash"

(* Part i is read without an error.  A request with neither address nor    *)
(* domain is refused as soon as both flags are known.                      *)
AppPartOK(raw, i) ==
  /\ Len(raw) >= i
  /\ raw[i].f = AppLayout[i]
  /\ i = 3 => (raw[2].has \/ raw[3].has) /\ (raw[3].has => raw[3].valid)

AppReadUpTo(raw, i) == \A j \in 2..i : AppPartOK(raw, j)

(* Seeded fault: the extension is signed without a line of its own.        *)
AppLineNoExtension(raw, i) ==
  IF AppReadUpTo(raw, i) /\ raw[i].has /\ i # 5
  THEN <<[item |-> AppTitle(i), of |-> <<raw[i]>>]>>
  ELSE <<>>

AppLine(raw, i) ==
  IF AppReadUpTo(raw, i) /\ raw[i].has
  THEN <<[item |-> AppTitle(i), of |-> <<raw[i]>>]>>
  ELSE <<>>

AppLines(raw) ==
  AppLine(raw, 2) \o AppLine(raw, 3) \o AppLine(raw, 4) \o AppLine(raw, 5)

-----------------------------------------------------------------------------
(***************************************************************************)
(* sign_data_deserialize on raw: whether it is accepted, the lines it adds *)
(* to the hint holder (also when it then fails), and what the cell whose   *)
(* hash it keeps holds.                                                    *)
(***************************************************************************)
DataRead(raw) ==
  CASE IsSchema(raw, "plaintext") /\ PlaintextOK(raw) ->
         [ok |-> TRUE, lines |-> TextLine(raw), cell |-> raw]
    [] IsSchema(raw, "appdata") ->
         [ok |-> AppReadUpTo(raw, 5), lines |-> AppLines(raw),
          cell |-> IF AppReadUpTo(raw, 5) THEN SubSeq(raw, 1, 5) ELSE <<>>]
    [] OTHER -> [ok |-> FALSE, lines |-> <<>>, cell |-> <<>>]

(* The results of hash_Cell on the cells below the root, the domain or the *)
(* end of a long text, are not looked at: if one fails, the root refers to *)
(* a zeroed or uninitialized hash in its place.                            *)
WithoutInnerCell(raw) ==
  IF IsSchema(raw, "plaintext")
  THEN SubSeq(raw, 1, IF Len(raw) <= MaxInline THEN Len(raw) ELSE MaxInline + 1)
  ELSE SubSeq(raw, 1, 2) \o SubSeq(raw, 4, 5)

HasInnerCell(raw) ==
  IF IsSchema(raw, "plaintext") THEN Len(raw) > MaxInline + 1 ELSE raw[3].has

(* ... and with errors of the hash functions: the root's refuses the data. *)
DataOutcomes(raw) ==
  LET r == DataRead(raw)
  IN  {r} \cup
      (IF HashMayFail /\ r.ok
       THEN {[r EXCEPT !.ok = FALSE]} \cup
            {[r EXCEPT !.cell = IF HasInnerCell(raw)
                                THEN WithoutInnerCell(raw) ELSE r.cell]}
       ELSE {})

DataDigest(cell) == [NoDigest EXCEPT !.kind = "data", !.fields = cell]
=============================================================================
