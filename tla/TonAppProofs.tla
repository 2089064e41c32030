---------------------------- MODULE TonAppProofs ----------------------------
(***************************************************************************)
(* Theorems about TonApp, for all values of its constants.                 *)
(***************************************************************************)
EXTENDS TonAppInvariant, SequenceTheorems, TLAPS

-----------------------------------------------------------------------------
(* Types of the values the actions are built from.                         *)

(* The values a restart gives the variables are of their types.            *)
LEMMA ZeroTypes ==
  /\ NoDigest \in Digest
  /\ ZeroContext \in Context
  /\ NoReview \in Review
  /\ NoResponse \in Response
<1>1. NoDigest \in Digest
  BY DEF NoDigest, Digest, PathValue
<1>2. ZeroContext \in Context
  BY <1>1 DEF ZeroContext, Context, PathValue, RequestType, ContextState
<1>3. NoReview \in Review
  BY <1>1 DEF NoReview, Review, PathValue
<1>4. NoResponse \in Response
  BY <1>1 DEF NoResponse, Status, Response, PathValue
<1> QED BY <1>1, <1>2, <1>3, <1>4

(* The responses the handlers and the validate callbacks make are          *)
(* responses.                                                              *)
LEMMA ResponseTypes ==
  /\ \A sw \in StatusWord : Status(sw) \in Response
  /\ \A what \in {"version", "name", "key", "signature"} : Data(what) \in Response
  /\ \A c \in Context : KeyOf(c) \in Response /\ SignatureOf(c) \in Response
<1>1. \A sw \in StatusWord : Status(sw) \in Response
  BY ZeroTypes DEF Status, Response, PathValue
<1>2. \A what \in {"version", "name", "key", "signature"} : Data(what) \in Response
  BY ZeroTypes DEF Data, Status, Response, PathValue, StatusWord
<1>3. ASSUME NEW c \in Context
      PROVE  KeyOf(c) \in Response /\ SignatureOf(c) \in Response
  <2>1. c.key \in PathValue /\ c.bip32_path \in PathValue /\ c.digest \in Digest
    BY DEF Context
  <2>2. Data("key") \in Response /\ Data("signature") \in Response
    BY <1>2
  <2> QED BY <2>1, <2>2 DEF KeyOf, SignatureOf, Response
<1> QED BY <1>1, <1>2, <1>3

(* What the handlers read of a command.                                    *)
LEMMA CommandTypes ==
  ASSUME NEW c \in Commands
  PROVE  /\ c.p2 \in 0..255
         /\ c.path \in Paths \cup BadPaths
         /\ c.fields \in Seq(Field)
BY TypesAssumption DEF Command

(* apdu_dispatcher answers a command it turns away with a status word.     *)
LEMMA DispatchStatusType ==
  ASSUME NEW c \in Commands
  PROVE  DispatchStatus(c) \in StatusWord
BY TypesAssumption DEF DispatchStatus, StatusWord, Command

(* A path that is read without an error was checked to be below the        *)
(* prefix.                                                                 *)
LEMMA PathStatusType ==
  ASSUME NEW c \in Commands, NEW path \in PathReadings(c.path)
  PROVE  /\ path \in PathValue
         /\ PathStatus(path) \in StatusWord
         /\ PathStatus(path) = "SW_OK" => path \in Paths
BY CommandTypes, TypesAssumption
   DEF PathReadings, PathStatus, PathValue, BadPaths, StatusWord

(* A proof request that is accepted has a domain, which its review shows.  *)
LEMMA ProofStatusType ==
  ASSUME NEW fields \in Seq(Field)
  PROVE  /\ ProofStatus(fields) \in StatusWord
         /\ ProofStatus(fields) = "SW_OK" => Len(fields) > 0
BY DEF ProofStatus, StatusWord

(* One line per title is a sequence of lines.                              *)
LEMMA LinesOfTitlesType ==
  ASSUME NEW titles \in Seq(Title), NEW h \in Field
  PROVE  [i \in 1..Len(titles) |-> [item |-> titles[i], of |-> <<h>>]] \in Seq(Line)
<1> DEFINE lines == [i \in 1..Len(titles) |-> [item |-> titles[i], of |-> <<h>>]]
<1>1. Len(titles) \in Nat
  BY LenProperties
<1>2. <<h>> \in Seq(Field)
  OBVIOUS
<1>3. \A i \in 1..Len(titles) : titles[i] \in Title
  BY ElementOfSeq
<1>4. \A i \in 1..Len(titles) : [item |-> titles[i], of |-> <<h>>] \in Line
  BY <1>2, <1>3 DEF Line
<1>5. lines \in [1..Len(titles) -> Line]
  BY <1>4
<1> QED BY <1>1, <1>5, SeqDef

(* process_hints only adds lines of the titles the hints block has.        *)
LEMMA HintLinesType ==
  ASSUME NEW h \in Field, h.f = "hints", NEW expert \in BOOLEAN
  PROVE  HintLines(h, expert) \in Seq(Line)
<1> DEFINE more == IF expert THEN h.expert ELSE <<>>
<1>1. h.items \in Seq(Title) /\ h.expert \in Seq(Title)
  BY FieldAssumption
<1>2. more \in Seq(Title)
  BY <1>1, EmptySeq
<1>3. h.items \o more \in Seq(Title)
  BY <1>1, <1>2, ConcatProperties
<1>4. <<>> \in Seq(Line)
  BY EmptySeq
<1> QED BY <1>3, <1>4, LinesOfTitlesType DEF HintLines

(* Parsing a transaction keeps the hint holder well formed, and accepts    *)
(* only what could be read to the hints.                                   *)
LEMMA TxOutcomesType ==
  ASSUME NEW raw \in Seq(Field), NEW held \in Seq(Line), NEW expert \in BOOLEAN,
         NEW o \in TxOutcomes(raw, held, expert)
  PROVE  /\ o.hints \in Seq(Line)
         /\ o.ok \in BOOLEAN
         /\ o.ok => TxReadable(raw)
<1>1. CASE ~TxReadable(raw)
  <2>1. o = [ok |-> FALSE, hints |-> held]
    BY <1>1 DEF TxOutcomes
  <2> QED BY <2>1
<1>2. CASE TxReadable(raw)
  <2> DEFINE holder == HintHolder(raw[3], raw[4], held, expert)
             early  == IF raw[4].type = "comment" THEN {<<>>} ELSE {}
             parsed == {[ok |-> accepted /\ Len(raw) = Len(TxLayout), hints |-> holder] :
                          accepted \in HintsAccepted(raw[3], raw[4])}
             failed == {[ok |-> FALSE, hints |-> hints] :
                          hints \in IF HashMayFail THEN {holder} \cup early ELSE {}}
  <2>1. Len(raw) >= 4 /\ raw[4].f = "hints" /\ raw[4] \in Field
    BY <1>2 DEF TxReadable, TxLayout
  <2>2. holder \in Seq(Line)
    BY <2>1, HintLinesType DEF HintHolder
  <2>3. \A hints \in early : hints \in Seq(Line)
    BY EmptySeq
  <2>4. o \in parsed \cup failed
    BY <1>2 DEF TxOutcomes
  <2>5. CASE o \in parsed
    <3>1. PICK accepted \in HintsAccepted(raw[3], raw[4]) :
            o = [ok |-> accepted /\ Len(raw) = Len(TxLayout), hints |-> holder]
      BY <2>5
    <3> HIDE DEF holder
    <3> QED BY <1>2, <2>2, <3>1
  <2>6. CASE o \in failed
    <3>1. PICK hints \in {holder} \cup early : o = [ok |-> FALSE, hints |-> hints]
      BY <2>6
    <3> HIDE DEF holder, early
    <3> QED BY <1>2, <2>2, <2>3, <3>1
  <2> QED BY <2>4, <2>5, <2>6
<1> QED BY <1>1, <1>2

(* A transaction that could be read has a digest of its own kind.          *)
LEMMA TxDigestType ==
  ASSUME NEW raw \in Seq(Field), TxReadable(raw)
  PROVE  TxDigest(raw) \in Digest /\ TxDigest(raw).kind = "transaction"
<1>1. SubSeq(raw, 1, 3) \in Seq(Field)
  BY DEF TxReadable, TxLayout
<1> QED BY <1>1, ZeroTypes DEF TxDigest, Digest, NoDigest

(* A part of a sequence is a sequence over the same set.                   *)
LEMMA SubSeqType ==
  ASSUME NEW S, NEW s \in Seq(S), NEW m \in Nat \ {0}, NEW n \in Nat, n <= Len(s)
  PROVE  SubSeq(s, m, n) \in Seq(S)
<1>1. \A i \in m..n : s[i] \in S
  BY ElementOfSeq, LenProperties
<1> QED BY <1>1, SubSeqProperties

(* A sequence of one element.                                              *)
LEMMA SingletonType ==
  ASSUME NEW S, NEW x \in S
  PROVE  <<x>> \in Seq(S)
OBVIOUS

(* A part of an app-data request adds at most one line.                    *)
LEMMA AppLineType ==
  ASSUME NEW raw \in Seq(Field), NEW i \in 2..5
  PROVE  AppLine(raw, i) \in Seq(Line)
<1>1. CASE AppReadUpTo(raw, i)
  <2>1. Len(raw) >= i
    BY <1>1 DEF AppReadUpTo, AppPartOK
  <2>2. <<raw[i]>> \in Seq(Field)
    BY <2>1, ElementOfSeq, LenProperties, SingletonType
  <2>3. AppTitle(i) \in Title
    <3>1. i = 2 \/ i = 3 \/ i = 4 \/ i = 5
      OBVIOUS
    <3> QED BY <3>1 DEF AppTitle, Title
  <2>4. [item |-> AppTitle(i), of |-> <<raw[i]>>] \in Line
    BY <2>2, <2>3 DEF Line
  <2> QED BY <2>4, EmptySeq, SingletonType DEF AppLine
<1>2. CASE ~AppReadUpTo(raw, i)
  BY <1>2, EmptySeq DEF AppLine
<1> QED BY <1>1, <1>2

(* What sign_data_deserialize leaves, and how much it has read of what it  *)
(* accepts.                                                                *)
LEMMA DataReadType ==
  ASSUME NEW raw \in Seq(Field)
  PROVE  /\ DataRead(raw).lines \in Seq(Line)
         /\ DataRead(raw).cell \in Seq(Field)
         /\ DataRead(raw).ok \in BOOLEAN
         /\ DataRead(raw) =
              [ok |-> DataRead(raw).ok, lines |-> DataRead(raw).lines,
               cell |-> DataRead(raw).cell]
         /\ DataRead(raw).ok =>
              \/ IsSchema(raw, "plaintext")
              \/ ~IsSchema(raw, "plaintext") /\ Len(raw) >= 5
<1>1. CASE IsSchema(raw, "plaintext") /\ PlaintextOK(raw)
  <2>1. DataRead(raw) = [ok |-> TRUE, lines |-> TextLine(raw), cell |-> raw]
    BY <1>1 DEF DataRead, IsSchema
  <2>2. SubSeq(raw, 2, Len(raw)) \in Seq(Field)
    <3>1. Len(raw) \in Nat
      BY LenProperties
    <3> QED BY <3>1, SubSeqType
  <2> DEFINE line == [item |-> "Text", of |-> SubSeq(raw, 2, Len(raw))]
  <2>3. line \in Line
    BY <2>2 DEF Line, Title
  <2>4. TextLine(raw) = <<line>>
    BY DEF TextLine
  <2> HIDE DEF line
  <2>5. TextLine(raw) \in Seq(Line)
    BY <2>3, <2>4, SingletonType
  <2> QED BY <1>1, <2>1, <2>5
<1>2. CASE ~(IsSchema(raw, "plaintext") /\ PlaintextOK(raw)) /\ IsSchema(raw, "appdata")
  <2> DEFINE cell == IF AppReadUpTo(raw, 5) THEN SubSeq(raw, 1, 5) ELSE <<>>
  <2>1. DataRead(raw) = [ok |-> AppReadUpTo(raw, 5), lines |-> AppLines(raw), cell |-> cell]
    BY <1>2 DEF DataRead
  <2>2. AppReadUpTo(raw, 5) \in BOOLEAN /\ (AppReadUpTo(raw, 5) => Len(raw) >= 5)
    BY DEF AppReadUpTo, AppPartOK
  <2>3. ~IsSchema(raw, "plaintext")
    BY <1>2 DEF IsSchema
  <2>4. cell \in Seq(Field)
    BY <2>2, SubSeqType, EmptySeq, LenProperties
  <2>5. AppLines(raw) \in Seq(Line)
    BY AppLineType, ConcatProperties DEF AppLines
  <2> QED BY <2>1, <2>2, <2>3, <2>4, <2>5
<1>3. CASE ~(IsSchema(raw, "plaintext") /\ PlaintextOK(raw)) /\ ~IsSchema(raw, "appdata")
  <2>1. DataRead(raw) = [ok |-> FALSE, lines |-> <<>>, cell |-> <<>>]
    BY <1>3 DEF DataRead
  <2> QED BY <2>1, EmptySeq
<1> QED BY <1>1, <1>2, <1>3

(* The data cell without its inner cell is a sequence of fields.           *)
LEMMA WithoutInnerCellType ==
  ASSUME NEW raw \in Seq(Field), DataRead(raw).ok
  PROVE  WithoutInnerCell(raw) \in Seq(Field)
<1>1. CASE IsSchema(raw, "plaintext")
  BY <1>1, SubSeqType, LenProperties, PlaintextAssumption DEF WithoutInnerCell
<1>2. CASE ~IsSchema(raw, "plaintext")
  <2>1. Len(raw) >= 5
    BY <1>2, DataReadType
  <2>2. SubSeq(raw, 1, 2) \in Seq(Field) /\ SubSeq(raw, 4, 5) \in Seq(Field)
    BY <2>1, SubSeqType, LenProperties
  <2> QED BY <1>2, <2>2, ConcatProperties DEF WithoutInnerCell
<1> QED BY <1>1, <1>2

(* The same with errors of the hash functions.                             *)
LEMMA DataOutcomesType ==
  ASSUME NEW raw \in Seq(Field), NEW o \in DataOutcomes(raw)
  PROVE  /\ o.lines \in Seq(Line)
         /\ o.cell \in Seq(Field)
         /\ o.ok \in BOOLEAN
<1> DEFINE r == DataRead(raw)
<1>1. CASE HashMayFail /\ r.ok
  <2> DEFINE cell == IF HasInnerCell(raw) THEN WithoutInnerCell(raw) ELSE r.cell
  <2>1. cell \in Seq(Field)
    BY <1>1, DataReadType, WithoutInnerCellType
  <2>2. o \in {r, [r EXCEPT !.ok = FALSE], [r EXCEPT !.cell = cell]}
    BY <1>1 DEF DataOutcomes
  <2> HIDE DEF cell
  <2> QED BY <2>1, <2>2, DataReadType
<1>2. CASE ~(HashMayFail /\ r.ok)
  <2>1. o = r
    BY <1>2 DEF DataOutcomes
  <2> QED BY <2>1, DataReadType
<1> QED BY <1>1, <1>2

(* The digests of sign-data and address proof requests.                    *)
LEMMA DigestTypes ==
  /\ \A cell \in Seq(Field) : DataDigest(cell) \in Digest /\ DataDigest(cell).kind = "data"
  /\ \A path \in PathValue, p2 \in 0..255, fields \in Seq(Field) :
       /\ ProofDigest(path, Workchain(p2), fields) \in Digest
       /\ ProofDigest(path, Workchain(p2), fields).kind = "proof"
       /\ ProofDigest(path, Workchain(p2), fields).fields = fields
<1>1. \A cell \in Seq(Field) : DataDigest(cell) \in Digest /\ DataDigest(cell).kind = "data"
  BY ZeroTypes DEF DataDigest, NoDigest, Digest
<1>2. \A path \in PathValue, p2 \in 0..255, fields \in Seq(Field) :
       /\ ProofDigest(path, Workchain(p2), fields) \in Digest
       /\ ProofDigest(path, Workchain(p2), fields).kind = "proof"
       /\ ProofDigest(path, Workchain(p2), fields).fields = fields
  BY DEF ProofDigest, Workchain, Digest
<1> QED BY <1>1, <1>2

(* What is formatted for a review is a review.                             *)
LEMMA FormattedType ==
  ASSUME NEW request \in RequestType, NEW c \in Context, NEW flags \in 0..255,
         request = "GET_PROOF" => Len(c.digest.fields) > 0
  PROVE  Formatted(request, c, flags) \in Review
<1>1. c.bip32_path \in PathValue /\ c.digest \in Digest /\ c.hints \in Seq(Line)
  BY DEF Context
<1>2. ShownLines(request, c) \in Seq(Line)
  <2>1. CASE request \in {"CONFIRM_TRANSACTION", "CONFIRM_SIGN_DATA", "CONFIRM_ADDRESS"}
    BY <1>1, <2>1, EmptySeq DEF ShownLines
  <2>2. CASE request = "GET_PROOF"
    <3>1. c.digest.fields \in Seq(Field)
      BY <1>1 DEF Digest
    <3>2. SubSeq(c.digest.fields, 1, 1) \in Seq(Field)
      BY <2>2, <3>1, SubSeqType, LenProperties
    <3>3. DomainLine(c.digest) \in Line
      BY <3>2, EmptySeq DEF DomainLine, Line, Title
    <3>4. ShownLines(request, c) = <<DomainLine(c.digest)>>
      BY <2>2 DEF ShownLines
    <3> QED BY <3>3, <3>4, SingletonType
  <2> QED BY <2>1, <2>2 DEF RequestType
<1> QED BY <1>1, <1>2 DEF Formatted, Review

-----------------------------------------------------------------------------
(***************************************************************************)
(* What a handler leaves behind.  Either the command is answered, or given *)
(* up, and the screen is as it was, or there is now a review of what the   *)
(* context holds, with a checked path and the digest of the request.       *)
(***************************************************************************)
HandlerTypes ==
  /\ pc' \in ProgramPoint
  /\ G_io_state' \in {"READY", "RECEIVED"}
  /\ output' \in Response
  /\ ctx' \in Context
  /\ screen' \in Screen
  /\ shown' \in Review

Concluded ==
  /\ pc' \in {"recv", "return", "overrun"}
  /\ pc' = "return" => HashMayFail
  /\ G_io_state' = "RECEIVED" => pc' = "overrun"
  /\ output'.what # "signature"
  /\ UNCHANGED <<screen, shown>>

Presented ==
  /\ pc' = "recv"
  /\ UNCHANGED <<G_io_state, output>>
  /\ screen' = "review"
  /\ shown' = Formatted(ctx'.req_type, ctx', shown'.flags)
  /\ ctx'.bip32_path \in Paths
  /\ ctx'.req_type # "CONFIRM_ADDRESS" =>
       ctx'.digest.kind = UserView!KindReviewed(ctx'.req_type)

HandlerPost == HandlerTypes /\ PathInv' /\ (Concluded \/ Presented)

(* A context whose path may be signed with, if its request is an upload.   *)
PathChecked(c) ==
  c.req_type \in {"CONFIRM_TRANSACTION", "CONFIRM_SIGN_DATA"} => c.bip32_path \in Paths

(* A handler that only answers.                                            *)
LEMMA RespondPost ==
  ASSUME IInv, pc = "dispatch",
         NEW c \in Context, PathChecked(c),
         NEW r \in Response, r.what # "signature",
         Respond(c, r)
  PROVE  HandlerPost
<1>1. screen \in Screen /\ shown \in Review /\ G_io_state = "RECEIVED"
  BY DEF IInv, TypeOK, UiTypeOK, DispatchInv
<1>2. /\ ctx' = c /\ output' = r /\ G_io_state' = "READY"
      /\ pc' = "recv" /\ UNCHANGED <<screen, shown>>
  BY <1>1 DEF Respond, Reply, ScreenFrame
<1>3. HandlerTypes
  BY <1>1, <1>2 DEF HandlerTypes, ProgramPoint
<1>4. PathInv'
  BY <1>2 DEF PathInv, PathChecked
<1>5. Concluded
  BY <1>2 DEF Concluded
<1> QED BY <1>3, <1>4, <1>5 DEF HandlerPost

(* A handler that ends in ui_display, whatever comes of it.                *)
LEMMA UiDisplayPost ==
  ASSUME IInv, pc = "dispatch",
         NEW request \in RequestType, NEW flags \in 0..255,
         NEW c \in Context, c.req_type = request, c.bip32_path \in Paths,
         request = "GET_PROOF" => Len(c.digest.fields) > 0,
         request # "CONFIRM_ADDRESS" =>
           c.digest.kind = UserView!KindReviewed(request),
         UiDisplay(request, c, flags)
  PROVE  HandlerPost
<1>1. /\ screen \in Screen /\ shown \in Review /\ output \in Response
      /\ G_io_state = "RECEIVED"
  BY DEF IInv, TypeOK, UiTypeOK, IoTypeOK, DispatchInv
<1>2. CASE c.state # DisplayState(request)
  <2> DEFINE d == [c EXCEPT !.state = "STATE_NONE"]
  <2>1. d \in Context /\ PathChecked(d)
    BY DEF Context, ContextState, PathChecked
  <2>2. Respond(d, Status("SW_BAD_STATE"))
    BY <1>2 DEF UiDisplay, Respond, ScreenFrame
  <2>3. Status("SW_BAD_STATE") \in Response /\ Status("SW_BAD_STATE").what = "none"
    BY ResponseTypes DEF StatusWord, Status
  <2> HIDE DEF d
  <2> QED BY <2>1, <2>2, <2>3, RespondPost
<1>3. CASE /\ ctx' = c
           /\ screen' = "review"
           /\ shown' = Formatted(request, c, flags)
           /\ AnswerLater
  <2>1. Formatted(request, c, flags) \in Review
    BY FormattedType
  <2>2. shown'.flags = flags
    BY <1>3 DEF Formatted
  <2>3. HandlerTypes
    BY <1>1, <1>3, <2>1 DEF HandlerTypes, ProgramPoint, Screen, AnswerLater
  <2>4. PathInv'
    BY <1>3 DEF PathInv
  <2>5. Presented
    BY <1>3, <2>2 DEF Presented, AnswerLater
  <2> QED BY <2>3, <2>4, <2>5 DEF HandlerPost
<1>4. CASE /\ HashMayFail
           /\ ctx' = c
           /\ output' = Status("SW_DISPLAY_ADDRESS_FAIL")
           /\ G_io_state' = "READY"
           /\ pc' = "return"
           /\ UNCHANGED <<screen, shown>>
  <2>1. output' \in Response /\ output'.what = "none"
    BY <1>4, ResponseTypes DEF StatusWord, Status
  <2>2. HandlerTypes
    BY <1>1, <1>4, <2>1 DEF HandlerTypes, ProgramPoint
  <2>3. PathInv'
    BY <1>4 DEF PathInv
  <2>4. Concluded
    BY <1>4, <2>1 DEF Concluded
  <2> QED BY <2>2, <2>3, <2>4 DEF HandlerPost
<1> QED BY <1>2, <1>3, <1>4 DEF UiDisplay

(* A status word is a response, and no signature.                          *)
LEMMA StatusTypes ==
  ASSUME NEW sw \in StatusWord
  PROVE  Status(sw) \in Response /\ Status(sw).what = "none"
BY ResponseTypes DEF Status

(* The contexts in which a path has been read, and its key derived.        *)
LEMMA ContextTypes ==
  ASSUME NEW path \in PathValue
  PROVE  /\ WithPath(path) \in Context /\ PathChecked(WithPath(path))
         /\ WithKey(path) \in Context /\ PathChecked(WithKey(path))
         /\ WithPath(path).bip32_path = path
         /\ WithKey(path).bip32_path = path
         /\ WithKey(path).req_type = "CONFIRM_ADDRESS"
<1>1. WithPath(path) \in Context /\ WithPath(path).req_type = "CONFIRM_ADDRESS"
      /\ WithPath(path).bip32_path = path
  BY ZeroTypes DEF WithPath, ZeroContext, Context
<1>2. WithKey(path) \in Context /\ WithKey(path).req_type = "CONFIRM_ADDRESS"
      /\ WithKey(path).bip32_path = path
  BY <1>1 DEF WithKey, Context
<1> QED BY <1>1, <1>2 DEF PathChecked

(* A command that no handler sees.                                         *)
LEMMA RejectCommandPost ==
  ASSUME IInv, RejectCommand
  PROVE  HandlerPost
<1>1. pc = "dispatch" /\ Respond(ctx, Status(DispatchStatus(cmd)))
  BY DEF RejectCommand
<1>2. cmd \in Commands
  BY <1>1 DEF IInv, DispatchInv
<1>3. ctx \in Context /\ PathChecked(ctx)
  BY DEF IInv, TypeOK, UiTypeOK, PathInv, PathChecked
<1>4. /\ Status(DispatchStatus(cmd)) \in Response
      /\ Status(DispatchStatus(cmd)).what # "signature"
  BY <1>2, DispatchStatusType, StatusTypes
<1> QED BY <1>1, <1>3, <1>4, RespondPost

(* GET_VERSION and GET_APP_NAME leave the context as it is.                *)
LEMMA InformationPost ==
  ASSUME IInv, GetVersion \/ GetAppName
  PROVE  HandlerPost
<1>1. PICK what \in {"version", "name"} : Respond(ctx, Data(what))
  BY DEF GetVersion, GetAppName
<1>2. pc = "dispatch"
  BY DEF GetVersion, GetAppName, Handling
<1>3. ctx \in Context /\ PathChecked(ctx)
  BY DEF IInv, TypeOK, UiTypeOK, PathInv, PathChecked
<1>4. Data(what) \in Response /\ Data(what).what # "signature"
  BY ResponseTypes DEF Data, Status
<1> QED BY <1>1, <1>2, <1>3, <1>4, RespondPost

(* handler_get_public_key.                                                 *)
LEMMA GetPublicKeyPost ==
  ASSUME IInv, GetPublicKey
  PROVE  HandlerPost
<1>1. pc = "dispatch" /\ cmd \in Commands
  BY DEF GetPublicKey, Handling, IInv, DispatchInv
<1>2. PICK path \in PathReadings(cmd.path) :
       \/ /\ PathStatus(path) # "SW_OK"
          /\ Respond(WithPath(path), Status(PathStatus(path)))
       \/ /\ PathStatus(path) = "SW_OK"
          /\ \/ Respond(WithPath(path), Status("SW_BAD_STATE"))
             \/ IF cmd.p1 = 1
                THEN UiDisplay("CONFIRM_ADDRESS", WithKey(path), cmd.p2)
                ELSE Respond(WithKey(path), KeyOf(WithKey(path)))
  BY DEF GetPublicKey
<1>3. /\ path \in PathValue /\ PathStatus(path) \in StatusWord
      /\ PathStatus(path) = "SW_OK" => path \in Paths
  BY <1>1, PathStatusType
<1>4. CASE Respond(WithPath(path), Status(PathStatus(path)))
  BY <1>1, <1>3, <1>4, ContextTypes, StatusTypes, RespondPost
<1>5. CASE Respond(WithPath(path), Status("SW_BAD_STATE"))
  <2>1. "SW_BAD_STATE" \in StatusWord
    BY DEF StatusWord
  <2> QED BY <1>1, <1>3, <1>5, <2>1, ContextTypes, StatusTypes, RespondPost
<1>6. CASE /\ PathStatus(path) = "SW_OK"
           /\ UiDisplay("CONFIRM_ADDRESS", WithKey(path), cmd.p2)
  <2>1. cmd.p2 \in 0..255
    BY <1>1, CommandTypes
  <2>2. "CONFIRM_ADDRESS" \in RequestType
    BY DEF RequestType
  <2> DEFINE c == WithKey(path)
  <2>3. c \in Context /\ c.req_type = "CONFIRM_ADDRESS" /\ c.bip32_path \in Paths
    BY <1>3, <1>6, ContextTypes
  <2> HIDE DEF c
  <2>4. UiDisplay("CONFIRM_ADDRESS", c, cmd.p2)
    BY <1>6 DEF c
  <2> QED BY <1>1, <2>1, <2>2, <2>3, <2>4, UiDisplayPost
<1>7. CASE Respond(WithKey(path), KeyOf(WithKey(path)))
  <2>1. KeyOf(WithKey(path)) \in Response /\ KeyOf(WithKey(path)).what # "signature"
    BY <1>3, ContextTypes, ResponseTypes DEF KeyOf, Data, Status
  <2> QED BY <1>1, <1>3, <1>7, <2>1, ContextTypes, RespondPost
<1> QED BY <1>2, <1>4, <1>5, <1>6, <1>7

(* handler_get_address_proof, once the path is read and checked.           *)
LEMMA ProofForPost ==
  ASSUME IInv, pc = "dispatch", NEW path \in Paths, ProofFor(path)
  PROVE  HandlerPost
<1> DEFINE digest == ProofDigest(path, Workchain(cmd.p2), cmd.fields)
           c      == [WithKey(path) EXCEPT !.digest = digest]
           asked  == [c EXCEPT !.req_type = "GET_PROOF"]
           status == IF cmd.path = "cut" THEN "SW_WRONG_DATA_LENGTH"
                     ELSE ProofStatus(cmd.fields)
<1>1. cmd \in Commands /\ path \in PathValue
  BY DEF IInv, DispatchInv, PathValue
<1>2. cmd.p2 \in 0..255 /\ cmd.fields \in Seq(Field)
  BY <1>1, CommandTypes
<1>3. /\ status \in StatusWord
      /\ status = "SW_OK" => Len(cmd.fields) > 0
  BY <1>2, ProofStatusType DEF StatusWord
<1>4. "SW_BAD_STATE" \in StatusWord /\ "SW_DISPLAY_ADDRESS_FAIL" \in StatusWord
  BY DEF StatusWord
<1>5. \A sw \in StatusWord : Respond(WithPath(path), Status(sw)) => HandlerPost
  BY <1>1, ContextTypes, StatusTypes, RespondPost
<1>6. \A sw \in StatusWord : Respond(WithKey(path), Status(sw)) => HandlerPost
  BY <1>1, ContextTypes, StatusTypes, RespondPost
<1>7. CASE status = "SW_OK" /\ UiDisplay("GET_PROOF", asked, cmd.p2)
  <2>1. /\ digest \in Digest /\ digest.kind = "proof" /\ digest.fields = cmd.fields
    BY <1>1, <1>2, DigestTypes
  <2> HIDE DEF digest
  <2>2. c \in Context /\ c.digest = digest /\ c.bip32_path = path
    <3> DEFINE k == WithKey(path)
    <3>1. k \in Context /\ k.bip32_path = path
      BY <1>1, ContextTypes
    <3>2. c = [k EXCEPT !.digest = digest]
      OBVIOUS
    <3> HIDE DEF k, c
    <3> QED BY <2>1, <3>1, <3>2 DEF Context
  <2> HIDE DEF c
  <2>3. /\ asked \in Context /\ asked.digest = digest /\ asked.bip32_path = path
        /\ asked.req_type = "GET_PROOF"
    BY <2>2 DEF Context, RequestType
  <2>4. "GET_PROOF" \in RequestType /\ UserView!KindReviewed("GET_PROOF") = "proof"
    BY DEF RequestType, UserView!KindReviewed
  <2> HIDE DEF asked, status
  <2> QED BY <1>2, <1>3, <1>7, <2>1, <2>3, <2>4, UiDisplayPost
<1> QED BY <1>3, <1>4, <1>5, <1>6, <1>7 DEF ProofFor

(* handler_get_address_proof.                                              *)
LEMMA GetAddressProofPost ==
  ASSUME IInv, GetAddressProof
  PROVE  HandlerPost
<1>1. pc = "dispatch" /\ cmd \in Commands
  BY DEF GetAddressProof, Handling, IInv, DispatchInv
<1>2. PICK path \in PathReadings(cmd.path) :
       \/ /\ PathStatus(path) # "SW_OK"
          /\ Respond(WithPath(path), Status(PathStatus(path)))
       \/ /\ PathStatus(path) = "SW_OK"
          /\ ProofFor(path)
  BY DEF GetAddressProof
<1>3. /\ path \in PathValue /\ PathStatus(path) \in StatusWord
      /\ PathStatus(path) = "SW_OK" => path \in Paths
  BY <1>1, PathStatusType
<1>4. CASE Respond(WithPath(path), Status(PathStatus(path)))
  BY <1>1, <1>3, <1>4, ContextTypes, StatusTypes, RespondPost
<1>5. CASE PathStatus(path) = "SW_OK" /\ ProofFor(path)
  BY <1>1, <1>3, <1>5, ProofForPost
<1> QED BY <1>2, <1>4, <1>5

(* The first command of either kind of upload.                             *)
LEMMA FirstChunkPost ==
  ASSUME IInv, SignTxFirst \/ SignDataFirst
  PROVE  HandlerPost
<1>1. pc = "dispatch" /\ cmd \in Commands
  BY DEF SignTxFirst, SignDataFirst, Handling, IInv, DispatchInv
<1>2. PICK request \in RequestType : StartUpload(request)
  BY DEF SignTxFirst, SignDataFirst, RequestType
<1>3. PICK path \in PathReadings(cmd.path) :
       \/ /\ PathStatus(path) # "SW_OK"
          /\ Respond(WithPath(path), Status(PathStatus(path)))
       \/ /\ PathStatus(path) = "SW_OK"
          /\ Respond([WithPath(path) EXCEPT !.req_type = request], Status("SW_OK"))
  BY <1>2 DEF StartUpload
<1>4. /\ path \in PathValue /\ PathStatus(path) \in StatusWord
      /\ PathStatus(path) = "SW_OK" => path \in Paths
  BY <1>1, PathStatusType
<1>5. CASE Respond(WithPath(path), Status(PathStatus(path)))
  BY <1>1, <1>4, <1>5, ContextTypes, StatusTypes, RespondPost
<1>6. CASE /\ PathStatus(path) = "SW_OK"
           /\ Respond([WithPath(path) EXCEPT !.req_type = request], Status("SW_OK"))
  <2> DEFINE k == WithPath(path)
             c == [k EXCEPT !.req_type = request]
  <2>1. k \in Context /\ k.bip32_path = path /\ path \in Paths
    BY <1>4, <1>6, ContextTypes
  <2>2. Respond(c, Status("SW_OK"))
    BY <1>6
  <2> HIDE DEF k
  <2>3. c \in Context /\ c.bip32_path = path
    BY <2>1 DEF Context
  <2> HIDE DEF c
  <2>4. PathChecked(c)
    BY <2>1, <2>3 DEF PathChecked
  <2>5. "SW_OK" \in StatusWord
    BY DEF StatusWord
  <2> QED BY <1>1, <2>2, <2>3, <2>4, <2>5, StatusTypes, RespondPost
<1> QED BY <1>3, <1>5, <1>6

(* Appending a command to an upload changes neither its path nor its       *)
(* kind.                                                                   *)
LEMMA UploadedTypes ==
  ASSUME IInv, pc = "dispatch"
  PROVE  /\ cmd \in Commands
         /\ Uploaded \in Context
         /\ Uploaded.bip32_path = ctx.bip32_path
         /\ Uploaded.req_type = ctx.req_type
         /\ Uploaded.raw \in Seq(Field)
         /\ Uploaded.hints \in Seq(Line)
         /\ PathChecked(Uploaded)
<1>1. cmd \in Commands /\ ctx \in Context
  BY DEF IInv, DispatchInv, TypeOK, UiTypeOK
<1>2. ctx.raw \in Seq(Field)
  BY <1>1 DEF Context
<1>3. ctx.raw \o cmd.fields \in Seq(Field)
  BY <1>1, <1>2, CommandTypes, ConcatProperties
<1>4. Uploaded = [ctx EXCEPT !.raw = ctx.raw \o cmd.fields]
  BY DEF Uploaded
<1>5. /\ Uploaded \in Context
      /\ Uploaded.bip32_path = ctx.bip32_path
      /\ Uploaded.req_type = ctx.req_type
  BY <1>1, <1>3, <1>4 DEF Context
<1>6. PathChecked(Uploaded)
  BY <1>5 DEF PathChecked, IInv, PathInv
<1>7. Uploaded.raw \in Seq(Field) /\ Uploaded.hints \in Seq(Line)
  BY <1>5 DEF Context
<1> QED BY <1>1, <1>5, <1>6, <1>7

(* A following command of an upload that does not end it.                  *)
LEMMA KeepChunkPost ==
  ASSUME IInv, pc = "dispatch", NEW status \in StatusWord \cup {"none"},
         KeepChunk(status)
  PROVE  HandlerPost
<1> DEFINE c == IF status = "SW_OK" THEN Uploaded ELSE ctx
<1>1. Respond(c, Status(status)) /\ status \in StatusWord
  BY DEF KeepChunk
<1>2. ctx \in Context /\ PathChecked(ctx)
  BY DEF IInv, TypeOK, UiTypeOK, PathInv, PathChecked
<1>3. c \in Context /\ PathChecked(c)
  BY <1>2, UploadedTypes
<1> HIDE DEF c
<1> QED BY <1>1, <1>3, StatusTypes, RespondPost

(* A parsed request that is displayed.                                     *)
LEMMA ParsedPost ==
  ASSUME IInv, pc = "dispatch",
         NEW request \in {"CONFIRM_TRANSACTION", "CONFIRM_SIGN_DATA"},
         NEW c \in Context, c.req_type = request, PathChecked(c),
         NEW digest \in Digest, digest.kind = UserView!KindReviewed(request),
         UiDisplay(request, [c EXCEPT !.digest = digest, !.state = "STATE_PARSED"], 0)
  PROVE  HandlerPost
<1> DEFINE d == [c EXCEPT !.digest = digest, !.state = "STATE_PARSED"]
<1>1. /\ d \in Context /\ d.req_type = request /\ d.digest = digest
      /\ d.bip32_path = c.bip32_path
  BY DEF Context, ContextState
<1>2. d.bip32_path \in Paths
  BY <1>1 DEF PathChecked
<1>3. request \in RequestType /\ request # "GET_PROOF"
  BY DEF RequestType
<1>4. UiDisplay(request, d, 0)
  OBVIOUS
<1>5. d.digest.kind = UserView!KindReviewed(request) /\ 0 \in 0..255
  BY <1>1
<1> HIDE DEF d
<1> QED BY <1>1, <1>2, <1>3, <1>4, <1>5, UiDisplayPost

(* The following commands of handler_sign_tx.                              *)
LEMMA SignTxChunkPost ==
  ASSUME IInv, SignTxChunk
  PROVE  HandlerPost
<1> DEFINE status == ChunkStatus("CONFIRM_TRANSACTION", "SW_WRONG_TX_LENGTH")
<1>1. pc = "dispatch" /\ (KeepChunk(status) \/ (status = "none" /\ SignTxParse))
  BY DEF SignTxChunk, Handling
<1>2. CASE KeepChunk(status)
  <2>1. status \in StatusWord \cup {"none"}
    BY DEF ChunkStatus, StatusWord
  <2> HIDE DEF status
  <2> QED BY <1>1, <1>2, <2>1, KeepChunkPost
<1>3. CASE status = "none" /\ SignTxParse
  <2>1. ctx.req_type = "CONFIRM_TRANSACTION"
    BY <1>3 DEF ChunkStatus
  <2>2. N_storage.expert_mode \in BOOLEAN /\ ctx \in Context
    BY DEF IInv, TypeOK, UiTypeOK
  <2>3. ctx.hints \in Seq(Line)
    BY <2>2 DEF Context
  <2>4. PICK o \in TxOutcomes(Uploaded.raw, ctx.hints, N_storage.expert_mode) :
          LET c == [Uploaded EXCEPT !.hints = o.hints]
          IN  IF o.ok
              THEN UiDisplay("CONFIRM_TRANSACTION",
                             [c EXCEPT !.digest = TxDigest(c.raw),
                                       !.state = "STATE_PARSED"], 0)
              ELSE Respond(c, Status("SW_TX_PARSING_FAIL"))
    BY <1>3 DEF SignTxParse
  <2>5. /\ o.hints \in Seq(Line) /\ o.ok \in BOOLEAN
        /\ o.ok => TxReadable(Uploaded.raw)
    BY <1>1, <2>2, <2>3, UploadedTypes, TxOutcomesType
  <2> DEFINE c == [Uploaded EXCEPT !.hints = o.hints]
  <2>6. /\ c \in Context /\ c.raw = Uploaded.raw
        /\ c.req_type = "CONFIRM_TRANSACTION"
        /\ c.bip32_path = Uploaded.bip32_path
    BY <1>1, <2>1, <2>5, UploadedTypes DEF Context
  <2> HIDE DEF c
  <2>7. PathChecked(c)
    BY <1>1, <2>1, <2>6, UploadedTypes DEF PathChecked
  <2>8. CASE o.ok
    <3>1. TxDigest(c.raw) \in Digest /\ TxDigest(c.raw).kind = "transaction"
      BY <1>1, <2>5, <2>6, <2>8, UploadedTypes, TxDigestType
    <3>2. UserView!KindReviewed("CONFIRM_TRANSACTION") = "transaction"
      BY DEF UserView!KindReviewed
    <3>3. UiDisplay("CONFIRM_TRANSACTION",
            [c EXCEPT !.digest = TxDigest(c.raw), !.state = "STATE_PARSED"], 0)
      BY <2>4, <2>8 DEF c
    <3> QED BY <1>1, <2>6, <2>7, <3>1, <3>2, <3>3, ParsedPost
  <2>9. CASE ~o.ok
    <3>1. "SW_TX_PARSING_FAIL" \in StatusWord
      BY DEF StatusWord
    <3>2. Respond(c, Status("SW_TX_PARSING_FAIL"))
      BY <2>4, <2>9 DEF c
    <3> QED BY <1>1, <2>6, <2>7, <3>1, <3>2, StatusTypes, RespondPost
  <2> QED BY <2>8, <2>9
<1> QED BY <1>1, <1>2, <1>3

(* The following commands of handler_sign_data.                            *)
LEMMA SignDataChunkPost ==
  ASSUME IInv, SignDataChunk
  PROVE  HandlerPost
<1> DEFINE status == ChunkStatus("CONFIRM_SIGN_DATA", "SW_WRONG_SIGN_DATA_LENGTH")
<1>1. pc = "dispatch" /\ (KeepChunk(status) \/ (status = "none" /\ SignDataParse))
  BY DEF SignDataChunk, Handling
<1>2. CASE KeepChunk(status)
  <2>1. status \in StatusWord \cup {"none"}
    BY DEF ChunkStatus, StatusWord
  <2> HIDE DEF status
  <2> QED BY <1>1, <1>2, <2>1, KeepChunkPost
<1>3. CASE status = "none" /\ SignDataParse
  <2>1. ctx.req_type = "CONFIRM_SIGN_DATA"
    BY <1>3 DEF ChunkStatus
  <2>2. PICK o \in DataOutcomes(Uploaded.raw) :
          LET c == [Uploaded EXCEPT !.hints = @ \o o.lines]
          IN  IF Len(c.hints) > MaxHints
              THEN /\ pc' = "overrun"
                   /\ ctx' = c
                   /\ UNCHANGED <<G_io_state, output>>
                   /\ ScreenFrame
              ELSE IF o.ok
              THEN UiDisplay("CONFIRM_SIGN_DATA",
                             [c EXCEPT !.digest = DataDigest(o.cell),
                                       !.state = "STATE_PARSED"], 0)
              ELSE Respond(c, Status("SW_SIGN_DATA_PARSING_FAIL"))
    BY <1>3 DEF SignDataParse
  <2>3. o.lines \in Seq(Line) /\ o.cell \in Seq(Field) /\ o.ok \in BOOLEAN
    BY <1>1, UploadedTypes, DataOutcomesType
  <2> DEFINE c == [Uploaded EXCEPT !.hints = @ \o o.lines]
  <2>4. /\ c \in Context
        /\ c.req_type = "CONFIRM_SIGN_DATA"
        /\ c.bip32_path = Uploaded.bip32_path
    <3> DEFINE hints == Uploaded.hints \o o.lines
    <3>1. hints \in Seq(Line)
      BY <1>1, <2>3, UploadedTypes, ConcatProperties
    <3>2. c = [Uploaded EXCEPT !.hints = hints]
      OBVIOUS
    <3> HIDE DEF hints, c
    <3> QED BY <1>1, <2>1, <3>1, <3>2, UploadedTypes DEF Context
  <2> HIDE DEF c
  <2>5. PathChecked(c)
    BY <1>1, <2>1, <2>4, UploadedTypes DEF PathChecked
  <2>6. CASE /\ pc' = "overrun"
             /\ ctx' = c
             /\ UNCHANGED <<G_io_state, output>>
             /\ ScreenFrame
    <3>1. /\ output \in Response /\ G_io_state = "RECEIVED"
          /\ screen \in Screen /\ shown \in Review
      BY <1>1 DEF IInv, TypeOK, IoTypeOK, UiTypeOK, DispatchInv
    <3>2. output.what # "signature"
      BY <1>1 DEF IInv, SignatureOnlyOfReviewed
    <3>3. HandlerTypes
      BY <2>4, <2>6, <3>1 DEF HandlerTypes, ScreenFrame, ProgramPoint
    <3>4. PathInv'
      BY <2>5, <2>6 DEF PathInv, PathChecked
    <3>5. Concluded
      BY <2>6, <3>2 DEF Concluded, ScreenFrame
    <3> QED BY <3>3, <3>4, <3>5 DEF HandlerPost
  <2>7. CASE UiDisplay("CONFIRM_SIGN_DATA",
               [c EXCEPT !.digest = DataDigest(o.cell), !.state = "STATE_PARSED"], 0)
    <3>1. DataDigest(o.cell) \in Digest /\ DataDigest(o.cell).kind = "data"
      BY <2>3, DigestTypes
    <3>2. UserView!KindReviewed("CONFIRM_SIGN_DATA") = "data"
      BY DEF UserView!KindReviewed
    <3> QED BY <1>1, <2>4, <2>5, <2>7, <3>1, <3>2, ParsedPost
  <2>8. CASE Respond(c, Status("SW_SIGN_DATA_PARSING_FAIL"))
    <3>1. "SW_SIGN_DATA_PARSING_FAIL" \in StatusWord
      BY DEF StatusWord
    <3> QED BY <1>1, <2>4, <2>5, <2>8, <3>1, StatusTypes, RespondPost
  <2> QED BY <2>2, <2>6, <2>7, <2>8 DEF c
<1> QED BY <1>1, <1>2, <1>3
-----------------------------------------------------------------------------
(* Every handler preserves the inductive invariant.                        *)
LEMMA HandlerStep ==
  ASSUME IInv, Handler
  PROVE  IInv'
<1>1. pc = "dispatch" /\ HandlerFrame
  BY DEF Handler, RejectCommand, GetVersion, GetAppName, GetPublicKey,
         GetAddressProof, SignTxFirst, SignTxChunk, SignDataFirst,
         SignDataChunk, Handling
<1>2. HandlerPost
  BY RejectCommandPost, InformationPost, GetPublicKeyPost, GetAddressProofPost,
     FirstChunkPost, SignTxChunkPost, SignDataChunkPost DEF Handler
<1>3. /\ screen \notin ReviewScreens /\ shown = NoReview
      /\ output.what # "signature"
      /\ cmd \in Commands /\ G_io_state = "RECEIVED" /\ pending # NoCommand
  BY <1>1 DEF IInv, ReviewLinkInv, ClosedInv, SignatureOnlyOfReviewed, DispatchInv
<1>4. TypeOK'
  BY <1>1, <1>2 DEF HandlerPost, HandlerTypes, HandlerFrame, IInv, TypeOK,
                    IoTypeOK, UiTypeOK
<1>5. PathInv'
  BY <1>2 DEF HandlerPost
<1>6. CASE Concluded
  <2>1. /\ pc' \in {"recv", "return", "overrun"} /\ output'.what # "signature"
        /\ screen' \notin ReviewScreens /\ shown' = NoReview
    BY <1>3, <1>6 DEF Concluded
  <2>4. LoopInv'
    BY <1>2, <1>6, <2>1 DEF Concluded, HandlerPost, HandlerTypes, LoopInv
  <2>2. DispatchInv' /\ ReviewLinkInv' /\ ReviewedDigestInv' /\ ClosedInv'
    BY <2>1 DEF DispatchInv, ReviewLinkInv, ReviewedDigestInv, ClosedInv
  <2>3. ReviewMatchesContext' /\ SignatureOnlyOfReviewed'
    BY <2>1 DEF ReviewMatchesContext, SignatureOnlyOfReviewed
  <2> QED BY <1>4, <1>5, <2>2, <2>3, <2>4 DEF IInv
<1>7. CASE Presented
  <2>1. /\ pc' = "recv" /\ G_io_state' = "RECEIVED" /\ output' = output
        /\ screen' = "review" /\ pending' = pending
    BY <1>1, <1>3, <1>7 DEF Presented, HandlerFrame
  <2>2. shown' = Formatted(ctx'.req_type, ctx', shown'.flags)
    BY <1>7 DEF Presented
  <2>3. shown'.request = ctx'.req_type /\ shown'.path = ctx'.bip32_path
    BY <2>2 DEF Formatted
  <2>4. ReviewedDigestInv'
    BY <1>7, <2>3 DEF ReviewedDigestInv, Presented, UserView!KindReviewed
  <2>5. DispatchInv' /\ ReviewLinkInv' /\ LoopInv' /\ ClosedInv'
    BY <1>3, <2>1 DEF DispatchInv, ReviewLinkInv, LoopInv, ClosedInv, ReviewScreens
  <2>6. ReviewMatchesContext'
    BY <2>2, <2>3 DEF ReviewMatchesContext, Formatted
  <2>7. SignatureOnlyOfReviewed'
    BY <1>3, <2>1 DEF SignatureOnlyOfReviewed
  <2> QED BY <1>4, <1>5, <2>4, <2>5, <2>6, <2>7 DEF IInv
<1> QED BY <1>2, <1>6, <1>7 DEF HandlerPost

-----------------------------------------------------------------------------
(* What has no review on the screen and nothing of a signature about it.   *)
Quiet ==
  /\ screen \notin ReviewScreens
  /\ shown = NoReview
  /\ output.what # "signature"
  /\ pc \notin {"dispatch", "answering"}

(* The invariant holds wherever no review is open and nothing is signed.   *)
LEMMA QuietStep ==
  ASSUME TypeOK', PathInv', Quiet', LoopInv'
  PROVE  IInv'
<1>1. DispatchInv' /\ ReviewLinkInv' /\ ReviewedDigestInv' /\ ClosedInv'
  BY DEF Quiet, DispatchInv, ReviewLinkInv, ReviewedDigestInv, ClosedInv
<1>2. ReviewMatchesContext' /\ SignatureOnlyOfReviewed'
  BY DEF Quiet, ReviewMatchesContext, SignatureOnlyOfReviewed
<1> QED BY <1>1, <1>2 DEF IInv

(* The invariant holds before the app is first started.                    *)
LEMMA InitialIInv ==
  ASSUME Init
  PROVE  IInv
<1>1. TypeOK
  BY ZeroTypes DEF Init, TypeOK, IoTypeOK, UiTypeOK, ProgramPoint, Screen
<1>2. PathInv
  BY DEF Init, PathInv, ZeroContext
<1>3. DispatchInv /\ ReviewLinkInv /\ LoopInv /\ ReviewedDigestInv /\ ClosedInv
  BY DEF Init, DispatchInv, ReviewLinkInv, LoopInv, ReviewedDigestInv, ClosedInv, ReviewScreens
<1>4. ReviewMatchesContext /\ SignatureOnlyOfReviewed
  BY DEF Init, ReviewMatchesContext, SignatureOnlyOfReviewed, ReviewScreens,
         NoResponse, Status
<1> QED BY <1>1, <1>2, <1>3, <1>4 DEF IInv

(* A restart or an end of the app leaves nothing of the exchange.          *)
LEMMA StartStep ==
  ASSUME IInv, Restarted \/ Stopped
  PROVE  IInv'
<1>1. /\ pc' \in {"recv", "off"} /\ G_io_state' = "READY"
      /\ output' = NoResponse /\ cmd' = NoCommand /\ pending' = NoCommand
      /\ ctx' = ZeroContext /\ screen' = "menu" /\ shown' = NoReview
  BY DEF Restarted, Stopped, IoStart
<1>2. N_storage' \in [initialized : BOOLEAN, expert_mode : BOOLEAN]
  <2>1. N_storage \in [initialized : BOOLEAN, expert_mode : BOOLEAN]
    BY DEF IInv, TypeOK, UiTypeOK
  <2>2. NvInit(N_storage) \in [initialized : BOOLEAN, expert_mode : BOOLEAN]
    BY <2>1 DEF NvInit
  <2>3. N_storage' = N_storage \/ N_storage' = NvInit(N_storage)
    BY DEF Restarted, Stopped
  <2> QED BY <2>1, <2>2, <2>3
<1>3. TypeOK'
  BY <1>1, <1>2, ZeroTypes DEF TypeOK, IoTypeOK, UiTypeOK, ProgramPoint, Screen
<1>4. PathInv'
  BY <1>1 DEF PathInv, ZeroContext
<1>5. Quiet' /\ LoopInv'
  BY <1>1 DEF Quiet, LoopInv, ReviewScreens, NoResponse, Status
<1> QED BY <1>3, <1>4, <1>5, QuietStep

(* io_recv_command, up to the wait in io_exchange.                         *)
LEMMA ReceiveStep ==
  ASSUME IInv, Receive
  PROVE  IInv'
<1>1. /\ pc = "recv" /\ pc' \in {"return", "replying", "exchange"}
      /\ cmd' = NoCommand /\ G_io_state' = RecvState
      /\ UNCHANGED <<output, pending, ctx, screen, shown, N_storage>>
  <2>1. /\ pc = "recv" /\ cmd' = NoCommand /\ G_io_state' = RecvState
        /\ UNCHANGED <<output, pending, ctx, screen, shown, N_storage>>
    BY DEF Receive, IoRecvCommand, uiVars
  <2>2. pc' \in {"return", "replying", "exchange"}
    <3>1. G_io_state \in {"READY", "RECEIVED", "WAITING"}
      BY DEF IInv, TypeOK, IoTypeOK
    <3>2. pc' = CASE G_io_state = "WAITING" -> "return"
             [] G_io_state = "READY" /\ output # NoResponse -> "replying"
             [] G_io_state = "RECEIVED" \/ output = NoResponse -> "exchange"
      BY DEF Receive, IoRecvCommand
    <3> QED BY <3>1, <3>2
  <2> QED BY <2>1, <2>2
<1>2. TypeOK'
  BY <1>1 DEF IInv, TypeOK, IoTypeOK, UiTypeOK, ProgramPoint, RecvState
<1>3. PathInv' /\ ClosedInv' /\ ReviewedDigestInv'
  BY <1>1 DEF IInv, PathInv, ClosedInv, ReviewedDigestInv, UserView!KindReviewed
<1>4. ReviewLinkInv'
  <2>1. screen \in ReviewScreens =>
          pending # NoCommand /\ G_io_state = "RECEIVED"
    BY <1>1 DEF IInv, ReviewLinkInv
  <2>2. screen \in ReviewScreens => pc' = "exchange" /\ G_io_state' = "WAITING"
    BY <2>1 DEF Receive, IoRecvCommand, RecvState
  <2> QED BY <1>1, <2>1, <2>2 DEF ReviewLinkInv
<1>5. DispatchInv'
  BY <1>1 DEF DispatchInv
<1>6. ReviewMatchesContext'
  BY <1>1 DEF IInv, ReviewMatchesContext, Formatted, ShownLines
<1>7. SignatureOnlyOfReviewed'
  BY <1>1 DEF IInv, SignatureOnlyOfReviewed
<1>8. LoopInv'
  <2>1. /\ G_io_state \in {"READY", "RECEIVED"}
        /\ G_io_state = "READY" \/ screen \in ReviewScreens
    BY <1>1 DEF IInv, LoopInv, TypeOK, IoTypeOK
  <2>2. pc' # "return" /\ (pc' = "replying" => G_io_state = "READY")
    BY <1>1, <2>1 DEF Receive, IoRecvCommand
  <2>3. /\ G_io_state' = "WAITING" => G_io_state = "RECEIVED"
        /\ G_io_state = "READY" => G_io_state' = "RECEIVED"
    BY <1>1, <2>1 DEF RecvState
  <2> QED BY <1>1, <2>1, <2>2, <2>3 DEF LoopInv
<1> QED BY <1>2, <1>3, <1>4, <1>5, <1>6, <1>7, <1>8 DEF IInv

(* A queued response has been sent.                                        *)
LEMMA SendStep ==
  ASSUME IInv, Send
  PROVE  IInv'
<1>1. /\ pc = "replying" /\ pc' = "exchange" /\ pending' = NoCommand
      /\ UNCHANGED <<G_io_state, output, cmd, ctx, screen, shown, N_storage>>
  BY DEF Send, ReplySent, uiVars
<1>2. TypeOK'
  BY <1>1 DEF IInv, TypeOK, IoTypeOK, UiTypeOK, ProgramPoint
<1>3. PathInv'
  BY <1>1 DEF IInv, PathInv
<1>4. Quiet'
  BY <1>1 DEF IInv, Quiet, ReviewLinkInv, ClosedInv, SignatureOnlyOfReviewed
<1>5. LoopInv'
  BY <1>1 DEF IInv, LoopInv
<1> QED BY <1>2, <1>3, <1>4, <1>5, QuietStep

(* The host sends a command.                                               *)
LEMMA HostStep ==
  ASSUME IInv, Host
  PROVE  IInv'
<1>1. PICK c \in Commands : HostSends(c) /\ UNCHANGED uiVars
  BY DEF Host
<1>2. /\ pc = "exchange" /\ pending = NoCommand /\ pending' = c /\ cmd' = c
      /\ G_io_state' = "RECEIVED" /\ pc' = "dispatch"
      /\ UNCHANGED <<output, ctx, screen, shown, N_storage>>
  BY <1>1 DEF HostSends, uiVars
<1>3. c # NoCommand
  BY TypesAssumption
<1>4. screen \notin ReviewScreens /\ output.what # "signature"
  BY <1>2 DEF IInv, ReviewLinkInv, SignatureOnlyOfReviewed
<1>5. TypeOK'
  BY <1>2 DEF IInv, TypeOK, IoTypeOK, UiTypeOK, ProgramPoint
<1>6. PathInv' /\ ClosedInv' /\ ReviewedDigestInv' /\ ReviewLinkInv'
  BY <1>2, <1>4 DEF IInv, PathInv, ClosedInv, ReviewedDigestInv, ReviewLinkInv
<1>7. DispatchInv' /\ LoopInv'
  BY <1>2, <1>3 DEF DispatchInv, LoopInv
<1>8. ReviewMatchesContext' /\ SignatureOnlyOfReviewed'
  BY <1>2, <1>4 DEF ReviewMatchesContext, SignatureOnlyOfReviewed
<1> QED BY <1>5, <1>6, <1>7, <1>8 DEF IInv

(* A choice answers with the key, a signature or a status word, and leaves *)
(* the context as it is, up to its state.                                  *)
LEMMA ValidateEffect ==
  ASSUME IInv, screen \in ReviewScreens, NEW choice \in BOOLEAN, Validate(choice)
  PROVE  /\ pc = "exchange" /\ pc' = "answering"
         /\ UNCHANGED <<G_io_state, cmd, pending, screen, shown, N_storage>>
         /\ \E state \in ContextState : ctx' = [ctx EXCEPT !.state = state]
         /\ \/ output' = SignatureOf(ctx) /\ choice
               /\ shown.request \in {"CONFIRM_TRANSACTION", "GET_PROOF", "CONFIRM_SIGN_DATA"}
            \/ output' = KeyOf(ctx) /\ choice /\ shown.request = "CONFIRM_ADDRESS"
            \/ ~choice /\ output' = Status("SW_DENY")
            \/ output' = Status("SW_SIGNATURE_FAIL")
<1>1. ctx \in Context /\ shown.request \in RequestType \cup {"none"}
  BY DEF IInv, TypeOK, UiTypeOK, Review
<1>2. ctx.state \in ContextState /\ ctx = [ctx EXCEPT !.state = ctx.state]
  BY <1>1 DEF Context
<1>3. pc = "exchange" /\ UNCHANGED <<cmd, pending, screen, shown, N_storage>>
  BY DEF Validate
<1>4. CASE shown.request = "CONFIRM_ADDRESS" /\ ValidatePubkey(choice)
  BY <1>2, <1>3, <1>4 DEF ValidatePubkey, Answer
<1>5. CASE shown.request = "CONFIRM_TRANSACTION" /\ ValidateTransaction(choice)
  <2>1. "STATE_APPROVED" \in ContextState /\ "STATE_NONE" \in ContextState
    BY DEF ContextState
  <2>2. \E state \in ContextState : ctx' = [ctx EXCEPT !.state = state]
    BY <1>5, <2>1 DEF ValidateTransaction
  <2>3. /\ pc' = "answering" /\ UNCHANGED G_io_state
        /\ \/ output' = SignatureOf(ctx) /\ choice
           \/ ~choice /\ output' = Status("SW_DENY")
           \/ output' = Status("SW_SIGNATURE_FAIL")
    BY <1>5 DEF ValidateTransaction, Answer
  <2> QED BY <1>3, <1>5, <2>2, <2>3
<1>6. CASE shown.request \in {"GET_PROOF", "CONFIRM_SIGN_DATA"} /\ ValidateOther(choice)
  BY <1>2, <1>3, <1>6 DEF ValidateOther, Answer
<1>7. shown.request \in RequestType
  <2>1. shown.request = ctx.req_type
    BY DEF IInv, ReviewMatchesContext
  <2> QED BY <1>1, <2>1 DEF Context
<1> QED BY <1>4, <1>5, <1>6, <1>7 DEF Validate, RequestType

(* The invariant is preserved by either choice on a review.                *)
LEMMA ValidateStep ==
  ASSUME IInv, screen \in ReviewScreens, NEW choice \in BOOLEAN, Validate(choice)
  PROVE  IInv'
<1>1. /\ pc = "exchange" /\ pc' = "answering"
      /\ UNCHANGED <<G_io_state, cmd, pending, screen, shown, N_storage>>
  BY ValidateEffect
<1>2. PICK state \in ContextState : ctx' = [ctx EXCEPT !.state = state]
  BY ValidateEffect
<1>3. ctx \in Context
  BY DEF IInv, TypeOK, UiTypeOK
<1>4. /\ ctx' \in Context /\ ctx'.req_type = ctx.req_type
      /\ ctx'.bip32_path = ctx.bip32_path /\ ctx'.digest = ctx.digest
      /\ ctx'.hints = ctx.hints
  BY <1>2, <1>3 DEF Context
<1>5. "SW_DENY" \in StatusWord /\ "SW_SIGNATURE_FAIL" \in StatusWord
  BY DEF StatusWord
<1>6. output' \in Response
  BY <1>3, <1>5, ValidateEffect, ResponseTypes
<1>7. TypeOK'
  BY <1>1, <1>4, <1>6 DEF IInv, TypeOK, IoTypeOK, UiTypeOK, ProgramPoint
<1>8. PathInv' /\ DispatchInv' /\ ClosedInv' /\ ReviewLinkInv' /\ LoopInv'
  BY <1>1, <1>4 DEF IInv, PathInv, DispatchInv, ClosedInv, ReviewLinkInv, LoopInv
<1>9. ReviewedDigestInv'
  BY <1>1, <1>4 DEF IInv, ReviewedDigestInv, UserView!KindReviewed
<1>10. ReviewMatchesContext'
  <2>1. shown.request = ctx.req_type /\ shown = Formatted(ctx.req_type, ctx, shown.flags)
    BY DEF IInv, ReviewMatchesContext
  <2>2. ShownLines(ctx.req_type, ctx') = ShownLines(ctx.req_type, ctx)
    BY <1>4 DEF ShownLines
  <2>3. Formatted(ctx'.req_type, ctx', shown.flags) = Formatted(ctx.req_type, ctx, shown.flags)
    BY <1>4, <2>2 DEF Formatted
  <2>4. shown'.request = ctx'.req_type
        /\ shown' = Formatted(ctx'.req_type, ctx', shown'.flags)
    BY <1>1, <1>4, <2>1, <2>3
  <2> QED BY <2>4 DEF ReviewMatchesContext, Formatted, ShownLines
<1>11. SignatureOnlyOfReviewed'
  <2>1. CASE output' = SignatureOf(ctx) /\
             shown.request \in {"CONFIRM_TRANSACTION", "GET_PROOF", "CONFIRM_SIGN_DATA"}
    <3>1. shown.path = ctx.bip32_path /\ shown.digest = ctx.digest
      BY DEF IInv, ReviewMatchesContext, Formatted
    <3>2. output' = [Data("signature") EXCEPT !.path = shown.path, !.digest = shown.digest]
      BY <2>1, <3>1 DEF SignatureOf
    <3>3. shown.path \in Paths /\ ctx.digest.kind # "none"
      BY <2>1 DEF IInv, ReviewedDigestInv, UserView!KindReviewed
    <3>4. Data("signature") \in Response
      BY ResponseTypes
    <3>5. output'.digest = shown.digest
      BY <3>2, <3>4 DEF Response
    <3> QED BY <1>1, <3>1, <3>2, <3>3, <3>5 DEF SignatureOnlyOfReviewed
  <2>2. CASE output' = KeyOf(ctx)
    BY <2>2 DEF SignatureOnlyOfReviewed, KeyOf, Data, Status
  <2>3. CASE output' = Status("SW_DENY") \/ output' = Status("SW_SIGNATURE_FAIL")
    BY <2>3 DEF SignatureOnlyOfReviewed, Status
  <2> QED BY <2>1, <2>2, <2>3, ValidateEffect
<1> QED BY <1>7, <1>8, <1>9, <1>10, <1>11 DEF IInv

(* The buttons that end a review.                                          *)
LEMMA UserDecidesStep ==
  ASSUME IInv, UserDecides
  PROVE  IInv'
<1>1. PICK choice \in BOOLEAN : screen \in ReviewScreens /\ Validate(choice)
  BY DEF UserDecides, Approve, Reject, ConfirmReject, ReviewScreens
<1> QED BY <1>1, ValidateStep

(* The end of a validate callback closes the review.                       *)
LEMMA ReviewDoneStep ==
  ASSUME IInv, ReviewDone
  PROVE  IInv'
<1>1. /\ pc = "answering" /\ pc' = "exchange" /\ G_io_state' = "READY"
      /\ screen' \in {"status", "menu"} /\ shown' = NoReview
      /\ UNCHANGED <<cmd, ctx, N_storage>>
  BY DEF ReviewDone, AnswerSent
<1>2. G_io_state = "WAITING"
  BY <1>1 DEF IInv, ReviewLinkInv
<1>3. output' = NoResponse /\ pending' = NoCommand
  BY <1>2 DEF ReviewDone, AnswerSent
<1>4. TypeOK'
  BY <1>1, <1>3, ZeroTypes DEF IInv, TypeOK, IoTypeOK, UiTypeOK, ProgramPoint, Screen
<1>5. PathInv'
  BY <1>1 DEF IInv, PathInv
<1>6. Quiet' /\ LoopInv'
  BY <1>1, <1>3 DEF Quiet, LoopInv, ReviewScreens, NoResponse, Status
<1> QED BY <1>4, <1>5, <1>6, QuietStep

(* The buttons that do not end a review.                                   *)
LEMMA RoamStep ==
  ASSUME IInv, UserRoams
  PROVE  IInv'
<1>1. CASE AskRejection \/ GoBack
  <2>1. /\ pc = "exchange" /\ screen \in ReviewScreens /\ screen' \in ReviewScreens
        /\ UNCHANGED <<ioVars, ctx, shown, N_storage>>
    BY <1>1 DEF AskRejection, GoBack, Navigate, ReviewScreens
  <2>2. TypeOK'
    BY <2>1 DEF IInv, TypeOK, IoTypeOK, UiTypeOK, ioVars, ReviewScreens, Screen
  <2>3. DispatchInv' /\ PathInv' /\ ReviewLinkInv' /\ LoopInv' /\ ClosedInv'
    BY <2>1 DEF IInv, ioVars, DispatchInv, PathInv, ReviewLinkInv, LoopInv, ClosedInv
  <2>4. ReviewedDigestInv'
    BY <2>1 DEF IInv, ioVars, ReviewedDigestInv, UserView!KindReviewed
  <2>5. ReviewMatchesContext'
    BY <2>1 DEF IInv, ioVars, ReviewMatchesContext, Formatted, ShownLines
  <2>6. SignatureOnlyOfReviewed'
    BY <2>1 DEF IInv, ioVars, SignatureOnlyOfReviewed
  <2> QED BY <2>2, <2>3, <2>4, <2>5, <2>6 DEF IInv
<1>2. CASE OpenSettings \/ CloseSettings \/ DismissStatus \/ SetExpertMode
  <2>1. /\ pc = "exchange" /\ screen \notin ReviewScreens
        /\ screen' \in Screen /\ screen' \notin ReviewScreens
        /\ UNCHANGED <<ioVars, ctx, shown>>
    BY <1>2 DEF OpenSettings, CloseSettings, DismissStatus, SetExpertMode,
                Navigate, Screen, ReviewScreens, IInv, TypeOK, UiTypeOK
  <2>2. N_storage' \in [initialized : BOOLEAN, expert_mode : BOOLEAN]
    BY <1>2 DEF OpenSettings, CloseSettings, DismissStatus, SetExpertMode,
                Navigate, IInv, TypeOK, UiTypeOK
  <2>3. TypeOK'
    BY <2>1, <2>2 DEF IInv, TypeOK, IoTypeOK, UiTypeOK, ioVars
  <2>4. PathInv'
    BY <2>1 DEF IInv, PathInv
  <2>5. Quiet' /\ LoopInv'
    BY <2>1 DEF IInv, Quiet, LoopInv, ClosedInv, SignatureOnlyOfReviewed, ioVars
  <2> QED BY <2>3, <2>4, <2>5, QuietStep
<1>3. CASE Quit
  BY <1>3, StartStep DEF Quit
<1> QED BY <1>1, <1>2, <1>3 DEF UserRoams

(* The invariant does not depend on anything but the variables.            *)
LEMMA StutterStep ==
  ASSUME IInv, UNCHANGED vars
  PROVE  IInv'
<1>1. UNCHANGED <<pc, G_io_state, output, cmd, pending, ctx, screen, shown, N_storage>>
  BY DEF vars, ioVars, uiVars
<1>2. TypeOK'
  BY <1>1 DEF IInv, TypeOK, IoTypeOK, UiTypeOK
<1>3. DispatchInv' /\ ReviewLinkInv' /\ LoopInv' /\ PathInv' /\ ClosedInv'
  BY <1>1 DEF IInv, DispatchInv, ReviewLinkInv, LoopInv, PathInv, ClosedInv
<1>4. ReviewedDigestInv'
  BY <1>1 DEF IInv, ReviewedDigestInv, UserView!KindReviewed
<1>5. ReviewMatchesContext'
  BY <1>1 DEF IInv, ReviewMatchesContext, Formatted, ShownLines
<1>6. SignatureOnlyOfReviewed'
  BY <1>1 DEF IInv, SignatureOnlyOfReviewed
<1> QED BY <1>2, <1>3, <1>4, <1>5, <1>6 DEF IInv
-----------------------------------------------------------------------------
(* The inductive invariant: one step per kind of action.                   *)
LEMMA NextIInv == IInv /\ [Next]_vars => IInv'
<1> SUFFICES ASSUME IInv, [Next]_vars
             PROVE  IInv'
  OBVIOUS
<1>1. CASE Receive
  BY <1>1, ReceiveStep
<1>2. CASE Send
  BY <1>2, SendStep
<1>3. CASE Handler
  BY <1>3, HandlerStep
<1>4. CASE ReviewDone
  BY <1>4, ReviewDoneStep
<1>5. CASE Host
  BY <1>5, HostStep
<1>6. CASE UserDecides
  BY <1>6, UserDecidesStep
<1>7. CASE UserRoams
  BY <1>7, RoamStep
<1>8. CASE Environment \/ AppMainReturns
  BY <1>8, StartStep DEF Environment, Launch, IoReset, PowerLoss, AppMainReturns
<1>9. CASE UNCHANGED vars
  BY <1>9, StutterStep
<1> QED BY <1>1, <1>2, <1>3, <1>4, <1>5, <1>6, <1>7, <1>8, <1>9 DEF Next, Device

(* IInv holds in every reachable state, whatever the host, the user, the   *)
(* link and the power do.                                                  *)
THEOREM InductiveInvariant == Spec => []IInv
<1>1. Init => IInv
  BY InitialIInv
<1> QED BY <1>1, NextIInv, PTL DEF Spec

(* All variables keep to their types.                                      *)
THEOREM TypeCorrect == Spec => []TypeOK
<1>1. IInv => TypeOK
  BY DEF IInv
<1> QED BY <1>1, InductiveInvariant, PTL

(* io.c and the handlers never hold a signature to send other than the one *)
(* over what the review on the screen shows, for the path it shows.        *)
THEOREM SignaturesAreReviewed == Spec => []SignatureOnlyOfReviewed
<1>1. IInv => SignatureOnlyOfReviewed
  BY DEF IInv
<1> QED BY <1>1, InductiveInvariant, PTL

(* What is on the screen is what G_context holds, so that the validate     *)
(* callbacks, which sign G_context, sign what is shown.                    *)
THEOREM ReviewsMatchContext == Spec => []ReviewMatchesContext
<1>1. IInv => ReviewMatchesContext
  BY DEF IInv
<1> QED BY <1>1, InductiveInvariant, PTL

(* Unless a hash function fails, no command makes app_main return, as it   *)
(* would if a command were answered twice or received in WAITING.          *)
THEOREM LoopGoesOn ==
  ASSUME ~HashMayFail
  PROVE  Spec => []AppMainNeverReturns
<1>1. IInv => AppMainNeverReturns
  BY DEF IInv, LoopInv, AppMainNeverReturns
<1> QED BY <1>1, InductiveInvariant, PTL

(* io_exchange waits for the user if and only if there is a review on the  *)
(* screen: whatever fails, the host is never left to wait on nobody.       *)
THEOREM WaitsForReviews == Spec => []ReviewIffWaiting
<1>1. IInv => ReviewIffWaiting
  BY DEF IInv, LoopInv, ReviewLinkInv, ReviewIffWaiting
<1> QED BY <1>1, InductiveInvariant, PTL

(* After nv_init has written it once, only the user's switch changes the   *)
(* stored setting: no command, restart, crash or other button does.        *)
THEOREM SettingIsTheUsers == Spec => SettingKept
<1>1. ASSUME [Next]_vars, N_storage.initialized, N_storage' # N_storage
      PROVE  SetExpertMode
  <2>1. CASE Device /\ ~AppMainReturns
    <3>1. N_storage' = N_storage
      BY <2>1 DEF Device, Receive, Send, Handler, ReviewDone, uiVars, HandlerFrame,
         RejectCommand, GetVersion, GetAppName, GetPublicKey, GetAddressProof,
         SignTxFirst, SignTxChunk, SignDataFirst, SignDataChunk
    <3> QED BY <1>1, <3>1
  <2>2. CASE Host \/ UserDecides
    BY <1>1, <2>2 DEF Host, uiVars, UserDecides, Approve, Reject, ConfirmReject, Validate
  <2>3. CASE UserRoams
    BY <1>1, <2>3 DEF UserRoams, AskRejection, GoBack, OpenSettings, CloseSettings,
       DismissStatus, Navigate, Quit, Stopped
  <2>4. CASE Environment \/ AppMainReturns
    BY <1>1, <2>4 DEF Environment, Launch, IoReset, PowerLoss, AppMainReturns,
       Restarted, Stopped, NvInit
  <2>5. CASE UNCHANGED vars
    BY <1>1, <2>5 DEF vars, uiVars
  <2> QED BY <1>1, <2>1, <2>2, <2>3, <2>4, <2>5 DEF Next, Device
<1>2. [Next]_vars =>
        [N_storage.initialized /\ N_storage' # N_storage => SetExpertMode]_vars
  BY <1>1
<1> QED BY <1>2, PTL DEF Spec, SettingKept
-----------------------------------------------------------------------------
(* The consent refinement: SigningConsent's variables are OpenReview and   *)
(* Released.                                                               *)
LEMMA SameConstants ==
  UserView!NoReview = NoReview /\ UserView!NoResponse = NoResponse
BY DEF UserView!NoReview, UserView!NoResponse, UserView!NoDigest, UserView!Status,
       NoReview, NoResponse, NoDigest, Status

(* Without a review on the screen there is nothing to answer or to send.   *)
LEMMA ClosedView ==
  ASSUME IInv, screen \notin ReviewScreens
  PROVE  UserView!Closed
<1>1. output.what # "signature"
  BY DEF IInv, SignatureOnlyOfReviewed
<1> QED BY <1>1, SameConstants DEF UserView!Closed, OpenReview, Released

(* A review on the screen is one the user sees.                            *)
LEMMA OpenView ==
  ASSUME IInv, screen \in ReviewScreens
  PROVE  OpenReview = shown /\ shown.request \in RequestType /\ shown # NoReview
<1>1. shown.request = ctx.req_type /\ ctx \in Context
  BY DEF IInv, ReviewMatchesContext, TypeOK, UiTypeOK
<1>2. shown.request \in RequestType
  BY <1>1 DEF Context
<1>3. NoReview.request \notin RequestType
  BY DEF NoReview, RequestType
<1> QED BY <1>2, <1>3 DEF OpenReview

(* A handler that opens a review does so with nothing else under review.   *)
LEMMA PresentView ==
  ASSUME IInv, IInv', Handler, screen' \in ReviewScreens
  PROVE  UserView!Present
<1>1. pc = "dispatch"
  BY DEF Handler, RejectCommand, GetVersion, GetAppName, GetPublicKey,
         GetAddressProof, SignTxFirst, SignTxChunk, SignDataFirst,
         SignDataChunk, Handling
<1>2. screen \notin ReviewScreens /\ output.what # "signature"
  BY <1>1 DEF IInv, ReviewLinkInv, SignatureOnlyOfReviewed
<1>3. HandlerPost
  BY RejectCommandPost, InformationPost, GetPublicKeyPost, GetAddressProofPost,
     FirstChunkPost, SignTxChunkPost, SignDataChunkPost DEF Handler
<1>4. Presented
  BY <1>2, <1>3 DEF HandlerPost, Concluded
<1>5. UserView!Closed
  BY <1>2, ClosedView
<1>6. UNCHANGED Released
  BY <1>4 DEF Presented, Released
<1>7. OpenReview' # NoReview
  <2>1. ctx'.req_type \in RequestType /\ shown'.request = ctx'.req_type
    BY <1>4, <1>3 DEF HandlerPost, HandlerTypes, Context, Presented, Formatted
  <2>2. OpenReview' = shown'
    BY DEF OpenReview
  <2> QED BY <2>1, <2>2 DEF NoReview, RequestType
<1> QED BY <1>5, <1>6, <1>7, SameConstants DEF UserView!Present

(* What a choice releases is what the review shows.                        *)
LEMMA ReleaseView ==
  ASSUME IInv, IInv', screen \in ReviewScreens, NEW choice \in BOOLEAN, Validate(choice)
  PROVE  UserView!Release \/ UNCHANGED UserView!scVars
<1>1. /\ pc = "exchange" /\ UNCHANGED <<screen, shown>>
  BY ValidateEffect
<1>2. Released = NoResponse /\ UNCHANGED OpenReview
  BY <1>1 DEF Released, OpenReview, IInv, SignatureOnlyOfReviewed
<1>3. CASE output'.what # "signature"
  <2>1. Released' = NoResponse
    BY <1>3 DEF Released
  <2> QED BY <1>2, <2>1 DEF UserView!scVars
<1>4. CASE output'.what = "signature"
  <2>1. output' = SignatureOf(ctx) /\
        shown.request \in {"CONFIRM_TRANSACTION", "GET_PROOF", "CONFIRM_SIGN_DATA"}
    <3>1. KeyOf(ctx).what = "key"
      BY DEF KeyOf, Data, Status
    <3>2. Status("SW_DENY").what = "none" /\ Status("SW_SIGNATURE_FAIL").what = "none"
      BY DEF Status
    <3> QED BY <1>4, <3>1, <3>2, ValidateEffect
  <2>2. ctx \in Context
    BY DEF IInv, TypeOK, UiTypeOK
  <2>3. Data("signature") \in Response
    BY ResponseTypes
  <2>4. output'.path = ctx.bip32_path /\ output'.digest = ctx.digest
    BY <2>1, <2>3 DEF SignatureOf, Response
  <2>5. shown.path = ctx.bip32_path /\ shown.digest = ctx.digest
    BY DEF IInv, ReviewMatchesContext, Formatted
  <2>6. shown.path \in Paths /\
        ctx.digest.kind = UserView!KindReviewed(shown.request)
    BY <2>1 DEF IInv, ReviewedDigestInv
  <2>7. OpenReview = shown /\ shown # NoReview
    BY OpenView
  <2>8. Released' = output' /\ output' # NoResponse
    BY <1>4 DEF Released, NoResponse, Status
  <2>9. UserView!Consented(OpenReview, Released')
    BY <2>1, <2>4, <2>5, <2>6, <2>7, <2>8 DEF UserView!Consented
  <2> QED BY <1>2, <2>7, <2>8, <2>9, SameConstants DEF UserView!Release
<1> QED BY <1>3, <1>4

(* Every step maps to a step of SigningConsent or to none.                 *)
LEMMA ConsentStep ==
  ASSUME IInv, IInv', [Next]_vars
  PROVE  [UserView!Present \/ UserView!Release \/ UserView!Close]_UserView!scVars
<1>1. CASE screen' \notin ReviewScreens
  <2>1. output'.what # "signature"
    BY <1>1 DEF IInv, SignatureOnlyOfReviewed
  <2>2. OpenReview' = NoReview /\ Released' = NoResponse
    BY <1>1, <2>1 DEF OpenReview, Released
  <2>3. UserView!Close
    BY <2>2, SameConstants DEF UserView!Close, UserView!Closed, UserView!NoReview,
       UserView!NoResponse, UserView!NoDigest, UserView!Status
  <2> QED BY <2>3
<1>2. CASE screen' \in ReviewScreens
  <2>1. CASE Handler
    BY <1>2, <2>1, PresentView
  <2>2. CASE UserDecides
    <3>1. PICK choice \in BOOLEAN : screen \in ReviewScreens /\ Validate(choice)
      BY <2>2 DEF UserDecides, Approve, Reject, ConfirmReject, ReviewScreens
    <3> QED BY <3>1, ReleaseView
  <2>3. CASE Receive \/ Send \/ Host
    <3>1. UNCHANGED <<screen, shown, output>>
      BY <2>3 DEF Receive, IoRecvCommand, Send, ReplySent, Host, HostSends, uiVars
    <3>2. UNCHANGED <<OpenReview, Released>>
      BY <3>1 DEF OpenReview, Released
    <3> QED BY <3>2 DEF UserView!scVars
  <2>4. CASE UserRoams
    <3>1. AskRejection \/ GoBack \/ SetExpertMode
      BY <1>2, <2>4 DEF UserRoams, OpenSettings, CloseSettings, DismissStatus,
                        Navigate, Quit, Stopped, ReviewScreens
    <3>2. screen \in ReviewScreens
      BY <1>2, <3>1 DEF AskRejection, GoBack, SetExpertMode, Navigate, ReviewScreens
    <3>3. UNCHANGED <<shown, output>>
      BY <3>1 DEF AskRejection, GoBack, SetExpertMode, Navigate, ioVars
    <3>4. UNCHANGED <<OpenReview, Released>>
      BY <1>2, <3>2, <3>3 DEF OpenReview, Released
    <3> QED BY <3>4 DEF UserView!scVars
  <2>5. CASE ReviewDone \/ Environment \/ AppMainReturns
    BY <1>2, <2>5 DEF ReviewDone, Environment, Launch, IoReset, PowerLoss,
       AppMainReturns, Restarted, Stopped, ReviewScreens
  <2>6. CASE UNCHANGED vars
    BY <2>6 DEF vars, ioVars, uiVars, UserView!scVars, OpenReview, Released
  <2> QED BY <2>1, <2>2, <2>3, <2>4, <2>5, <2>6 DEF Next, Device
<1> QED BY <1>1, <1>2

(* The app implements SigningConsent: a review stays as shown until it is  *)
(* answered, and a signature only comes of the answer to the review of it. *)
THEOREM ConsentRefinement == Spec => SignsWithConsent
<1>1. Init => UserView!Init
  BY InitialIInv, ClosedView DEF Init, ReviewScreens, UserView!Init
<1>2. IInv /\ IInv' /\ [Next]_vars =>
        [UserView!Present \/ UserView!Release \/ UserView!Close]_UserView!scVars
  BY ConsentStep
<1> QED BY <1>1, <1>2, InductiveInvariant, PTL DEF Spec, SignsWithConsent, UserView!Spec

-----------------------------------------------------------------------------
(* Answers.                                                                *)

(* The instance's constants are TonApp's.                                  *)
LEMMA SameHostConstants ==
  HostView!NoResponse = NoResponse
BY DEF HostView!NoResponse, HostView!NoDigest, HostView!Status, NoResponse, NoDigest, Status

(* What P2 says of a signing command that a handler sees: only the last    *)
(* command of an upload has neither flag.                                  *)
LEMMA LastOfUpload ==
  ASSUME NEW c \in Commands, DispatchStatus(c) = "SW_OK",
         c.ins \in {"SIGN_TX", "SIGN_DATA"}
  PROVE  HostView!IsLast(c) <=> ~IsFirst(c) /\ ~IsMore(c)
<1>1. ParametersOK(c) /\ c.p2 \in 0..255
  <2>1. c.framed \in BOOLEAN /\ c.cla \in BOOLEAN
    BY TypesAssumption DEF Command
  <2> QED BY <2>1, CommandTypes DEF DispatchStatus
<1>2. c.p2 \in 0..3
  <2>1. c.p2 <= P2_FIRST + P2_MORE
    BY <1>1 DEF ParametersOK
  <2>2. \A n \in 0..255 : n <= P2_FIRST + P2_MORE => n \in 0..3
    BY DEF P2_FIRST, P2_MORE
  <2> QED BY <1>1, <2>1, <2>2
<1>3. \A n \in 0..3 : n = 0 <=> ~HasBit(n, 1) /\ ~HasBit(n, 2)
  <2>1. ~HasBit(0, 1) /\ ~HasBit(0, 2) /\ HasBit(1, 1) /\ HasBit(2, 2) /\ HasBit(3, 1)
    BY DEF HasBit
  <2>2. 0..3 = {0, 1, 2, 3}
    OBVIOUS
  <2> QED BY <2>1, <2>2
<1> QED BY <1>2, <1>3 DEF HostView!IsLast, IsFirst, IsMore, P2_FIRST, P2_MORE

(* The status words that may answer any command.                           *)
Refusal == StatusWord \ {"SW_OK", "SW_DENY", "SW_SIGNATURE_FAIL"}

LEMMA RefusalAnswers ==
  ASSUME NEW c, NEW sw \in Refusal
  PROVE  HostView!Answers(c, Status(sw))
BY DEF HostView!Answers, Status, Refusal

(* A command is turned away, and a path or a proof request refused, with   *)
(* one of them.                                                            *)
LEMMA RefusalTypes ==
  /\ \A c \in Commands : DispatchStatus(c) # "SW_OK" => DispatchStatus(c) \in Refusal
  /\ \A path : PathStatus(path) # "SW_OK" => PathStatus(path) \in Refusal
  /\ \A fields \in Seq(Field) :
       ProofStatus(fields) # "SW_OK" => ProofStatus(fields) \in Refusal
<1>1. ASSUME NEW c \in Commands, DispatchStatus(c) # "SW_OK"
      PROVE  DispatchStatus(c) \in Refusal
  BY <1>1, TypesAssumption DEF DispatchStatus, Refusal, StatusWord, Command
<1>2. ASSUME NEW path, PathStatus(path) # "SW_OK"
      PROVE  PathStatus(path) \in Refusal
  BY <1>2 DEF PathStatus, Refusal, StatusWord
<1>3. ASSUME NEW fields \in Seq(Field), ProofStatus(fields) # "SW_OK"
      PROVE  ProofStatus(fields) \in Refusal
  BY <1>3 DEF ProofStatus, Refusal, StatusWord
<1> QED BY <1>1, <1>2, <1>3

-----------------------------------------------------------------------------
(* A handler answers the command it processes, or opens the review that    *)
(* does, or the app goes down.                                             *)
AnswerPost ==
  \/ /\ pc' = "recv"
     /\ HostView!Answers(cmd, output')
     /\ UNCHANGED screen
  \/ /\ pc' \in {"return", "overrun"}
     /\ UNCHANGED screen
  \/ /\ pc' = "recv"
     /\ G_io_state' = "RECEIVED"
     /\ ReviewFor(cmd, ctx')

(* A handler that only answers.                                            *)
LEMMA RespondAnswer ==
  ASSUME IInv, pc = "dispatch", NEW c, NEW r, HostView!Answers(cmd, r), Respond(c, r)
  PROVE  AnswerPost
<1>1. G_io_state = "RECEIVED"
  BY DEF IInv, DispatchInv
<1> QED BY <1>1 DEF Respond, Reply, ScreenFrame, AnswerPost

(* A handler that ends in ui_display, whatever comes of it.                *)
LEMMA UiDisplayAnswer ==
  ASSUME IInv, pc = "dispatch", NEW request, NEW c, NEW flags,
         ReviewFor(cmd, c), UiDisplay(request, c, flags)
  PROVE  AnswerPost
<1>1. G_io_state = "RECEIVED"
  BY DEF IInv, DispatchInv
<1>2. CASE c.req_type # request \/ c.state # DisplayState(request)
  <2>1. Respond([c EXCEPT !.state = "STATE_NONE"], Status("SW_BAD_STATE"))
    BY <1>2 DEF UiDisplay, Respond, ScreenFrame
  <2>2. "SW_BAD_STATE" \in Refusal
    BY DEF Refusal, StatusWord
  <2> QED BY <2>1, <2>2, RefusalAnswers, RespondAnswer
<1>3. CASE ctx' = c /\ AnswerLater
  BY <1>1, <1>3 DEF AnswerLater, AnswerPost
<1>4. CASE pc' = "return" /\ UNCHANGED screen
  BY <1>4 DEF AnswerPost
<1> QED BY <1>2, <1>3, <1>4 DEF UiDisplay

(* A command that no handler sees, and those that ask for information.     *)
LEMMA InformationAnswer ==
  ASSUME IInv, RejectCommand \/ GetVersion \/ GetAppName
  PROVE  AnswerPost
<1>1. pc = "dispatch" /\ cmd \in Commands
  BY DEF RejectCommand, GetVersion, GetAppName, Handling, IInv, DispatchInv
<1>2. CASE RejectCommand
  <2>1. Respond(ctx, Status(DispatchStatus(cmd))) /\ DispatchStatus(cmd) \in Refusal
    BY <1>1, <1>2, RefusalTypes DEF RejectCommand
  <2> QED BY <1>1, <2>1, RefusalAnswers, RespondAnswer
<1>3. CASE GetVersion
  <2>1. Respond(ctx, Data("version")) /\ HostView!Answers(cmd, Data("version"))
    BY <1>3 DEF GetVersion, Handling, HostView!Answers, Data, Status
  <2> QED BY <1>1, <2>1, RespondAnswer
<1>4. CASE GetAppName
  <2>1. Respond(ctx, Data("name")) /\ HostView!Answers(cmd, Data("name"))
    BY <1>4 DEF GetAppName, Handling, HostView!Answers, Data, Status
  <2> QED BY <1>1, <2>1, RespondAnswer
<1> QED BY <1>2, <1>3, <1>4

(* The path that is read is the command's, unless the command was cut.     *)
LEMMA PathOfCommand ==
  ASSUME NEW c \in Commands, NEW path \in PathReadings(c.path)
  PROVE  path = c.path \/ c.path = "cut"
BY DEF PathReadings

(* The key that is derived after the reading of a path.                    *)
LEMMA KeyOfPath ==
  ASSUME NEW path \in PathValue
  PROVE  WithKey(path).key = path /\ KeyOf(WithKey(path)).what = "key"
         /\ KeyOf(WithKey(path)).path = path
<1>1. WithPath(path) \in Context /\ WithKey(path) = [WithPath(path) EXCEPT !.key = path]
  BY ContextTypes DEF WithKey
<1>2. WithKey(path).key = path
  BY <1>1 DEF Context
<1>3. KeyOf(WithKey(path)) = [Data("key") EXCEPT !.path = path]
  BY <1>2 DEF KeyOf
<1> QED BY <1>2, <1>3 DEF Data, Status

(* handler_get_public_key.                                                 *)
LEMMA GetPublicKeyAnswer ==
  ASSUME IInv, GetPublicKey
  PROVE  AnswerPost
<1>1. pc = "dispatch" /\ cmd \in Commands /\ cmd.ins = "GET_PUBLIC_KEY"
  BY DEF GetPublicKey, Handling, IInv, DispatchInv
<1>2. PICK path \in PathReadings(cmd.path) :
       \/ /\ PathStatus(path) # "SW_OK"
          /\ Respond(WithPath(path), Status(PathStatus(path)))
       \/ /\ PathStatus(path) = "SW_OK"
          /\ \/ Respond(WithPath(path), Status("SW_BAD_STATE"))
             \/ IF cmd.p1 = 1
                THEN UiDisplay("CONFIRM_ADDRESS", WithKey(path), cmd.p2)
                ELSE Respond(WithKey(path), KeyOf(WithKey(path)))
  BY DEF GetPublicKey
<1> DEFINE k == WithKey(path)
           r == KeyOf(k)
<1>3. path \in PathValue /\ cmd.path \in {path, "cut"}
  BY <1>1, PathStatusType, PathOfCommand
<1>4. /\ k.req_type = "CONFIRM_ADDRESS" /\ k.key = path
      /\ r.what = "key" /\ r.path = path
  BY <1>3, ContextTypes, KeyOfPath
<1>5. CASE \E sw \in Refusal : Respond(WithPath(path), Status(sw))
  BY <1>1, <1>5, RefusalAnswers, RespondAnswer
<1>6. "SW_BAD_STATE" \in Refusal
  BY DEF Refusal, StatusWord
<1> HIDE DEF k, r
<1>7. CASE cmd.p1 = 1 /\ UiDisplay("CONFIRM_ADDRESS", k, cmd.p2)
  <2>1. ReviewFor(cmd, k)
    BY <1>1, <1>3, <1>4, <1>7 DEF ReviewFor
  <2> QED BY <1>1, <1>7, <2>1, UiDisplayAnswer
<1>8. CASE Respond(k, r)
  <2>1. HostView!Answers(cmd, r)
    BY <1>1, <1>3, <1>4 DEF HostView!Answers
  <2> QED BY <1>1, <1>8, <2>1, RespondAnswer
<1> QED BY <1>2, <1>5, <1>6, <1>7, <1>8, RefusalTypes DEF k, r

(* handler_get_address_proof.  A cut path is refused before the review.    *)
LEMMA GetAddressProofAnswer ==
  ASSUME IInv, GetAddressProof
  PROVE  AnswerPost
<1>1. pc = "dispatch" /\ cmd \in Commands /\ cmd.ins = "GET_ADDRESS_PROOF"
  BY DEF GetAddressProof, Handling, IInv, DispatchInv
<1>2. PICK path \in PathReadings(cmd.path) :
       \/ /\ PathStatus(path) # "SW_OK"
          /\ Respond(WithPath(path), Status(PathStatus(path)))
       \/ /\ PathStatus(path) = "SW_OK"
          /\ ProofFor(path)
  BY DEF GetAddressProof
<1>3. path \in PathValue /\ cmd.path \in {path, "cut"}
      /\ cmd.p2 \in 0..255 /\ cmd.fields \in Seq(Field)
  BY <1>1, PathStatusType, PathOfCommand, CommandTypes
<1> DEFINE d == ProofDigest(path, Workchain(cmd.p2), cmd.fields)
           k == WithKey(path)
           c == [k EXCEPT !.digest = d]
           asked == [c EXCEPT !.req_type = "GET_PROOF"]
           status == IF cmd.path = "cut" THEN "SW_WRONG_DATA_LENGTH"
                     ELSE ProofStatus(cmd.fields)
<1>4. \/ \E sw : sw \in Refusal /\ (Respond(WithPath(path), Status(sw)) \/ Respond(k, Status(sw)))
      \/ status = "SW_OK" /\ UiDisplay("GET_PROOF", asked, cmd.p2)
  <2>1. "SW_BAD_STATE" \in Refusal /\ "SW_DISPLAY_ADDRESS_FAIL" \in Refusal
    BY DEF Refusal, StatusWord
  <2>2. status # "SW_OK" => status \in Refusal
    <3>1. "SW_WRONG_DATA_LENGTH" \in Refusal
      BY DEF Refusal, StatusWord
    <3> QED BY <1>3, <3>1, RefusalTypes
  <2>3. PathStatus(path) # "SW_OK" => PathStatus(path) \in Refusal
    BY RefusalTypes
  <2>4. CASE ProofFor(path)
    <3>1. \/ Respond(WithPath(path), Status("SW_BAD_STATE"))
          \/ Respond(k, Status("SW_DISPLAY_ADDRESS_FAIL"))
          \/ status # "SW_OK" /\ Respond(k, Status(status))
          \/ Respond(k, Status("SW_BAD_STATE"))
          \/ status = "SW_OK" /\ UiDisplay("GET_PROOF", asked, cmd.p2)
      BY <2>4 DEF ProofFor
    <3> HIDE DEF status, asked, k
    <3> QED BY <2>1, <2>2, <3>1
  <2> QED BY <1>2, <2>3, <2>4
<1>5. CASE \E sw : sw \in Refusal /\ (Respond(WithPath(path), Status(sw)) \/ Respond(k, Status(sw)))
  BY <1>1, <1>5, RefusalAnswers, RespondAnswer
<1>6. CASE status = "SW_OK" /\ UiDisplay("GET_PROOF", asked, cmd.p2)
  <2>1. cmd.path = path
    BY <1>3, <1>6
  <2>2. k \in Context /\ k.bip32_path = path
    BY <1>3, ContextTypes
  <2>3. d \in Digest /\ d.path = path /\ d.fields = cmd.fields
    BY <1>3, DigestTypes DEF ProofDigest
  <2>4. asked = [[k EXCEPT !.digest = d] EXCEPT !.req_type = "GET_PROOF"]
    OBVIOUS
  <2> HIDE DEF d, k, c, asked
  <2>5. asked.req_type = "GET_PROOF" /\ asked.bip32_path = path /\ asked.digest = d
    BY <2>2, <2>3, <2>4 DEF Context
  <2>6. ReviewFor(cmd, asked)
    BY <1>1, <2>1, <2>3, <2>5 DEF ReviewFor
  <2> QED BY <1>1, <1>6, <2>6, UiDisplayAnswer
<1> QED BY <1>4, <1>5, <1>6

(* The first command of either kind of upload is answered, and is not its  *)
(* last.                                                                   *)
LEMMA FirstChunkAnswer ==
  ASSUME IInv, SignTxFirst \/ SignDataFirst
  PROVE  AnswerPost
<1>1. /\ pc = "dispatch" /\ cmd \in Commands /\ cmd.ins \in {"SIGN_TX", "SIGN_DATA"}
      /\ DispatchStatus(cmd) = "SW_OK" /\ IsFirst(cmd)
  BY DEF SignTxFirst, SignDataFirst, Handling, IInv, DispatchInv
<1>2. PICK request : StartUpload(request)
  BY DEF SignTxFirst, SignDataFirst
<1>3. PICK path \in PathReadings(cmd.path) :
       \/ /\ PathStatus(path) # "SW_OK"
          /\ Respond(WithPath(path), Status(PathStatus(path)))
       \/ /\ PathStatus(path) = "SW_OK"
          /\ Respond([WithPath(path) EXCEPT !.req_type = request], Status("SW_OK"))
  BY <1>2 DEF StartUpload
<1>4. HostView!Answers(cmd, Status("SW_OK"))
  <2>1. ~HostView!IsLast(cmd)
    BY <1>1, LastOfUpload
  <2> QED BY <1>1, <2>1 DEF HostView!Answers, Status
<1>5. PathStatus(path) # "SW_OK" => HostView!Answers(cmd, Status(PathStatus(path)))
  BY RefusalTypes, RefusalAnswers
<1> QED BY <1>1, <1>3, <1>4, <1>5, RespondAnswer

(* A following command that is not the last is answered with no data, and  *)
(* the last with a refusal or by the review.                               *)
LEMMA KeepChunkAnswer ==
  ASSUME IInv, pc = "dispatch", cmd.ins \in {"SIGN_TX", "SIGN_DATA"},
         DispatchStatus(cmd) = "SW_OK",
         NEW request, NEW sw \in Refusal, KeepChunk(ChunkStatus(request, sw))
  PROVE  AnswerPost
<1> DEFINE status == ChunkStatus(request, sw)
           c == IF status = "SW_OK" THEN Uploaded ELSE ctx
<1>1. Respond(c, Status(status)) /\ status # "none"
  BY DEF KeepChunk
<1>2. "SW_BAD_STATE" \in Refusal
  BY DEF Refusal, StatusWord
<1>3. status \in Refusal \/ (status = "SW_OK" /\ IsMore(cmd))
  BY <1>1, <1>2 DEF ChunkStatus
<1>4. HostView!Answers(cmd, Status(status))
  <2>1. CASE status \in Refusal
    BY <2>1, RefusalAnswers
  <2>2. CASE status = "SW_OK" /\ IsMore(cmd)
    <3>1. cmd \in Commands
      BY DEF IInv, DispatchInv
    <3>2. ~HostView!IsLast(cmd)
      BY <2>2, <3>1, LastOfUpload
    <3>3. HostView!Answers(cmd, Status("SW_OK"))
      BY <3>2 DEF HostView!Answers, Status
    <3> QED BY <2>2, <3>3
  <2> QED BY <1>3, <2>1, <2>2
<1> HIDE DEF c, status
<1> QED BY <1>1, <1>4, RespondAnswer

(* Setting other fields of a context leaves its request.                   *)
LEMMA SameRequestType ==
  ASSUME NEW u \in Context, NEW hints, NEW digest
  PROVE  LET c == [u EXCEPT !.hints = hints]
         IN  [c EXCEPT !.digest = digest, !.state = "STATE_PARSED"].req_type = u.req_type
BY DEF Context

(* The following commands of handler_sign_tx.                              *)
LEMMA SignTxChunkAnswer ==
  ASSUME IInv, SignTxChunk
  PROVE  AnswerPost
<1> DEFINE status == ChunkStatus("CONFIRM_TRANSACTION", "SW_WRONG_TX_LENGTH")
<1>1. /\ pc = "dispatch" /\ cmd \in Commands /\ cmd.ins = "SIGN_TX"
      /\ DispatchStatus(cmd) = "SW_OK" /\ ~IsFirst(cmd)
      /\ KeepChunk(status) \/ (status = "none" /\ SignTxParse)
  BY DEF SignTxChunk, Handling, IInv, DispatchInv
<1>2. "SW_WRONG_TX_LENGTH" \in Refusal /\ "SW_TX_PARSING_FAIL" \in Refusal
  BY DEF Refusal, StatusWord
<1>3. CASE KeepChunk(status)
  BY <1>1, <1>2, <1>3, KeepChunkAnswer
<1>4. CASE status = "none" /\ SignTxParse
  <2>1. ctx.req_type = "CONFIRM_TRANSACTION" /\ ~IsMore(cmd)
    BY <1>4 DEF ChunkStatus
  <2>2. HostView!IsLast(cmd)
    BY <1>1, <2>1, LastOfUpload
  <2> DEFINE c(o) == [Uploaded EXCEPT !.hints = o.hints]
             d(o) == [c(o) EXCEPT !.digest = TxDigest(c(o).raw), !.state = "STATE_PARSED"]
  <2>3. PICK o : \/ UiDisplay("CONFIRM_TRANSACTION", d(o), 0)
                 \/ Respond(c(o), Status("SW_TX_PARSING_FAIL"))
    BY <1>4 DEF SignTxParse
  <2>4. d(o).req_type = "CONFIRM_TRANSACTION"
    BY <1>1, <2>1, UploadedTypes, SameRequestType
  <2> HIDE DEF c, d
  <2>5. ReviewFor(cmd, d(o))
    BY <1>1, <2>2, <2>4 DEF ReviewFor
  <2> QED BY <1>1, <1>2, <2>3, <2>5, RefusalAnswers, RespondAnswer, UiDisplayAnswer
<1> QED BY <1>1, <1>3, <1>4

(* The following commands of handler_sign_data.                            *)
LEMMA SignDataChunkAnswer ==
  ASSUME IInv, SignDataChunk
  PROVE  AnswerPost
<1> DEFINE status == ChunkStatus("CONFIRM_SIGN_DATA", "SW_WRONG_SIGN_DATA_LENGTH")
<1>1. /\ pc = "dispatch" /\ cmd \in Commands /\ cmd.ins = "SIGN_DATA"
      /\ DispatchStatus(cmd) = "SW_OK" /\ ~IsFirst(cmd)
      /\ KeepChunk(status) \/ (status = "none" /\ SignDataParse)
  BY DEF SignDataChunk, Handling, IInv, DispatchInv
<1>2. "SW_WRONG_SIGN_DATA_LENGTH" \in Refusal /\ "SW_SIGN_DATA_PARSING_FAIL" \in Refusal
  BY DEF Refusal, StatusWord
<1>3. CASE KeepChunk(status)
  BY <1>1, <1>2, <1>3, KeepChunkAnswer
<1>4. CASE status = "none" /\ SignDataParse
  <2>1. ctx.req_type = "CONFIRM_SIGN_DATA" /\ ~IsMore(cmd)
    BY <1>4 DEF ChunkStatus
  <2>2. HostView!IsLast(cmd)
    BY <1>1, <2>1, LastOfUpload
  <2> DEFINE c(o) == [Uploaded EXCEPT !.hints = @ \o o.lines]
             d(o) == [c(o) EXCEPT !.digest = DataDigest(o.cell), !.state = "STATE_PARSED"]
  <2>3. PICK o : \/ pc' = "overrun" /\ UNCHANGED screen
                 \/ UiDisplay("CONFIRM_SIGN_DATA", d(o), 0)
                 \/ Respond(c(o), Status("SW_SIGN_DATA_PARSING_FAIL"))
    BY <1>4 DEF SignDataParse, ScreenFrame
  <2>4. d(o).req_type = "CONFIRM_SIGN_DATA"
    BY <1>1, <2>1, UploadedTypes, SameRequestType
  <2> HIDE DEF c, d
  <2>5. ReviewFor(cmd, d(o))
    BY <1>1, <2>2, <2>4 DEF ReviewFor
  <2>6. CASE pc' = "overrun" /\ UNCHANGED screen
    BY <2>6 DEF AnswerPost
  <2> QED BY <1>1, <1>2, <2>3, <2>5, <2>6, RefusalAnswers, RespondAnswer, UiDisplayAnswer
<1> QED BY <1>1, <1>3, <1>4

-----------------------------------------------------------------------------
(* The user's answer is an answer to the command that opened the review.   *)

LEMMA ReviewAnswers ==
  ASSUME IInv, AnswerInv, screen \in ReviewScreens, NEW choice \in BOOLEAN, Validate(choice)
  PROVE  output' # NoResponse /\ HostView!Answers(pending, output')
<1>1. ReviewFor(pending, ctx) /\ ctx \in Context
  BY DEF AnswerInv, IInv, TypeOK, UiTypeOK
<1>2. shown.request = ctx.req_type /\ ctx.req_type \in RequestType
  BY <1>1 DEF IInv, ReviewMatchesContext, Context
<1>3. HostView!Confirmable(pending)
  BY <1>1, <1>2 DEF ReviewFor, HostView!Confirmable, RequestType
<1>4. CASE output' = Status("SW_DENY") \/ output' = Status("SW_SIGNATURE_FAIL")
  <2>1. output'.what = "none" /\ output'.sw \in {"SW_DENY", "SW_SIGNATURE_FAIL"}
    BY <1>4 DEF Status
  <2>2. NoResponse.sw = "none"
    BY DEF NoResponse, Status
  <2> QED BY <1>3, <2>1, <2>2 DEF HostView!Answers
<1>5. CASE output' = KeyOf(ctx) /\ shown.request = "CONFIRM_ADDRESS"
  <2>1. output'.what = "key" /\ output'.path = ctx.key
    BY <1>5 DEF KeyOf, Data, Status
  <2>2. pending.ins = "GET_PUBLIC_KEY" /\ pending.path \in {ctx.key, "cut"}
    BY <1>1, <1>2, <1>5 DEF ReviewFor
  <2> QED BY <2>1, <2>2 DEF HostView!Answers, NoResponse, Status
<1>6. CASE /\ output' = SignatureOf(ctx)
           /\ shown.request \in {"CONFIRM_TRANSACTION", "GET_PROOF", "CONFIRM_SIGN_DATA"}
  <2>1. /\ output'.what = "signature" /\ output'.path = ctx.bip32_path
        /\ output'.digest = ctx.digest
    BY <1>6 DEF SignatureOf, Data, Status
  <2>2. ctx.digest.kind = UserView!KindReviewed(ctx.req_type)
    BY <1>2, <1>6 DEF IInv, ReviewedDigestInv
  <2>3. HostView!Signs(pending, output')
    BY <1>1, <1>2, <1>6, <2>1, <2>2 DEF ReviewFor, HostView!Signs, UserView!KindReviewed
  <2> QED BY <2>1, <2>3 DEF HostView!Answers, NoResponse, Status
<1> QED BY <1>4, <1>5, <1>6, ValidateEffect

-----------------------------------------------------------------------------
(* The inductive invariant of the exchange.                                *)

(* What a handler does for its command.                                    *)
LEMMA HandlerAnswerPost ==
  ASSUME IInv, Handler
  PROVE  AnswerPost /\ HandlerFrame /\ pc = "dispatch"
<1>1. AnswerPost
  BY InformationAnswer, GetPublicKeyAnswer, GetAddressProofAnswer, FirstChunkAnswer,
     SignTxChunkAnswer, SignDataChunkAnswer DEF Handler
<1>2. HandlerFrame /\ pc = "dispatch"
  BY DEF Handler, RejectCommand, GetVersion, GetAppName, GetPublicKey, GetAddressProof,
         SignTxFirst, SignTxChunk, SignDataFirst, SignDataChunk, Handling
<1> QED BY <1>1, <1>2

(* Every handler preserves it.                                             *)
LEMMA HandlerAnswer ==
  ASSUME IInv, AnswerInv, Handler
  PROVE  AnswerInv'
<1>1. AnswerPost /\ pending' = pending /\ pc = "dispatch"
  BY HandlerAnswerPost DEF HandlerFrame
<1>2. cmd = pending /\ pending # NoCommand /\ screen \notin ReviewScreens
  BY <1>1 DEF AnswerInv, IInv, DispatchInv, ReviewLinkInv
<1> QED BY <1>1, <1>2 DEF AnswerPost, AnswerInv

(* The state of the context does not matter to the answer.                 *)
LEMMA SameReviewFor ==
  ASSUME NEW c, NEW x \in Context, NEW state, ReviewFor(c, x)
  PROVE  ReviewFor(c, [x EXCEPT !.state = state])
<1> DEFINE y == [x EXCEPT !.state = state]
<1>1. /\ y.req_type = x.req_type /\ y.key = x.key /\ y.bip32_path = x.bip32_path
      /\ y.digest = x.digest
  BY DEF Context
<1> HIDE DEF y
<1>2. ReviewFor(c, y)
  BY <1>1 DEF ReviewFor
<1> QED BY <1>2 DEF y

(* An answer to a review.                                                  *)
LEMMA UserDecidesAnswer ==
  ASSUME IInv, AnswerInv, UserDecides
  PROVE  AnswerInv'
<1>1. PICK choice \in BOOLEAN : screen \in ReviewScreens /\ Validate(choice)
  BY DEF UserDecides, Approve, Reject, ConfirmReject, ReviewScreens
<1>2. pc' = "answering" /\ UNCHANGED <<pending, screen>>
  BY <1>1, ValidateEffect
<1>3. PICK state \in ContextState : ctx' = [ctx EXCEPT !.state = state]
  BY <1>1, ValidateEffect
<1>4. ctx \in Context /\ ReviewFor(pending, ctx)
  BY <1>1 DEF IInv, TypeOK, UiTypeOK, AnswerInv
<1>5. ReviewFor(pending', ctx')
  BY <1>2, <1>3, <1>4, SameReviewFor
<1>6. output' # NoResponse
  BY <1>1, ReviewAnswers
<1> QED BY <1>2, <1>5, <1>6 DEF AnswerInv

(* io_recv_command sends what is queued, which is the answer.              *)
LEMMA ReceiveAnswer ==
  ASSUME IInv, AnswerInv, Receive
  PROVE  AnswerInv'
<1>1. /\ pc = "recv" /\ pc' \in {"return", "replying", "exchange"}
      /\ UNCHANGED <<output, pending, ctx, screen>>
      /\ pc' = "replying" => G_io_state = "READY" /\ output # NoResponse
  <2>1. G_io_state \in {"READY", "RECEIVED", "WAITING"}
    BY DEF IInv, TypeOK, IoTypeOK
  <2>2. /\ pc = "recv" /\ UNCHANGED <<output, pending, ctx, screen>>
        /\ pc' = CASE G_io_state = "WAITING" -> "return"
                   [] G_io_state = "READY" /\ output # NoResponse -> "replying"
                   [] G_io_state = "RECEIVED" \/ output = NoResponse -> "exchange"
    BY DEF Receive, IoRecvCommand, uiVars
  <2> QED BY <2>1, <2>2
<1> QED BY <1>1 DEF AnswerInv

(* One step per kind of action.                                            *)
LEMMA NextAnswer == IInv /\ AnswerInv /\ [Next]_vars => AnswerInv'
<1> SUFFICES ASSUME IInv, AnswerInv, [Next]_vars
             PROVE  AnswerInv'
  OBVIOUS
<1>1. CASE Handler
  BY <1>1, HandlerAnswer
<1>2. CASE UserDecides
  BY <1>2, UserDecidesAnswer
<1>3. CASE Receive
  BY <1>3, ReceiveAnswer
<1>4. CASE Send \/ ReviewDone
  <2>1. pc' = "exchange" /\ screen' \notin ReviewScreens
    BY <1>4 DEF Send, ReplySent, uiVars, ReviewDone, AnswerSent, ReviewScreens,
                IInv, ReviewLinkInv
  <2> QED BY <2>1 DEF AnswerInv
<1>5. CASE Host
  <2>1. pc' = "dispatch" /\ pending' = cmd' /\ screen' \notin ReviewScreens
    BY <1>5 DEF Host, HostSends, uiVars, IInv, ReviewLinkInv
  <2> QED BY <2>1 DEF AnswerInv
<1>6. CASE UserRoams /\ ~Quit
  <2>1. /\ pc' = "exchange" /\ UNCHANGED <<pending, ctx>>
        /\ screen' \in ReviewScreens => screen \in ReviewScreens
    BY <1>6 DEF UserRoams, AskRejection, GoBack, OpenSettings, CloseSettings,
                DismissStatus, SetExpertMode, Navigate, ioVars, ReviewScreens
  <2> QED BY <2>1 DEF AnswerInv
<1>7. CASE Quit \/ Environment \/ AppMainReturns
  <2>1. pc' \in {"recv", "off"} /\ output' = NoResponse /\ screen' \notin ReviewScreens
    BY <1>7 DEF Quit, Environment, Launch, IoReset, PowerLoss, AppMainReturns,
                Restarted, Stopped, IoStart, ReviewScreens
  <2> QED BY <2>1 DEF AnswerInv
<1>8. CASE UNCHANGED vars
  <2>1. UNCHANGED <<pc, G_io_state, output, cmd, pending, ctx, screen>>
    BY <1>8 DEF vars, ioVars, uiVars
  <2>2. screen' \in ReviewScreens => ReviewFor(pending', ctx')
    BY <2>1 DEF AnswerInv
  <2>3. HostView!Answers(pending, output) => HostView!Answers(pending', output')
    BY <2>1
  <2> QED BY <2>1, <2>2, <2>3 DEF AnswerInv
<1> QED BY <1>1, <1>2, <1>3, <1>4, <1>5, <1>6, <1>7, <1>8 DEF Next, Device, UserRoams

(* What is queued, sent or under review is the answer to the command the   *)
(* host waits on.                                                          *)
THEOREM AnswerInvariant == Spec => []AnswerInv
<1>1. Init => AnswerInv
  BY DEF Init, AnswerInv, ReviewScreens
<1> QED BY <1>1, NextAnswer, InductiveInvariant, PTL DEF Spec

-----------------------------------------------------------------------------
(* The refinement: CommandResponse's wire is Wire.                         *)

(* The link is idle whenever it is dropped or an answer has been sent.     *)
LEMMA IdleView ==
  ASSUME pc' \notin {"replying", "answering"}, pending' = NoCommand
  PROVE  HostView!Drop
<1>1. Wire' = NoResponse
  BY DEF Wire
<1> QED BY <1>1, SameHostConstants DEF HostView!Drop, HostView!Idle, HostView!NoResponse,
                                       HostView!NoDigest, HostView!Status

(* An answer gets on the wire.                                             *)
LEMMA ReplyView ==
  ASSUME pc \notin {"replying", "answering"}, pc' \in {"replying", "answering"},
         pending # NoCommand, pending' = pending,
         output' # NoResponse, HostView!Answers(pending, output')
  PROVE  HostView!Reply
<1>1. Wire = NoResponse /\ Wire' = output'
  BY DEF Wire
<1> QED BY <1>1, SameHostConstants DEF HostView!Reply

(* Every step maps to a step of CommandResponse or to none.                *)
LEMMA HostViewStep ==
  ASSUME IInv, AnswerInv, [Next]_vars
  PROVE  [HostView!Send \/ HostView!Reply \/ HostView!Deliver \/ HostView!Drop]_HostView!crVars
<1>1. CASE Handler
  <2>1. pc = "dispatch" /\ pc' \in {"recv", "return", "overrun"} /\ pending' = pending
    BY <1>1, HandlerAnswerPost DEF AnswerPost, HandlerFrame
  <2>2. UNCHANGED Wire
    BY <2>1 DEF Wire
  <2> QED BY <2>1, <2>2 DEF HostView!crVars
<1>2. CASE UserDecides
  <2>1. PICK choice \in BOOLEAN : screen \in ReviewScreens /\ Validate(choice)
    BY <1>2 DEF UserDecides, Approve, Reject, ConfirmReject, ReviewScreens
  <2>2. pc = "exchange" /\ pc' = "answering" /\ pending' = pending
    BY <2>1, ValidateEffect
  <2>3. pending # NoCommand
    BY <2>1 DEF IInv, ReviewLinkInv
  <2>4. output' # NoResponse /\ HostView!Answers(pending, output')
    BY <2>1, ReviewAnswers
  <2> QED BY <2>2, <2>3, <2>4, ReplyView
<1>3. CASE Receive
  <2>1. pc = "recv" /\ UNCHANGED <<output, pending>>
    BY <1>3 DEF Receive, IoRecvCommand
  <2>2. CASE pc' = "replying"
    <3>1. G_io_state = "READY" /\ output # NoResponse
      <4>1. G_io_state \in {"READY", "RECEIVED", "WAITING"}
        BY DEF IInv, TypeOK, IoTypeOK
      <4> QED BY <1>3, <2>2, <4>1 DEF Receive, IoRecvCommand
    <3>2. pending # NoCommand /\ HostView!Answers(pending, output)
      BY <2>1, <3>1 DEF AnswerInv
    <3>3. HostView!Answers(pending, output')
      BY <2>1, <3>2
    <3> QED BY <2>1, <2>2, <3>1, <3>2, <3>3, ReplyView
  <2>3. CASE pc' # "replying"
    <3>1. pc' # "answering"
      BY <1>3, ReceiveStep, <2>1 DEF IInv, LoopInv, ReviewLinkInv, Receive, IoRecvCommand, TypeOK, IoTypeOK
    <3>2. UNCHANGED Wire
      BY <2>1, <2>3, <3>1 DEF Wire
    <3> QED BY <2>1, <3>2 DEF HostView!crVars
  <2> QED BY <2>2, <2>3
<1>4. CASE Send
  <2>1. pc' = "exchange" /\ pending' = NoCommand
    BY <1>4 DEF Send, ReplySent
  <2> QED BY <2>1, IdleView
<1>5. CASE ReviewDone
  <2>1. pc' = "exchange" /\ pending' = NoCommand
    BY <1>5 DEF ReviewDone, AnswerSent, IInv, ReviewLinkInv
  <2> QED BY <2>1, IdleView
<1>6. CASE Host
  <2>1. pc = "exchange" /\ pending = NoCommand /\ pending' \in Commands /\ pc' = "dispatch"
    BY <1>6 DEF Host, HostSends
  <2>2. Wire = NoResponse /\ UNCHANGED Wire
    BY <2>1 DEF Wire
  <2>3. HostView!Send
    BY <2>1, <2>2, SameHostConstants DEF HostView!Send, HostView!Idle
  <2> QED BY <2>3
<1>7. CASE UserRoams /\ ~Quit
  <2>1. UNCHANGED ioVars
    BY <1>7 DEF UserRoams, AskRejection, GoBack, OpenSettings, CloseSettings,
                DismissStatus, SetExpertMode, Navigate
  <2> QED BY <2>1 DEF ioVars, Wire, HostView!crVars
<1>8. CASE Quit \/ Environment \/ AppMainReturns
  <2>1. pc' \in {"recv", "off"} /\ pending' = NoCommand
    BY <1>8 DEF Quit, Environment, Launch, IoReset, PowerLoss, AppMainReturns,
                Restarted, Stopped, IoStart
  <2> QED BY <2>1, IdleView
<1>9. CASE UNCHANGED vars
  BY <1>9 DEF vars, ioVars, Wire, HostView!crVars
<1> QED BY <1>1, <1>2, <1>3, <1>4, <1>5, <1>6, <1>7, <1>8, <1>9 DEF Next, Device, UserRoams

(* io.c, the dispatcher and the handlers implement CommandResponse: every  *)
(* response is an answer to the one command the host waits on, of the kind *)
(* that command asks for, or the link is dropped.                          *)
THEOREM AnswerRefinement == Spec => AnswersTheCommand
<1>1. Init => HostView!Init
  BY SameHostConstants DEF Init, Wire, HostView!Init, HostView!Idle
<1>2. IInv /\ AnswerInv /\ [Next]_vars =>
        [HostView!Send \/ HostView!Reply \/ HostView!Deliver \/ HostView!Drop]_HostView!crVars
  BY HostViewStep
<1> QED BY <1>1, <1>2, InductiveInvariant, AnswerInvariant, PTL
        DEF Spec, AnswersTheCommand, HostView!Spec
=============================================================================
