---------------------------- MODULE UploadProofs ----------------------------
(***************************************************************************)
(* Theorems about what TonApp keeps of an upload, and shows of it, for all *)
(* values of its constants.                                                *)
(***************************************************************************)
EXTENDS TonAppProofs

-----------------------------------------------------------------------------
(* Beginnings and parts of sequences.                                      *)

(* Appending leaves the elements where they are.                           *)
LEMMA KeptAppended ==
  ASSUME NEW S, NEW s \in Seq(S), NEW t \in Seq(S), NEW n \in Nat \ {0}, Len(s) >= n
  PROVE  Len(s \o t) >= n /\ (s \o t)[n] = s[n]
<1>1. Len(s) \in Nat /\ Len(t) \in Nat /\ Len(s \o t) = Len(s) + Len(t)
  BY LenProperties, ConcatProperties
<1> QED BY <1>1, ConcatProperties

(* What begins a sequence begins it still when more is appended.           *)
LEMMA BeginsAppended ==
  ASSUME NEW S, NEW s \in Seq(S), NEW t \in Seq(S), NEW u \in Seq(S), Begins(s, t)
  PROVE  Begins(s, t \o u)
<1>1. Len(s) \in Nat /\ Len(t) \in Nat /\ Len(u) \in Nat
  BY LenProperties
<1>2. Len(t \o u) = Len(t) + Len(u)
  BY ConcatProperties
<1>3. \A i \in 1..Len(t) : (t \o u)[i] = t[i]
  BY <1>1, <1>2, ConcatProperties
<1>4. Len(s) <= Len(t) /\ \A i \in 1..Len(s) : i \in 1..Len(t)
  BY <1>1 DEF Begins
<1> QED BY <1>1, <1>2, <1>3, <1>4 DEF Begins

(* The first elements of a sequence begin it, and so does all of it.       *)
LEMMA BeginsOfSequence ==
  ASSUME NEW S, NEW s \in Seq(S)
  PROVE  /\ Begins(s, s)
         /\ Begins(<<>>, s)
         /\ \A n \in 1..Len(s) : Begins(SubSeq(s, 1, n), s)
<1>1. Len(s) \in Nat
  BY LenProperties
<1>2. Begins(s, s) /\ Begins(<<>>, s)
  BY <1>1 DEF Begins
<1>3. ASSUME NEW n \in 1..Len(s)
      PROVE  Begins(SubSeq(s, 1, n), s)
  <2>1. n \in Nat /\ n <= Len(s) /\ \A i \in 1..n : s[i] \in S
    BY <1>1, ElementOfSeq
  <2>2. /\ Len(SubSeq(s, 1, n)) = n
        /\ \A i \in 1..n : SubSeq(s, 1, n)[i] = s[i]
    BY <1>1, <2>1, SubSeqProperties
  <2> QED BY <2>1, <2>2 DEF Begins
<1> QED BY <1>2, <1>3

(* The parts of two sequences are those of the one and those of the other. *)
LEMMA PartsAppended ==
  ASSUME NEW S, NEW s \in Seq(S), NEW t \in Seq(S)
  PROVE  Parts(s \o t) = Parts(s) \cup Parts(t)
<1>1. Len(s) \in Nat /\ Len(t) \in Nat /\ Len(s \o t) = Len(s) + Len(t)
  BY LenProperties, ConcatProperties
<1>2. \A i \in 1..Len(s) : i \in 1..Len(s \o t) /\ (s \o t)[i] = s[i]
  BY <1>1, ConcatProperties
<1>3. \A i \in 1..Len(t) : i + Len(s) \in 1..Len(s \o t) /\ (s \o t)[i + Len(s)] = t[i]
  BY <1>1, ConcatProperties
<1>4. \A i \in 1..Len(s \o t) :
        i \in 1..Len(s) \/ \E j \in 1..Len(t) : i = j + Len(s)
  <2> TAKE i \in 1..Len(s \o t)
  <2>1. i \in 1..Len(s) \/ (i - Len(s) \in 1..Len(t) /\ i = (i - Len(s)) + Len(s))
    BY <1>1
  <2> QED BY <2>1
<1>5. Parts(s) \cup Parts(t) \subseteq Parts(s \o t)
  <2>1. ASSUME NEW i \in 1..Len(s)
        PROVE  s[i] \in Parts(s \o t)
    BY <1>2 DEF Parts
  <2>2. ASSUME NEW i \in 1..Len(t)
        PROVE  t[i] \in Parts(s \o t)
    BY <1>3 DEF Parts
  <2> QED BY <2>1, <2>2, Zenon DEF Parts
<1>6. ASSUME NEW i \in 1..Len(s \o t)
      PROVE  (s \o t)[i] \in Parts(s) \cup Parts(t)
  <2>1. CASE i \in 1..Len(s)
    BY <1>2, <2>1, Zenon DEF Parts
  <2>2. CASE \E j \in 1..Len(t) : i = j + Len(s)
    BY <1>3, <2>2, Zenon DEF Parts
  <2> QED BY <1>4, <2>1, <2>2
<1> QED BY <1>5, <1>6, Zenon DEF Parts

(* The parts of a part of a sequence.                                      *)
LEMMA PartsOfPart ==
  ASSUME NEW S, NEW s \in Seq(S), NEW m \in Nat \ {0}, NEW n \in Nat, n <= Len(s)
  PROVE  Parts(SubSeq(s, m, n)) = {s[i] : i \in m..n}
<1>1. \A i \in m..n : s[i] \in S
  BY ElementOfSeq, LenProperties
<1> DEFINE p == SubSeq(s, m, n)
<1>2. /\ Len(p) = IF m <= n THEN n - m + 1 ELSE 0
      /\ \A i \in 1 .. n - m + 1 : p[i] = s[m + i - 1]
  BY <1>1, SubSeqProperties
<1> HIDE DEF p
<1>3. \A i \in 1..Len(p) : m + i - 1 \in m..n /\ p[i] = s[m + i - 1]
  BY <1>2
<1>4. \A j \in m..n : j - m + 1 \in 1..Len(p) /\ p[j - m + 1] = s[j]
  BY <1>2
<1>5. Parts(p) \subseteq {s[i] : i \in m..n}
  BY <1>3 DEF Parts
<1>6. ASSUME NEW j \in m..n
      PROVE  s[j] \in Parts(p)
  BY <1>4 DEF Parts
<1> QED BY <1>5, <1>6 DEF p

(* The only part of a sequence of one.                                     *)
LEMMA PartsOfOne ==
  ASSUME NEW x
  PROVE  Parts(<<x>>) = {x}
BY DEF Parts

(* An empty sequence has no parts.                                         *)
LEMMA PartsOfNone == Parts(<<>>) = {}
BY DEF Parts

-----------------------------------------------------------------------------
(* What parsing a request keeps and shows of it.                           *)

(* The fields a transaction's digest covers.                               *)
LEMMA TxDigestFields ==
  ASSUME NEW raw \in Seq(Field), TxReadable(raw)
  PROVE  /\ TxDigest(raw).kind = "transaction"
         /\ TxDigest(raw).fields = SubSeq(raw, 1, 3)
         /\ TxDigest(raw).fields[3] = raw[3]
         /\ Begins(TxDigest(raw).fields, raw)
<1>1. Len(raw) \in Nat /\ Len(raw) >= 4
  BY LenProperties DEF TxReadable, TxLayout
<1>2. TxDigest(raw).kind = "transaction" /\ TxDigest(raw).fields = SubSeq(raw, 1, 3)
  BY DEF TxDigest, NoDigest
<1>3. Begins(SubSeq(raw, 1, 3), raw)
  BY <1>1, BeginsOfSequence
<1>4. SubSeq(raw, 1, 3)[3] = raw[3]
  BY <1>1, ElementOfSeq, SubSeqProperties
<1> QED BY <1>2, <1>3, <1>4

(* An accepted transaction has no payload, or hints of a type the app does *)
(* not know, or hints of its own payload whose lines are now in the holder.*)
LEMMA TxAccepted ==
  ASSUME NEW raw \in Seq(Field), NEW held \in Seq(Line), NEW expert \in BOOLEAN,
         NEW o \in TxOutcomes(raw, held, expert), o.ok
  PROVE  /\ TxReadable(raw)
         /\ raw[3].cell # "none" /\ raw[4].type # "other" =>
              raw[4].cell = raw[3].cell /\ o.hints = HintLines(raw[4], expert)
<1>1. TxReadable(raw)
  BY TxOutcomesType
<1> DEFINE holder == HintHolder(raw[3], raw[4], held, expert)
           complete == Len(raw) = Len(TxLayout)
           early == IF raw[4].type = "comment" THEN {<<>>} ELSE {}
<1>2. \/ \E accepted \in HintsAccepted(raw[3], raw[4]) :
           o = [ok |-> accepted /\ complete, hints |-> holder]
      \/ \E hints \in {holder} \cup early : o = [ok |-> FALSE, hints |-> hints]
  BY <1>1 DEF TxOutcomes
<1> HIDE DEF holder, complete, early
<1>3. PICK accepted \in HintsAccepted(raw[3], raw[4]) :
        o = [ok |-> accepted /\ complete, hints |-> holder]
  BY <1>2
<1>4. accepted /\ o.hints = holder
  BY <1>3
<1>5. raw[3].cell # "none" /\ raw[4].type # "other" =>
        raw[4].type # "none" /\ raw[4].cell = raw[3].cell
  BY <1>3, <1>4 DEF HintsAccepted
<1>6. raw[3].cell # "none" /\ raw[4].type # "none" =>
        holder = HintLines(raw[4], expert)
  BY DEF HintHolder, holder
<1> QED BY <1>1, <1>4, <1>5, <1>6

(* Whatever comes of parsing a transaction, lines get into the holder only *)
(* if there is a payload for them to describe.                             *)
LEMMA TxLinesHavePayload ==
  ASSUME NEW raw \in Seq(Field), NEW held \in Seq(Line), NEW expert \in BOOLEAN,
         held # <<>> => Len(raw) >= 3 /\ raw[3].cell # "none",
         NEW o \in TxOutcomes(raw, held, expert), o.hints # <<>>
  PROVE  Len(raw) >= 3 /\ raw[3].cell # "none"
<1>1. CASE ~TxReadable(raw)
  BY <1>1 DEF TxOutcomes
<1>2. CASE TxReadable(raw)
  <2> DEFINE holder == HintHolder(raw[3], raw[4], held, expert)
             complete == Len(raw) = Len(TxLayout)
             early == IF raw[4].type = "comment" THEN {<<>>} ELSE {}
  <2>1. \/ \E accepted \in HintsAccepted(raw[3], raw[4]) :
             o = [ok |-> accepted /\ complete, hints |-> holder]
        \/ \E hints \in {holder} \cup early : o = [ok |-> FALSE, hints |-> hints]
    BY <1>2 DEF TxOutcomes
  <2>2. holder # <<>> => held # <<>> \/ raw[3].cell # "none"
    BY DEF HintHolder
  <2>3. Len(raw) >= 3
    BY <1>2, LenProperties DEF TxReadable, TxLayout
  <2> HIDE DEF holder, complete
  <2>4. o.hints = holder \/ o.hints = <<>>
    BY <2>1
  <2> QED BY <2>2, <2>3, <2>4
<1> QED BY <1>1, <1>2

(* A part of an app-data request is shown in its line, and nothing else is.*)
LEMMA AppLineShows ==
  ASSUME NEW raw \in Seq(Field), NEW i \in 2..5
  PROVE  /\ \A line \in Parts(AppLine(raw, i)) : Parts(line.of) \subseteq Parts(raw)
         /\ AppReadUpTo(raw, i) /\ raw[i].has =>
              \E line \in Parts(AppLine(raw, i)) : raw[i] \in Parts(line.of)
<1>1. CASE AppReadUpTo(raw, i) /\ raw[i].has
  <2> DEFINE line == [item |-> AppTitle(i), of |-> <<raw[i]>>]
  <2>1. AppLine(raw, i) = <<line>>
    BY <1>1 DEF AppLine
  <2>2. Parts(line.of) = {raw[i]}
    BY PartsOfOne
  <2>3. raw[i] \in Parts(raw)
    <3>1. Len(raw) \in Nat /\ Len(raw) >= i
      BY <1>1, LenProperties DEF AppReadUpTo, AppPartOK
    <3> QED BY <3>1 DEF Parts
  <2> HIDE DEF line
  <2>4. Parts(AppLine(raw, i)) = {line}
    BY <2>1, PartsOfOne
  <2> QED BY <2>2, <2>3, <2>4
<1>2. CASE ~(AppReadUpTo(raw, i) /\ raw[i].has)
  <2>1. AppLine(raw, i) = <<>>
    BY <1>2 DEF AppLine
  <2> QED BY <1>2, <2>1, PartsOfNone
<1> QED BY <1>1, <1>2

(* The lines of an app-data request are those of its four parts.           *)
LEMMA AppLinesParts ==
  ASSUME NEW raw \in Seq(Field)
  PROVE  Parts(AppLines(raw)) = UNION {Parts(AppLine(raw, i)) : i \in 2..5}
<1> DEFINE l2 == AppLine(raw, 2)
           l3 == AppLine(raw, 3)
           l4 == AppLine(raw, 4)
           l5 == AppLine(raw, 5)
<1>1. l2 \in Seq(Line) /\ l3 \in Seq(Line) /\ l4 \in Seq(Line) /\ l5 \in Seq(Line)
  BY AppLineType
<1>2. AppLines(raw) = ((l2 \o l3) \o l4) \o l5
  BY DEF AppLines
<1>3. UNION {Parts(AppLine(raw, i)) : i \in 2..5} =
        Parts(l2) \cup Parts(l3) \cup Parts(l4) \cup Parts(l5)
  <2>1. 2..5 = {2, 3, 4, 5}
    OBVIOUS
  <2> QED BY <2>1
<1> HIDE DEF l2, l3, l4, l5
<1>4. l2 \o l3 \in Seq(Line) /\ (l2 \o l3) \o l4 \in Seq(Line)
  BY <1>1, ConcatProperties
<1>5. Parts(l2 \o l3) = Parts(l2) \cup Parts(l3)
  BY <1>1, PartsAppended, ZenonT(60)
<1>6. Parts((l2 \o l3) \o l4) = Parts(l2 \o l3) \cup Parts(l4)
  BY <1>1, <1>4, PartsAppended, ZenonT(60)
<1>7. Parts(((l2 \o l3) \o l4) \o l5) = Parts((l2 \o l3) \o l4) \cup Parts(l5)
  <2> DEFINE front == (l2 \o l3) \o l4
  <2>1. front \in Seq(Line)
    BY <1>4
  <2> HIDE DEF front
  <2>2. Parts(front \o l5) = Parts(front) \cup Parts(l5)
    BY <1>1, <2>1, PartsAppended, ZenonT(60)
  <2> QED BY <2>2 DEF front
<1>8. Parts(AppLines(raw)) = ((Parts(l2) \cup Parts(l3)) \cup Parts(l4)) \cup Parts(l5)
  BY <1>2, <1>5, <1>6, <1>7, Zenon
<1> QED BY <1>3, <1>8, Zenon

(* How far a sign-data request is signed.                                  *)
SignedUpTo(raw) == IF IsSchema(raw, "plaintext") THEN Len(raw) ELSE 5

(* Reading a sign-data request adds lines of what was sent only, and, if   *)
(* it is accepted, one for each part of it that is there.                  *)
LEMMA DataReadShown ==
  ASSUME NEW raw \in Seq(Field)
  PROVE  /\ \A line \in Parts(DataRead(raw).lines) : Parts(line.of) \subseteq Parts(raw)
         /\ DataRead(raw).ok =>
              /\ SignedUpTo(raw) \in 1..Len(raw)
              /\ DataRead(raw).cell = SubSeq(raw, 1, SignedUpTo(raw))
              /\ \A i \in 2..SignedUpTo(raw) : LineFor(raw[i], DataRead(raw).lines)
<1>0. Len(raw) \in Nat
  BY LenProperties
<1>1. CASE IsSchema(raw, "plaintext") /\ PlaintextOK(raw)
  <2> DEFINE text == SubSeq(raw, 2, Len(raw))
             line == [item |-> "Text", of |-> text]
  <2>1. /\ DataRead(raw).lines = <<line>> /\ DataRead(raw).cell = raw
        /\ SignedUpTo(raw) = Len(raw) /\ Len(raw) > 0
    BY <1>1 DEF DataRead, IsSchema, TextLine, SignedUpTo
  <2>2. Parts(text) = {raw[i] : i \in 2..Len(raw)}
    BY <1>0, PartsOfPart
  <2>3. line.of = text
    OBVIOUS
  <2> HIDE DEF line, text
  <2>4. Parts(DataRead(raw).lines) = {line}
    BY <2>1, PartsOfOne
  <2>5. Parts(text) \subseteq Parts(raw)
    <3>1. 2..Len(raw) \subseteq 1..Len(raw)
      BY <1>0
    <3> QED BY <2>2, <3>1, Zenon DEF Parts
  <2>6. \A i \in 2..Len(raw) : LineFor(raw[i], DataRead(raw).lines)
    BY <2>2, <2>3, <2>4 DEF LineFor
  <2>7. SubSeq(raw, 1, Len(raw)) = raw
    BY <1>0, ElementOfSeq, SubSeqProperties, SeqEqual
  <2> QED BY <1>0, <2>1, <2>3, <2>4, <2>5, <2>6, <2>7
<1>2. CASE ~(IsSchema(raw, "plaintext") /\ PlaintextOK(raw)) /\ IsSchema(raw, "appdata")
  <2>1. /\ DataRead(raw).ok = AppReadUpTo(raw, 5) /\ DataRead(raw).lines = AppLines(raw)
        /\ DataRead(raw).cell = IF AppReadUpTo(raw, 5) THEN SubSeq(raw, 1, 5) ELSE <<>>
    BY <1>2 DEF DataRead
  <2>2. SignedUpTo(raw) = 5
    BY <1>2 DEF SignedUpTo, IsSchema
  <2>3. \A line \in Parts(AppLines(raw)) : Parts(line.of) \subseteq Parts(raw)
    BY AppLinesParts, AppLineShows
  <2>4. ASSUME AppReadUpTo(raw, 5), NEW i \in 2..5
        PROVE  LineFor(raw[i], AppLines(raw))
    <3>1. AppReadUpTo(raw, i) /\ Len(raw) >= i /\ raw[i].f = AppLayout[i]
      BY <2>4 DEF AppReadUpTo, AppPartOK
    <3>2. CASE raw[i].has
      BY <3>1, <3>2, AppLineShows, AppLinesParts DEF LineFor
    <3>3. CASE ~raw[i].has
      <4>1. raw[i] \in Field
        BY <1>0, <3>1, ElementOfSeq
      <4>2. raw[i].f # "data"
        BY <3>3, <4>1, FieldAssumption
      <4>3. raw[i].f \in {"address", "domain", "ext"}
        BY <3>1, <4>2 DEF AppLayout
      <4> QED BY <3>3, <4>3 DEF LineFor
    <3> QED BY <3>2, <3>3
  <2>5. AppReadUpTo(raw, 5) => Len(raw) >= 5
    BY DEF AppReadUpTo, AppPartOK
  <2> QED BY <1>0, <2>1, <2>2, <2>3, <2>4, <2>5
<1>3. CASE ~(IsSchema(raw, "plaintext") /\ PlaintextOK(raw)) /\ ~IsSchema(raw, "appdata")
  <2>1. DataRead(raw) = [ok |-> FALSE, lines |-> <<>>, cell |-> <<>>]
    BY <1>3 DEF DataRead
  <2>2. DataRead(raw).lines = <<>> /\ ~DataRead(raw).ok
    BY <2>1
  <2> QED BY <2>2, PartsOfNone
<1> QED BY <1>1, <1>2, <1>3

(* Whichever hash functions fail, what an accepted request has in its cell *)
(* after the schema was sent after the schema.                             *)
LEMMA DataOutcomesCell ==
  ASSUME NEW raw \in Seq(Field), NEW o \in DataOutcomes(raw)
  PROVE  /\ o.lines = DataRead(raw).lines
         /\ o.ok => /\ DataRead(raw).ok
                    /\ \A i \in 2..Len(o.cell) :
                         \E j \in 2..SignedUpTo(raw) : o.cell[i] = raw[j]
         /\ o.ok /\ ~HashMayFail => o.cell = SubSeq(raw, 1, SignedUpTo(raw))
<1> DEFINE r == DataRead(raw)
           n == SignedUpTo(raw)
           cell == IF HasInnerCell(raw) THEN WithoutInnerCell(raw) ELSE r.cell
<1>1. r = [ok |-> r.ok, lines |-> r.lines, cell |-> r.cell]
  BY DataReadType
<1>2. \/ o = r
      \/ HashMayFail /\ r.ok /\ o \in {[r EXCEPT !.ok = FALSE], [r EXCEPT !.cell = cell]}
  BY DEF DataOutcomes
<1>3. r.ok => n \in 1..Len(raw) /\ r.cell = SubSeq(raw, 1, n)
  BY DataReadShown
<1> HIDE DEF r, n, cell
<1>4. /\ o.lines = r.lines
      /\ o.ok => r.ok /\ (o.cell = r.cell \/ (HashMayFail /\ o.cell = cell))
  BY <1>1, <1>2
<1>5. Len(raw) \in Nat /\ \A i \in 1..Len(raw) : raw[i] \in Field
  BY LenProperties, ElementOfSeq
<1>6. ASSUME NEW m \in 1..Len(raw)
      PROVE  /\ SubSeq(raw, 1, m) \in Seq(Field)
             /\ Len(SubSeq(raw, 1, m)) = m
             /\ \A i \in 1..m : SubSeq(raw, 1, m)[i] = raw[i]
  <2>1. m \in Int /\ 1 \in Int /\ \A i \in 1..m : raw[i] \in Field
    BY <1>5
  <2> QED BY <2>1, SubSeqProperties
<1>7. ASSUME r.ok
      PROVE  \A i \in 2..Len(r.cell) : \E j \in 2..n : r.cell[i] = raw[j]
  BY <1>3, <1>6, <1>7
<1>8. ASSUME r.ok
      PROVE  \A i \in 2..Len(cell) : \E j \in 2..n : cell[i] = raw[j]
  <2>1. CASE ~HasInnerCell(raw)
    BY <1>7, <1>8, <2>1 DEF cell
  <2>2. CASE HasInnerCell(raw) /\ IsSchema(raw, "plaintext")
    <3> DEFINE m == IF Len(raw) <= MaxInline THEN Len(raw) ELSE MaxInline + 1
    <3>1. cell = SubSeq(raw, 1, m) /\ n = Len(raw)
      BY <2>2 DEF cell, WithoutInnerCell, n, SignedUpTo
    <3>2. m \in 1..Len(raw)
      BY <1>3, <1>5, <1>8, <3>1, PlaintextAssumption
    <3> HIDE DEF m
    <3> QED BY <1>5, <1>6, <3>1, <3>2
  <2>3. CASE HasInnerCell(raw) /\ ~IsSchema(raw, "plaintext")
    <3> DEFINE a == SubSeq(raw, 1, 2)
               b == SubSeq(raw, 4, 5)
    <3>1. cell = a \o b /\ n = 5
      BY <2>3 DEF cell, WithoutInnerCell, n, SignedUpTo
    <3>2. Len(raw) >= 5
      BY <1>3, <1>5, <1>8, <3>1
    <3>3. a \in Seq(Field) /\ Len(a) = 2 /\ a[2] = raw[2]
      BY <1>5, <1>6, <3>2
    <3>4. b \in Seq(Field) /\ Len(b) = 2 /\ b[1] = raw[4] /\ b[2] = raw[5]
      <4>1. 4 \in Int /\ 5 \in Int /\ \A i \in 4..5 : raw[i] \in Field
        BY <1>5, <3>2
      <4>2. /\ b \in Seq(Field) /\ Len(b) = 2
            /\ \A i \in 1..2 : b[i] = raw[4 + i - 1]
        BY <4>1, SubSeqProperties
      <4> QED BY <4>2
    <3> HIDE DEF a, b
    <3>5. Len(a \o b) = 4 /\ (a \o b)[2] = a[2] /\ (a \o b)[3] = b[1] /\ (a \o b)[4] = b[2]
      <4>1. /\ Len(a \o b) = Len(a) + Len(b)
            /\ \A i \in 1..Len(a) + Len(b) :
                 (a \o b)[i] = IF i <= Len(a) THEN a[i] ELSE b[i - Len(a)]
        BY <3>3, <3>4, ConcatProperties
      <4>2. \A i \in 1..4 : (a \o b)[i] = IF i <= 2 THEN a[i] ELSE b[i - 2]
        BY <3>3, <3>4, <4>1
      <4> QED BY <3>3, <3>4, <4>1, <4>2
    <3>6. \A i \in 2..4 : i = 2 \/ i = 3 \/ i = 4
      OBVIOUS
    <3>7. \A i \in 2..4 : \E j \in 2..5 : (a \o b)[i] = raw[j]
      BY <3>3, <3>4, <3>5, <3>6
    <3> QED BY <3>1, <3>5, <3>7
  <2> QED BY <2>1, <2>2, <2>3
<1>9. o.ok => \A i \in 2..Len(o.cell) : \E j \in 2..n : o.cell[i] = raw[j]
  BY <1>4, <1>7, <1>8
<1>10. o.ok /\ ~HashMayFail => o.cell = SubSeq(raw, 1, n)
  BY <1>3, <1>4
<1> QED BY <1>4, <1>9, <1>10 DEF r, n

(* An accepted request has a line for each part that goes into its cell.   *)
LEMMA DataOutcomesShown ==
  ASSUME NEW raw \in Seq(Field), NEW o \in DataOutcomes(raw)
  PROVE  /\ \A line \in Parts(o.lines) : Parts(line.of) \subseteq Parts(raw)
         /\ o.ok => \A i \in 2..Len(o.cell) : LineFor(o.cell[i], o.lines)
         /\ o.ok /\ ~HashMayFail => Begins(o.cell, raw)
<1>1. o.lines = DataRead(raw).lines
  BY DataOutcomesCell
<1>2. \A line \in Parts(o.lines) : Parts(line.of) \subseteq Parts(raw)
  BY <1>1, DataReadShown
<1>3. ASSUME o.ok
      PROVE  \A i \in 2..Len(o.cell) : LineFor(o.cell[i], o.lines)
  <2>1. DataRead(raw).ok
    BY <1>3, DataOutcomesCell
  <2>2. \A j \in 2..SignedUpTo(raw) : LineFor(raw[j], o.lines)
    BY <1>1, <2>1, DataReadShown
  <2>3. \A i \in 2..Len(o.cell) : \E j \in 2..SignedUpTo(raw) : o.cell[i] = raw[j]
    BY <1>3, DataOutcomesCell
  <2> QED BY <2>2, <2>3
<1>4. ASSUME o.ok, ~HashMayFail
      PROVE  Begins(o.cell, raw)
  <2>1. DataRead(raw).ok /\ o.cell = SubSeq(raw, 1, SignedUpTo(raw))
    BY <1>4, DataOutcomesCell
  <2>2. SignedUpTo(raw) \in 1..Len(raw)
    BY <2>1, DataReadShown
  <2> QED BY <2>1, <2>2, BeginsOfSequence
<1> QED BY <1>2, <1>3, <1>4

-----------------------------------------------------------------------------
(* Contexts of one request.                                                *)

(* A context in which nothing has been uploaded or parsed yet.             *)
LEMMA FreshRequest ==
  ASSUME NEW c, c.raw = <<>>, c.hints = <<>>, c.digest.kind \in {"none", "proof"}
  PROVE  OneRequest(c)
<1>1. DataOfUpload(c)
  BY TypesAssumption DEF DataOfUpload
<1>2. DigestOfUpload(c)
  BY DEF DigestOfUpload
<1>3. LinesOfUpload(c)
  BY PartsOfNone DEF LinesOfUpload
<1> QED BY <1>1, <1>2, <1>3 DEF OneRequest

(* The state of a context, its path and its key are no part of the data.   *)
LEMMA SameRequest ==
  ASSUME NEW c, NEW d, d.req_type = c.req_type, d.raw = c.raw,
         d.digest = c.digest, d.hints = c.hints
  PROVE  /\ OneRequest(c) => OneRequest(d)
         /\ \A expert \in BOOLEAN : Reviewed(c, expert) => Reviewed(d, expert)
<1>1. OneRequest(c) => OneRequest(d)
  BY DEF OneRequest, DataOfUpload, DigestOfUpload, LinesOfUpload
<1>2. \A expert \in BOOLEAN : Reviewed(c, expert) => Reviewed(d, expert)
  BY DEF Reviewed, TxReviewed, DataReviewed
<1> QED BY <1>1, <1>2

(* The contexts the handlers start from after the reading of a path.       *)
LEMMA FreshContexts ==
  ASSUME NEW path \in PathValue
  PROVE  /\ OneRequest(WithPath(path)) /\ OneRequest(WithKey(path))
         /\ \A request \in RequestType :
              OneRequest([WithPath(path) EXCEPT !.req_type = request])
         /\ WithKey(path).raw = <<>> /\ WithKey(path).hints = <<>>
<1> DEFINE c == WithPath(path)
           k == WithKey(path)
<1>1. c \in Context /\ c.raw = <<>> /\ c.hints = <<>> /\ c.digest.kind = "none"
  BY ContextTypes DEF WithPath, ZeroContext, NoDigest
<1>2. k = [c EXCEPT !.key = path]
  BY DEF WithKey
<1> HIDE DEF c, k
<1>3. k.raw = <<>> /\ k.hints = <<>> /\ k.digest.kind = "none"
  BY <1>1, <1>2 DEF Context
<1>4. ASSUME NEW request \in RequestType
      PROVE  OneRequest([c EXCEPT !.req_type = request])
  <2> DEFINE d == [c EXCEPT !.req_type = request]
  <2>1. d.raw = <<>> /\ d.hints = <<>> /\ d.digest.kind = "none"
    BY <1>1 DEF Context
  <2> HIDE DEF d
  <2>2. OneRequest(d)
    BY <2>1, FreshRequest
  <2> QED BY <2>2 DEF d
<1> QED BY <1>1, <1>3, <1>4, FreshRequest DEF c, k

(* Appending to an upload what there is room for leaves it one request.    *)
LEMMA UploadedRequest ==
  ASSUME IInv, pc = "dispatch", OneRequest(ctx), ctx.req_type \in Uploads,
         Len(Uploaded.raw) <= MaxRawLen
  PROVE  OneRequest(Uploaded)
<1>1. /\ ctx \in Context /\ cmd \in Commands /\ cmd.fields \in Seq(Field)
      /\ ctx.raw \in Seq(Field) /\ ctx.hints \in Seq(Line) /\ ctx.digest \in Digest
  BY UploadedTypes, CommandTypes DEF IInv, TypeOK, UiTypeOK, Context
<1>2. /\ Uploaded.raw = ctx.raw \o cmd.fields
      /\ Uploaded.req_type = ctx.req_type /\ Uploaded.digest = ctx.digest
      /\ Uploaded.hints = ctx.hints
  BY <1>1 DEF Uploaded, Context
<1>3. DataOfUpload(Uploaded)
  BY <1>2 DEF DataOfUpload
<1>4. DigestOfUpload(Uploaded)
  <2>1. ctx.digest.fields \in Seq(Field)
    BY <1>1 DEF Digest
  <2>2. Begins(ctx.digest.fields, ctx.raw) =>
          Begins(ctx.digest.fields, ctx.raw \o cmd.fields)
    BY <1>1, <2>1, BeginsAppended
  <2> QED BY <1>2, <2>2 DEF DigestOfUpload, OneRequest
<1>5. LinesOfUpload(Uploaded)
  <2>1. 3 \in Nat \ {0}
    OBVIOUS
  <2>2. ASSUME Len(ctx.raw) >= 3
        PROVE  Len(ctx.raw \o cmd.fields) >= 3 /\ (ctx.raw \o cmd.fields)[3] = ctx.raw[3]
    BY <1>1, <2>1, <2>2, KeptAppended, Zenon
  <2>3. Parts(ctx.raw) \subseteq Parts(ctx.raw \o cmd.fields)
    BY <1>1, PartsAppended
  <2> QED BY <1>2, <2>2, <2>3 DEF LinesOfUpload, OneRequest
<1> QED BY <1>3, <1>4, <1>5 DEF OneRequest

-----------------------------------------------------------------------------
(* What a handler leaves in the context is of one request, and if it opens *)
(* a review, the review may rest on it.                                    *)
UploadPost ==
  /\ OneRequest(ctx')
  /\ screen' \in ReviewScreens => Reviewed(ctx', N_storage.expert_mode)

(* A handler that only answers.                                            *)
LEMMA RespondUpload ==
  ASSUME IInv, pc = "dispatch", NEW c, OneRequest(c), NEW r, Respond(c, r)
  PROVE  UploadPost
<1>1. screen \notin ReviewScreens
  BY DEF IInv, ReviewLinkInv
<1>2. ctx' = c /\ screen' = screen
  BY DEF Respond, ScreenFrame
<1> QED BY <1>1, <1>2 DEF UploadPost

(* A handler that ends in ui_display, whatever comes of it.                *)
LEMMA UiDisplayUpload ==
  ASSUME IInv, pc = "dispatch", NEW request, NEW c \in Context, NEW flags,
         OneRequest(c), Reviewed(c, N_storage.expert_mode),
         UiDisplay(request, c, flags)
  PROVE  UploadPost
<1>1. screen \notin ReviewScreens
  BY DEF IInv, ReviewLinkInv
<1>2. \/ ctx' = [c EXCEPT !.state = "STATE_NONE"] /\ UNCHANGED screen
      \/ ctx' = c
  BY DEF UiDisplay
<1> DEFINE d == [c EXCEPT !.state = "STATE_NONE"]
<1>3. d.req_type = c.req_type /\ d.raw = c.raw /\ d.digest = c.digest /\ d.hints = c.hints
  BY DEF Context
<1> HIDE DEF d
<1>4. OneRequest(d)
  BY <1>3, SameRequest
<1> QED BY <1>1, <1>2, <1>4 DEF UploadPost, d

(* The handlers that leave the context as it is.                           *)
LEMMA SameContextUpload ==
  ASSUME IInv, OneRequest(ctx), RejectCommand \/ GetVersion \/ GetAppName
  PROVE  UploadPost
<1>1. pc = "dispatch" /\ \E r : Respond(ctx, r)
  BY DEF RejectCommand, GetVersion, GetAppName, Handling
<1> QED BY <1>1, RespondUpload

(* The review of a key or a proof rests on nothing that was uploaded.      *)
LEMMA OtherReviewed ==
  ASSUME NEW c, c.req_type \in {"CONFIRM_ADDRESS", "GET_PROOF"}, NEW expert
  PROVE  Reviewed(c, expert)
BY DEF Reviewed

(* handler_get_public_key.                                                 *)
LEMMA GetPublicKeyUpload ==
  ASSUME IInv, GetPublicKey
  PROVE  UploadPost
<1>1. pc = "dispatch" /\ cmd \in Commands
  BY DEF GetPublicKey, Handling, IInv, DispatchInv
<1>2. PICK path \in PathReadings(cmd.path) :
        \/ \E r : Respond(WithPath(path), r) \/ Respond(WithKey(path), r)
        \/ UiDisplay("CONFIRM_ADDRESS", WithKey(path), cmd.p2)
  BY DEF GetPublicKey
<1>3. path \in PathValue
  BY <1>1, PathStatusType
<1> DEFINE k == WithKey(path)
<1>4. OneRequest(WithPath(path)) /\ OneRequest(k)
  BY <1>3, FreshContexts
<1>5. k \in Context /\ k.req_type = "CONFIRM_ADDRESS"
  BY <1>3, ContextTypes
<1> HIDE DEF k
<1>6. Reviewed(k, N_storage.expert_mode)
  BY <1>5, OtherReviewed
<1>7. CASE UiDisplay("CONFIRM_ADDRESS", k, cmd.p2)
  BY <1>1, <1>4, <1>5, <1>6, <1>7, UiDisplayUpload
<1>8. CASE \E r : Respond(WithPath(path), r) \/ Respond(k, r)
  BY <1>1, <1>4, <1>8, RespondUpload
<1> QED BY <1>2, <1>7, <1>8 DEF k

(* handler_get_address_proof.                                              *)
LEMMA GetAddressProofUpload ==
  ASSUME IInv, GetAddressProof
  PROVE  UploadPost
<1>1. pc = "dispatch" /\ cmd \in Commands
  BY DEF GetAddressProof, Handling, IInv, DispatchInv
<1> DEFINE digest(path) == ProofDigest(path, Workchain(cmd.p2), cmd.fields)
           asked(path) == [[WithKey(path) EXCEPT !.digest = digest(path)]
                             EXCEPT !.req_type = "GET_PROOF"]
<1>2. PICK path \in PathReadings(cmd.path) :
        \/ \E r : Respond(WithPath(path), r) \/ Respond(WithKey(path), r)
        \/ UiDisplay("GET_PROOF", asked(path), cmd.p2)
  BY DEF GetAddressProof, ProofFor
<1>3. path \in PathValue /\ cmd.p2 \in 0..255 /\ cmd.fields \in Seq(Field)
  BY <1>1, PathStatusType, CommandTypes
<1> DEFINE k == WithKey(path)
           d == digest(path)
           c == asked(path)
<1>4. OneRequest(WithPath(path)) /\ OneRequest(k) /\ k.raw = <<>> /\ k.hints = <<>>
  BY <1>3, FreshContexts
<1>5. k \in Context
  BY <1>3, ContextTypes
<1>6. d \in Digest /\ d.kind = "proof"
  BY <1>3, DigestTypes
<1>7. c = [[k EXCEPT !.digest = d] EXCEPT !.req_type = "GET_PROOF"]
  OBVIOUS
<1>8. CASE \E r : Respond(WithPath(path), r) \/ Respond(k, r)
  BY <1>1, <1>4, <1>8, RespondUpload
<1>9. CASE UiDisplay("GET_PROOF", c, cmd.p2)
  <2> HIDE DEF k, d, c
  <2>1. /\ c \in Context /\ c.req_type = "GET_PROOF" /\ c.digest = d
        /\ c.raw = <<>> /\ c.hints = <<>>
    BY <1>4, <1>5, <1>6, <1>7 DEF Context, RequestType
  <2>2. OneRequest(c) /\ Reviewed(c, N_storage.expert_mode)
    BY <1>6, <2>1, FreshRequest, OtherReviewed
  <2> QED BY <1>1, <1>9, <2>1, <2>2, UiDisplayUpload
<1> QED BY <1>2, <1>8, <1>9

(* The first command of either kind of upload.                             *)
LEMMA FirstChunkUpload ==
  ASSUME IInv, SignTxFirst \/ SignDataFirst
  PROVE  UploadPost
<1>1. pc = "dispatch" /\ cmd \in Commands
  BY DEF SignTxFirst, SignDataFirst, Handling, IInv, DispatchInv
<1>2. PICK request \in RequestType : StartUpload(request)
  BY DEF SignTxFirst, SignDataFirst, RequestType
<1>3. PICK path \in PathReadings(cmd.path) :
        \E r : \/ Respond(WithPath(path), r)
               \/ Respond([WithPath(path) EXCEPT !.req_type = request], r)
  BY <1>2 DEF StartUpload
<1>4. path \in PathValue
  BY <1>1, PathStatusType
<1>5. /\ OneRequest(WithPath(path))
      /\ OneRequest([WithPath(path) EXCEPT !.req_type = request])
  BY <1>4, FreshContexts
<1> QED BY <1>1, <1>3, <1>5, RespondUpload

(* A following command of an upload that does not end it.                  *)
LEMMA KeepChunkUpload ==
  ASSUME IInv, pc = "dispatch", OneRequest(ctx),
         NEW request \in Uploads, NEW sw, sw # "SW_OK",
         KeepChunk(ChunkStatus(request, sw))
  PROVE  UploadPost
<1> DEFINE status == ChunkStatus(request, sw)
           c == IF status = "SW_OK" THEN Uploaded ELSE ctx
<1>1. Respond(c, Status(status))
  BY DEF KeepChunk
<1>2. status = "SW_OK" => ctx.req_type = request /\ ~(Len(Uploaded.raw) > MaxRawLen)
  BY DEF ChunkStatus
<1>3. OneRequest(c)
  <2>1. CASE status = "SW_OK"
    <3>1. Len(Uploaded.raw) \in Nat
      BY UploadedTypes, LenProperties
    <3>2. Len(Uploaded.raw) <= MaxRawLen
      BY <1>2, <2>1, <3>1, TypesAssumption
    <3>3. OneRequest(Uploaded)
      BY <1>2, <2>1, <3>2, UploadedRequest
    <3> QED BY <2>1, <3>3
  <2>2. CASE status # "SW_OK"
    BY <2>2
  <2> QED BY <2>1, <2>2
<1> HIDE DEF c
<1> QED BY <1>1, <1>3, RespondUpload

(* When a request is to be parsed, its data is of its own upload and fits. *)
LEMMA ParsedUpload ==
  ASSUME IInv, pc = "dispatch", OneRequest(ctx),
         NEW request \in Uploads, NEW sw, sw # "none",
         ChunkStatus(request, sw) = "none"
  PROVE  ctx.req_type = request /\ OneRequest(Uploaded)
<1>1. ctx.req_type = request /\ ~(Len(Uploaded.raw) > MaxRawLen)
  BY DEF ChunkStatus
<1>2. Len(Uploaded.raw) \in Nat
  BY UploadedTypes, LenProperties
<1>3. Len(Uploaded.raw) <= MaxRawLen
  BY <1>1, <1>2, TypesAssumption
<1> QED BY <1>1, <1>3, UploadedRequest

(* The following commands of handler_sign_tx.                              *)
LEMMA SignTxChunkUpload ==
  ASSUME IInv, OneRequest(ctx), SignTxChunk
  PROVE  UploadPost
<1> DEFINE status == ChunkStatus("CONFIRM_TRANSACTION", "SW_WRONG_TX_LENGTH")
<1>1. pc = "dispatch" /\ (KeepChunk(status) \/ (status = "none" /\ SignTxParse))
  BY DEF SignTxChunk, Handling
<1>2. "CONFIRM_TRANSACTION" \in Uploads
  BY DEF Uploads
<1>3. CASE KeepChunk(status)
  BY <1>1, <1>2, <1>3, KeepChunkUpload
<1>4. CASE status = "none" /\ SignTxParse
  <2> DEFINE u == Uploaded
             expert == N_storage.expert_mode
  <2>1. ctx.req_type = "CONFIRM_TRANSACTION" /\ OneRequest(u)
    BY <1>1, <1>2, <1>4, ParsedUpload
  <2>2. /\ u \in Context /\ u.req_type = "CONFIRM_TRANSACTION"
        /\ u.raw \in Seq(Field) /\ u.hints \in Seq(Line)
    BY <1>1, <2>1, UploadedTypes
  <2>3. u.hints = ctx.hints /\ expert \in BOOLEAN
    BY DEF Uploaded, IInv, TypeOK, UiTypeOK, Context
  <2>4. PICK o \in TxOutcomes(u.raw, ctx.hints, expert) :
          LET c == [u EXCEPT !.hints = o.hints]
          IN  IF o.ok
              THEN UiDisplay("CONFIRM_TRANSACTION",
                             [c EXCEPT !.digest = TxDigest(c.raw),
                                       !.state = "STATE_PARSED"], 0)
              ELSE Respond(c, Status("SW_TX_PARSING_FAIL"))
    BY <1>4 DEF SignTxParse
  <2> DEFINE c == [u EXCEPT !.hints = o.hints]
             d == [c EXCEPT !.digest = TxDigest(c.raw), !.state = "STATE_PARSED"]
  <2> HIDE DEF u, expert
  <2>5. o.hints \in Seq(Line)
    BY <2>2, <2>3, <2>4, TxOutcomesType
  <2>6. /\ c \in Context /\ c.raw = u.raw /\ c.req_type = u.req_type
        /\ c.digest = u.digest /\ c.hints = o.hints
    BY <2>2, <2>5 DEF Context
  <2> HIDE DEF c
  <2>7. u.hints # <<>> => Len(u.raw) >= 3 /\ u.raw[3].cell # "none"
    BY <2>1, <2>2 DEF OneRequest, LinesOfUpload
  <2>8. o.hints # <<>> => Len(u.raw) >= 3 /\ u.raw[3].cell # "none"
    BY <2>2, <2>3, <2>4, <2>7, TxLinesHavePayload
  <2>9. LinesOfUpload(c)
    BY <2>2, <2>6, <2>8 DEF LinesOfUpload
  <2>10. DataOfUpload(c)
    BY <2>1, <2>2, <2>6, <1>2 DEF DataOfUpload, OneRequest
  <2>11. OneRequest(c)
    BY <2>1, <2>6, <2>9, <2>10 DEF OneRequest, DigestOfUpload
  <2>12. CASE o.ok
    <3>1. /\ TxReadable(u.raw)
          /\ u.raw[3].cell # "none" /\ u.raw[4].type # "other" =>
               u.raw[4].cell = u.raw[3].cell /\ o.hints = HintLines(u.raw[4], expert)
      BY <2>2, <2>3, <2>4, <2>12, TxAccepted
    <3>2. /\ TxDigest(u.raw) \in Digest /\ TxDigest(u.raw).kind = "transaction"
          /\ Begins(TxDigest(u.raw).fields, u.raw)
      BY <2>2, <3>1, TxDigestType, TxDigestFields
    <3>3. /\ d \in Context /\ d.raw = u.raw /\ d.req_type = "CONFIRM_TRANSACTION"
          /\ d.digest = TxDigest(u.raw) /\ d.hints = o.hints
      BY <2>2, <2>6, <3>2 DEF Context, ContextState
    <3>4. UiDisplay("CONFIRM_TRANSACTION", d, 0)
      BY <2>4, <2>12 DEF c
    <3> HIDE DEF d
    <3>5. DataOfUpload(d) /\ LinesOfUpload(d)
      BY <2>2, <2>6, <2>9, <2>10, <3>3 DEF DataOfUpload, LinesOfUpload
    <3>6. DigestOfUpload(d)
      BY <3>2, <3>3 DEF DigestOfUpload
    <3>7. Reviewed(d, expert)
      BY <3>1, <3>3 DEF Reviewed, TxReviewed
    <3> QED BY <1>1, <3>3, <3>4, <3>5, <3>6, <3>7, UiDisplayUpload DEF OneRequest, expert
  <2>13. CASE ~o.ok
    <3>1. Respond(c, Status("SW_TX_PARSING_FAIL"))
      BY <2>4, <2>13 DEF c
    <3> QED BY <1>1, <2>11, <3>1, RespondUpload
  <2> QED BY <2>12, <2>13
<1> QED BY <1>1, <1>3, <1>4

(* Lines that are shown are shown still when more are added.               *)
LEMMA LineForMore ==
  ASSUME NEW held \in Seq(Line), NEW lines \in Seq(Line), NEW part, LineFor(part, lines)
  PROVE  LineFor(part, held \o lines)
BY PartsAppended DEF LineFor

(* The following commands of handler_sign_data.                            *)
LEMMA SignDataChunkUpload ==
  ASSUME IInv, OneRequest(ctx), SignDataChunk
  PROVE  UploadPost
<1> DEFINE status == ChunkStatus("CONFIRM_SIGN_DATA", "SW_WRONG_SIGN_DATA_LENGTH")
<1>1. pc = "dispatch" /\ (KeepChunk(status) \/ (status = "none" /\ SignDataParse))
  BY DEF SignDataChunk, Handling
<1>2. "CONFIRM_SIGN_DATA" \in Uploads
  BY DEF Uploads
<1>3. CASE KeepChunk(status)
  BY <1>1, <1>2, <1>3, KeepChunkUpload
<1>4. CASE status = "none" /\ SignDataParse
  <2> DEFINE u == Uploaded
  <2>1. ctx.req_type = "CONFIRM_SIGN_DATA" /\ OneRequest(u)
    BY <1>1, <1>2, <1>4, ParsedUpload
  <2>2. /\ u \in Context /\ u.req_type = "CONFIRM_SIGN_DATA"
        /\ u.raw \in Seq(Field) /\ u.hints \in Seq(Line)
    BY <1>1, <2>1, UploadedTypes
  <2>3. PICK o \in DataOutcomes(u.raw) :
          LET c == [u EXCEPT !.hints = @ \o o.lines]
          IN  \/ ctx' = c /\ UNCHANGED screen
              \/ Respond(c, Status("SW_SIGN_DATA_PARSING_FAIL"))
              \/ o.ok /\ UiDisplay("CONFIRM_SIGN_DATA",
                           [c EXCEPT !.digest = DataDigest(o.cell),
                                     !.state = "STATE_PARSED"], 0)
    BY <1>4 DEF SignDataParse, ScreenFrame
  <2> HIDE DEF u
  <2> DEFINE lines == u.hints \o o.lines
             c == [u EXCEPT !.hints = lines]
             d == [c EXCEPT !.digest = DataDigest(o.cell), !.state = "STATE_PARSED"]
  <2>4. o.lines \in Seq(Line) /\ o.cell \in Seq(Field)
    BY <2>2, DataOutcomesType
  <2>5. lines \in Seq(Line) /\ Parts(lines) = Parts(u.hints) \cup Parts(o.lines)
    BY <2>2, <2>4, ConcatProperties, PartsAppended
  <2>6. \A line \in Parts(lines) : Parts(line.of) \subseteq Parts(u.raw)
    <3>1. \A line \in Parts(u.hints) : Parts(line.of) \subseteq Parts(u.raw)
      BY <2>1, <2>2 DEF OneRequest, LinesOfUpload
    <3>2. \A line \in Parts(o.lines) : Parts(line.of) \subseteq Parts(u.raw)
      BY <2>2, DataOutcomesShown
    <3> QED BY <2>5, <3>1, <3>2
  <2>7. o.ok => \A i \in 2..Len(o.cell) : LineFor(o.cell[i], lines)
    BY <2>2, <2>4, DataOutcomesShown, LineForMore
  <2>8. /\ \/ ctx' = c /\ UNCHANGED screen
           \/ Respond(c, Status("SW_SIGN_DATA_PARSING_FAIL"))
           \/ o.ok /\ UiDisplay("CONFIRM_SIGN_DATA", d, 0)
    BY <2>3
  <2> HIDE DEF lines
  <2>9. /\ c \in Context /\ c.raw = u.raw /\ c.req_type = u.req_type
        /\ c.digest = u.digest /\ c.hints = lines
    BY <2>2, <2>5 DEF Context
  <2> HIDE DEF c
  <2>10. DataOfUpload(c) /\ LinesOfUpload(c)
    BY <1>2, <2>1, <2>2, <2>6, <2>9 DEF DataOfUpload, LinesOfUpload, OneRequest
  <2>11. OneRequest(c)
    BY <2>1, <2>9, <2>10 DEF OneRequest, DigestOfUpload
  <2>12. CASE ctx' = c /\ UNCHANGED screen
    <3>1. screen \notin ReviewScreens
      BY <1>1 DEF IInv, ReviewLinkInv
    <3> QED BY <2>11, <2>12, <3>1 DEF UploadPost
  <2>13. CASE Respond(c, Status("SW_SIGN_DATA_PARSING_FAIL"))
    BY <1>1, <2>11, <2>13, RespondUpload
  <2>14. CASE o.ok /\ UiDisplay("CONFIRM_SIGN_DATA", d, 0)
    <3> DEFINE digest == DataDigest(o.cell)
    <3>1. digest \in Digest /\ digest.kind = "data" /\ digest.fields = o.cell
      BY <2>4, DigestTypes DEF DataDigest, NoDigest
    <3>2. d = [c EXCEPT !.digest = digest, !.state = "STATE_PARSED"]
      OBVIOUS
    <3> HIDE DEF d, digest
    <3>3. /\ d \in Context /\ d.raw = u.raw /\ d.req_type = "CONFIRM_SIGN_DATA"
          /\ d.digest = digest /\ d.hints = lines
      BY <2>2, <2>9, <3>1, <3>2 DEF Context, ContextState
    <3>4. DataOfUpload(d) /\ LinesOfUpload(d)
      BY <2>2, <2>9, <2>10, <3>3 DEF DataOfUpload, LinesOfUpload
    <3>5. ~HashMayFail => Begins(o.cell, u.raw)
      BY <2>2, <2>14, DataOutcomesShown
    <3>6. DigestOfUpload(d)
      BY <3>1, <3>3, <3>5 DEF DigestOfUpload
    <3>7. Reviewed(d, N_storage.expert_mode)
      BY <2>7, <2>14, <3>1, <3>3 DEF Reviewed, DataReviewed
    <3> QED BY <1>1, <2>14, <3>3, <3>4, <3>6, <3>7, UiDisplayUpload DEF OneRequest
  <2> QED BY <2>8, <2>12, <2>13, <2>14
<1> QED BY <1>1, <1>3, <1>4

-----------------------------------------------------------------------------
(* The inductive invariant of the context.                                 *)

(* Every handler preserves it.                                             *)
LEMMA HandlerUpload ==
  ASSUME IInv, UploadInv, Handler
  PROVE  UploadInv'
<1>1. OneRequest(ctx)
  BY DEF UploadInv
<1>2. UploadPost
  BY <1>1, SameContextUpload, GetPublicKeyUpload, GetAddressProofUpload,
     FirstChunkUpload, SignTxChunkUpload, SignDataChunkUpload DEF Handler
<1>3. HandlerFrame
  BY DEF Handler, RejectCommand, GetVersion, GetAppName, GetPublicKey,
         GetAddressProof, SignTxFirst, SignTxChunk, SignDataFirst, SignDataChunk
<1> QED BY <1>2, <1>3 DEF UploadPost, HandlerFrame, UploadInv

(* The zeroed context is one of no request at all.                         *)
LEMMA ZeroUpload == OneRequest(ZeroContext)
<1>1. /\ ZeroContext.raw = <<>> /\ ZeroContext.hints = <<>>
      /\ ZeroContext.digest.kind = "none"
  BY DEF ZeroContext, NoDigest
<1> QED BY <1>1, FreshRequest

(* A step that leaves the context, and the setting while a review is open, *)
(* and opens none.                                                         *)
LEMMA SameUpload ==
  ASSUME UploadInv, ctx' = ctx,
         screen' \in ReviewScreens => screen \in ReviewScreens /\ N_storage' = N_storage
  PROVE  UploadInv'
BY DEF UploadInv

(* The answer to a review changes no more than the state of the context.   *)
LEMMA UserDecidesUpload ==
  ASSUME IInv, UploadInv, UserDecides
  PROVE  UploadInv'
<1>1. PICK choice \in BOOLEAN : screen \in ReviewScreens /\ Validate(choice)
  BY DEF UserDecides, Approve, Reject, ConfirmReject, ReviewScreens
<1>2. UNCHANGED <<screen, N_storage>>
  BY <1>1, ValidateEffect
<1>3. PICK state \in ContextState : ctx' = [ctx EXCEPT !.state = state]
  BY <1>1, ValidateEffect
<1>4. ctx \in Context /\ N_storage.expert_mode \in BOOLEAN
  BY DEF IInv, TypeOK, UiTypeOK
<1>5. /\ ctx'.req_type = ctx.req_type /\ ctx'.raw = ctx.raw
      /\ ctx'.digest = ctx.digest /\ ctx'.hints = ctx.hints
  BY <1>3, <1>4 DEF Context
<1>6. OneRequest(ctx') /\ Reviewed(ctx', N_storage.expert_mode)
  BY <1>1, <1>4, <1>5, SameRequest DEF UploadInv
<1> QED BY <1>2, <1>6 DEF UploadInv

(* One step per kind of action.                                            *)
LEMMA NextUpload == IInv /\ UploadInv /\ [Next]_vars => UploadInv'
<1> SUFFICES ASSUME IInv, UploadInv, [Next]_vars
             PROVE  UploadInv'
  OBVIOUS
<1>1. CASE Handler
  BY <1>1, HandlerUpload
<1>2. CASE UserDecides
  BY <1>2, UserDecidesUpload
<1>3. CASE Receive \/ Send \/ Host
  BY <1>3, SameUpload DEF Receive, Send, Host, uiVars
<1>4. CASE ReviewDone
  BY <1>4, SameUpload DEF ReviewDone, ReviewScreens
<1>5. CASE UserRoams /\ ~Quit
  <2>1. ctx' = ctx
    BY <1>5 DEF UserRoams, AskRejection, GoBack, OpenSettings, CloseSettings,
                DismissStatus, SetExpertMode, Navigate
  <2>2. screen' \in ReviewScreens => screen \in ReviewScreens /\ N_storage' = N_storage
    BY <1>5 DEF UserRoams, AskRejection, GoBack, OpenSettings, CloseSettings,
                DismissStatus, SetExpertMode, Navigate, ReviewScreens
  <2> QED BY <2>1, <2>2, SameUpload
<1>6. CASE Quit \/ Environment \/ AppMainReturns
  <2>1. ctx' = ZeroContext /\ screen' = "menu"
    BY <1>6 DEF Quit, Environment, Launch, IoReset, PowerLoss, AppMainReturns,
                Restarted, Stopped
  <2> QED BY <2>1, ZeroUpload DEF UploadInv, ReviewScreens
<1>7. CASE UNCHANGED vars
  BY <1>7, SameUpload DEF vars, uiVars
<1> QED BY <1>1, <1>2, <1>3, <1>4, <1>5, <1>6, <1>7 DEF Next, Device, UserRoams

(* However uploads are interrupted, refused, resumed and mixed with other  *)
(* commands, the context is of one request, and an open review rests on    *)
(* what was uploaded for it.                                               *)
THEOREM UploadInvariant == Spec => []UploadInv
<1>1. Init => UploadInv
  BY ZeroUpload DEF Init, UploadInv, ReviewScreens
<1> QED BY <1>1, NextUpload, InductiveInvariant, PTL DEF Spec

(* G_context is of one request: what handler_sign_tx and handler_sign_data *)
(* have hashed to be signed is the beginning of what was uploaded under    *)
(* the path that was checked, unless the hash of an inner cell failed.     *)
THEOREM OneRequestAtATime ==
  ASSUME ~HashMayFail
  PROVE  Spec => []ContextOfOneRequest
<1>1. IInv /\ UploadInv => ContextOfOneRequest
  <2> SUFFICES ASSUME IInv, UploadInv
               PROVE  ContextOfOneRequest
    OBVIOUS
  <2>1. DataOfUpload(ctx) /\ DigestOfUpload(ctx) /\ PathInv
    BY DEF IInv, UploadInv, OneRequest
  <2> QED BY <2>1 DEF ContextOfOneRequest, DataOfUpload, DigestOfUpload, PathInv,
                      Uploads, Begins
<1> QED BY <1>1, InductiveInvariant, UploadInvariant, PTL

(* The review of a transaction has the lines of the hints that describe    *)
(* the payload that is signed, and none when there is no payload, whatever *)
(* process_hints left in the holder in earlier attempts.                   *)
THEOREM TransactionReviews == Spec => []TxReviewFaithful
<1>1. IInv /\ UploadInv => TxReviewFaithful
  <2> SUFFICES ASSUME IInv, UploadInv, screen \in ReviewScreens,
                      shown.request = "CONFIRM_TRANSACTION"
               PROVE  LET payload == shown.digest.fields[3]
                          hints   == ctx.raw[4]
                      IN  IF payload.cell = "none" THEN shown.lines = <<>>
                          ELSE hints.type # "other" =>
                                 /\ hints.cell = payload.cell
                                 /\ shown.lines = HintLines(hints, N_storage.expert_mode)
    BY DEF TxReviewFaithful
  <2>1. /\ ctx.req_type = "CONFIRM_TRANSACTION"
        /\ shown = Formatted("CONFIRM_TRANSACTION", ctx, shown.flags)
    BY DEF IInv, ReviewMatchesContext
  <2>2. shown.digest = ctx.digest /\ shown.lines = ShownLines("CONFIRM_TRANSACTION", ctx)
    BY <2>1 DEF Formatted
  <2>3. TxReviewed(ctx, N_storage.expert_mode) /\ LinesOfUpload(ctx)
    BY <2>1 DEF UploadInv, Reviewed, OneRequest
  <2>4. ctx.raw \in Seq(Field)
    BY DEF IInv, TypeOK, UiTypeOK, Context
  <2>5. ctx.digest.fields[3] = ctx.raw[3]
    BY <2>3, <2>4, TxDigestFields DEF TxReviewed
  <2>6. CASE ctx.raw[3].cell = "none"
    <3>1. ctx.hints = <<>>
      BY <2>1, <2>3, <2>6 DEF LinesOfUpload
    <3>2. shown.lines = <<>>
      BY <2>2, <2>5, <2>6, <3>1 DEF ShownLines
    <3> QED BY <2>2, <2>5, <2>6, <3>2
  <2>7. CASE ctx.raw[3].cell # "none"
    <3>1. shown.lines = ctx.hints
      BY <2>2, <2>5, <2>7 DEF ShownLines
    <3> QED BY <2>2, <2>3, <2>5, <2>7, <3>1 DEF TxReviewed
  <2> QED BY <2>6, <2>7
<1> QED BY <1>1, InductiveInvariant, UploadInvariant, PTL

(* Every part of the data that is signed has a line of its own reading,    *)
(* and no line shows anything but uploaded data, although the lines of     *)
(* earlier attempts stay in the holder.                                    *)
THEOREM DataReviews == Spec => []SignedDataShown
<1>1. IInv /\ UploadInv => SignedDataShown
  <2> SUFFICES ASSUME IInv, UploadInv, screen \in ReviewScreens,
                      shown.request = "CONFIRM_SIGN_DATA"
               PROVE  LET signed == shown.digest.fields
                          parts(line) == {line.of[i] : i \in 1..Len(line.of)}
                          lines == {shown.lines[i] : i \in 1..Len(shown.lines)}
                          sent  == {ctx.raw[i] : i \in 1..Len(ctx.raw)}
                      IN  /\ \A i \in 2..Len(signed) :
                               \/ signed[i].f \in {"address", "domain", "ext"} /\ ~signed[i].has
                               \/ \E line \in lines : signed[i] \in parts(line)
                          /\ \A line \in lines : parts(line) \subseteq sent
    BY DEF SignedDataShown
  <2>1. /\ ctx.req_type = "CONFIRM_SIGN_DATA"
        /\ shown = Formatted("CONFIRM_SIGN_DATA", ctx, shown.flags)
    BY DEF IInv, ReviewMatchesContext
  <2>2. shown.digest = ctx.digest /\ shown.lines = ctx.hints
    BY <2>1 DEF Formatted, ShownLines
  <2>3. DataReviewed(ctx) /\ LinesOfUpload(ctx)
    BY <2>1 DEF UploadInv, Reviewed, OneRequest
  <2>4. \A i \in 2..Len(shown.digest.fields) :
          LineFor(shown.digest.fields[i], shown.lines)
    BY <2>2, <2>3 DEF DataReviewed
  <2>5. \A line \in Parts(shown.lines) : Parts(line.of) \subseteq Parts(ctx.raw)
    BY <2>1, <2>2, <2>3 DEF LinesOfUpload
  <2> QED BY <2>4, <2>5 DEF LineFor, Parts
<1> QED BY <1>1, InductiveInvariant, UploadInvariant, PTL
=============================================================================
