------------------------------ MODULE MCTonApp ------------------------------
(***************************************************************************)
(* Instances of TonApp for TLC: two paths, a few serialized fields, and    *)
(* the sets of commands each run lets the host send.                       *)
(***************************************************************************)
EXTENDS TonAppInvariant

MCPaths == {"m/44'/607'/0'", "m/44'/607'/1'"}

(* Fields of a transaction.  PayloadC is the cell that CommentC and        *)
(* JettonC describe, CommentD describes another one.                       *)
FixedA == [f |-> "fixed", id |-> "a"]
InitA == [f |-> "init", id |-> "a"]
NoPayload == [f |-> "payload", cell |-> "none"]
PayloadC == [f |-> "payload", cell |-> "c"]
Hints(type, cell, items, expert, complete) ==
  [f |-> "hints", type |-> type, cell |-> cell, items |-> items,
   expert |-> expert, complete |-> complete]
NoHints == Hints("none", "none", <<>>, <<>>, TRUE)
CommentC == Hints("comment", "c", <<"Comment">>, <<>>, TRUE)
CommentD == Hints("comment", "d", <<"Comment">>, <<>>, TRUE)
BadComment == Hints("comment", "c", <<"Comment">>, <<>>, FALSE)
JettonC == Hints("jetton", "c", <<"Jetton units", "Send jetton to">>,
                 <<"Send excess to", "Forward amount">>, TRUE)
CutJetton == Hints("jetton", "c", <<"Jetton units">>, <<>>, FALSE)
OtherHints == Hints("other", "c", <<>>, <<>>, TRUE)

(* Fields of a sign-data request, and of an address proof.                 *)
Plaintext == [f |-> "schema", schema |-> "plaintext"]
AppData == [f |-> "schema", schema |-> "appdata"]
TextA == [f |-> "text", ascii |-> TRUE, id |-> "a"]
TextB == [f |-> "text", ascii |-> TRUE, id |-> "b"]
BadText == [f |-> "text", ascii |-> FALSE, id |-> "a"]
AddressA == [f |-> "address", has |-> TRUE]
NoAddress == [f |-> "address", has |-> FALSE]
DomainA == [f |-> "domain", has |-> TRUE, valid |-> TRUE]
BadDomain == [f |-> "domain", has |-> TRUE, valid |-> FALSE]
NoDomain == [f |-> "domain", has |-> FALSE, valid |-> FALSE]
DataHash == [f |-> "data", has |-> TRUE]
ExtHash == [f |-> "ext", has |-> TRUE]
NoExt == [f |-> "ext", has |-> FALSE]
ProofDomain(long, ascii) ==
  [f |-> "proof_domain", long |-> long, ascii |-> ascii]
Timestamp == [f |-> "timestamp"]
ProofPayload(long) == [f |-> "proof_payload", long |-> long]

MCField ==
  {FixedA, InitA, NoPayload, PayloadC, NoHints, CommentC, CommentD, BadComment,
   JettonC, CutJetton, OtherHints, Plaintext, AppData, TextA, TextB, BadText,
   AddressA, NoAddress, DomainA, BadDomain, NoDomain, DataHash, ExtHash, NoExt,
   Timestamp}
  \cup {ProofDomain(long, ascii) : long \in BOOLEAN, ascii \in BOOLEAN}
  \cup {ProofPayload(long) : long \in BOOLEAN}

-----------------------------------------------------------------------------
Apdu(ins, p1, p2, path, fields) ==
  [framed |-> TRUE, cla |-> TRUE, ins |-> ins, p1 |-> p1, p2 |-> p2,
   data |-> ins \notin {"GET_VERSION", "GET_APP_NAME"}, path |-> path,
   fields |-> fields]

AnyPath == "m/44'/607'/0'"  \* the path of a command that holds none
AllPaths == MCPaths \cup BadPaths

GetVersionApdu == Apdu("GET_VERSION", 0, 0, AnyPath, <<>>)

FirstChunks(ins, paths) == {Apdu(ins, 0, 3, p, <<>>) : p \in paths}
Chunks(ins, data) ==
  {Apdu(ins, 0, p2, AnyPath, fields) : p2 \in {0, 2}, fields \in data}

Keys(p1s, paths) == {Apdu("GET_PUBLIC_KEY", p1, p1, p, <<>>) : p1 \in p1s, p \in paths}

Proof(p2, path, fields) == Apdu("GET_ADDRESS_PROOF", 1, p2, path, fields)

GoodProof == <<ProofDomain(FALSE, TRUE), Timestamp>>

(* Commands that no handler sees.                                          *)
MalformedApdus ==
  {[GetVersionApdu EXCEPT !.framed = FALSE], [GetVersionApdu EXCEPT !.cla = FALSE],
   [GetVersionApdu EXCEPT !.ins = "UNKNOWN"], [GetVersionApdu EXCEPT !.p1 = 1],
   Apdu("SIGN_TX", 0, 1, AnyPath, <<>>), Apdu("GET_PUBLIC_KEY", 0, 1, AnyPath, <<>>),
   [Apdu("SIGN_DATA", 0, 3, AnyPath, <<>>) EXCEPT !.data = FALSE]}

(* Transactions, with and without payload, cut anywhere, with one field    *)
(* too many, resumed after the answer, and mixed with other commands.      *)
MCTxCommands ==
  {GetVersionApdu}
  \cup FirstChunks("SIGN_TX", {AnyPath})
  \cup Keys({1}, MCPaths)
  \cup Chunks("SIGN_TX",
         {<<FixedA, InitA>>, <<InitA>>, <<NoPayload, NoHints>>, <<NoPayload, CommentC>>}
         \cup {<<PayloadC, h>> : h \in {NoHints, CommentC, CommentD, BadComment,
                                       JettonC, CutJetton, OtherHints}})

(* Sign-data requests of both schemas.                                     *)
MCDataCommands ==
  FirstChunks("SIGN_DATA", {AnyPath})
  \cup Keys({1}, MCPaths)
  \cup Chunks("SIGN_DATA",
         {<<Plaintext, TextA>>, <<TextA>>, <<AppData, AddressA>>,
          <<AppData, NoAddress>>, <<DomainA, DataHash>>,
          <<DomainA, DataHash, ExtHash>>, <<BadDomain, DataHash, NoExt>>})

(* Every instruction, every refusal before the handlers, keys and proofs.  *)
MCAllCommands ==
  MalformedApdus
  \cup {GetVersionApdu, Apdu("GET_APP_NAME", 0, 0, AnyPath, <<>>)}
  \cup Keys({0, 1}, AllPaths)
  \cup {Proof(p2, p, GoodProof) : p2 \in {0, 2}, p \in AllPaths}
  \cup {Proof(3, AnyPath, fields) : fields \in
          {<<>>, <<ProofDomain(TRUE, TRUE)>>, <<ProofDomain(FALSE, TRUE)>>,
           <<ProofDomain(FALSE, FALSE), Timestamp>>,
           GoodProof \o <<ProofPayload(FALSE)>>, GoodProof \o <<ProofPayload(TRUE)>>}}
  \cup FirstChunks("SIGN_TX", AllPaths)
  \cup FirstChunks("SIGN_DATA", {AnyPath})
  \cup Chunks("SIGN_TX", {<<FixedA, InitA, PayloadC, CommentC>>})
  \cup Chunks("SIGN_DATA", {<<Plaintext, TextA>>})

(* One command of each kind of answer: at once, by the user, in parts.     *)
MCLiveCommands ==
  {GetVersionApdu, [GetVersionApdu EXCEPT !.p1 = 1]}
  \cup Keys({0, 1}, {AnyPath})
  \cup {Proof(0, AnyPath, GoodProof)}
  \cup FirstChunks("SIGN_TX", {AnyPath, "foreign"})
  \cup Chunks("SIGN_TX", {<<FixedA, InitA, PayloadC, CommentC>>, <<NoPayload>>})
=============================================================================
