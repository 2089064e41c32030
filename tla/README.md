# A TLA+ model of the TON app for Ledger devices

The app answers commands (APDUs) of a host over USB or Bluetooth: it derives
public keys, shows addresses, and signs transactions, address proofs and
custom data after the user has reviewed them on the device. This directory
models it at two levels. The first is its control: the link's state machine,
the dispatcher, the handlers with the context they share, the parsers'
decisions, the reviews and their buttons, restarts and power loss. The second is
its data: how the bytes of a request are read, which cells they become, which
bytes are hashed and signed, and which characters stand on the screen. TLC checks
both on small instances, and TLAPS proves for all of them the safety properties of
the control, that a buffer reads as it should, that a transaction is read as a
whole, and that the order that is signed says what the request said. Paths below are relative to the repository.

## The system

| Part | Source | State | Operations |
|---|---|---|---|
| Link | `src/io.c` | `G_io_state` (READY, RECEIVED, WAITING), `G_output_len`, `G_io_apdu_buffer` | `io_recv_command`, `io_send_response`, `io_send_sw`, `io_event` |
| Main | `src/main.c` | the loop, exceptions | `main`, `app_main`, `app_exit`, `nv_init` |
| Dispatcher | `src/apdu/` | none | `apdu_parser`, `apdu_dispatcher` |
| Handlers | `src/handler/` | `G_context`, a union with `req_type`, `state`, path | one function per instruction, two phases for uploads |
| Transaction | `src/transaction/` | `tx_info`: raw bytes, parsed structure, hints, hash | `transaction_deserialize`, `process_hints`, `hash_tx` |
| Sign data | `src/sign_data/` | `sign_data_info`: raw bytes, hints, hash | `sign_data_deserialize` |
| Proof | `src/proof/` | `proof_info` | `deserialize_proof` |
| Screens | `src/ui/` | current flow, callback, formatted texts | `ui_display_*`, buttons, menus |
| Callbacks | `src/ui/action/validate.c` | none | `ui_action_validate_*` |
| Setting | `N_storage` (`src/main.c`, `src/ui/menu_*.c`) | `initialized`, `expert_mode`, in flash | `nv_init`, the settings menu |
| Reading | `src/common/buffer.c`, `read.c`, `bip32.c` | `buffer_t`: size and offset, unsigned | `buffer_read_*`, `buffer_seek_*`, `buffer_move` |
| Cells | `src/common/bits.c`, `cell.c`, `hash.c` | `BitString_t`, `CellRef_t` while a cell is built | `BitString_store*`, `hash_Cell`, `hash_tx` |
| Texts | `src/common/int256.c`, `format_bigint.c`, `base64.c`, `crc16.c`, `hints.c`, `src/address.c` | the display buffers | amounts, friendly addresses, hashes, `print_hint` |
| Crypto | `src/crypto.c` | none | derive a key, sign |

How they interact. `app_main` calls `io_recv_command`, which calls the SDK's
`io_exchange`; a received command goes to the dispatcher and a handler. The
handler either queues its answer, sent by the next `io_recv_command`, or opens a
review and returns 0. In the second case `io_recv_command` waits with
`IO_ASYNCH_REPLY`; a button pressed *inside* that `io_exchange` runs a validate
callback, which reads `G_context`, signs, and sends the answer from within.
Commands and buttons thus share `G_context`, the response buffer, `G_io_state`
and `N_storage` without any other protection than the order of these calls.

What is hard here:

* the two ways of answering, told apart by `G_io_state` alone; a call in the
  wrong state makes `app_main` return and the app restart;
* the context outlives answers, refusals, rejections and approvals, and an upload
  can be resumed in it, so what is signed may be the result of several parses;
* what is displayed and what is signed are two readings of the context;
* failures after partial work: hints added before a refusal, status words queued
  before an error return, hash functions whose result is not looked at;
* resets of the link in the middle of a review or of an answer, power loss, and
  the setting that survives them or is switched between two chunks;
* sizes and offsets are unsigned and a read may fail half way; a path may be read
  past the end of its data;
* a cell is never parsed by the app: it is built from hints, bit by bit, and only
  its hash is compared, so a line on the screen and the field a contract will read
  are tied together by the order of the store calls alone;
* all lines share two display buffers, page by page or one behind the other, over
  what the last review has left there.

What makes each part correct: the link sends one answer per command, of the
right kind (`AnswersTheCommand`, `AppMainNeverReturns`, `ReviewIffWaiting`,
`EveryCommandAnswered`); the handlers keep the context of one request
(`ContextOfOneRequest`); the parsers and screens show what is signed
(`TxReviewFaithful`, `SignedDataShown`, `ReviewMatchesContext`); the callbacks
sign what was shown and nothing else (`SignatureOnlyOfReviewed`,
`SignsWithConsent`); the setting is the user's (`SettingKept`). A buffer behaves
as a stream of bytes (`OffsetInside`, `ReadsTheStream`); the order, the payload
and the signed cell, read by the contract they are sent to, say what the
request and the lines say (`OrderReadsBack`, `LinesDescribePayload`,
`LinesDescribeCell`, `CellsFit`, `DepthAboveReferences`); what a client writes is
accepted and gives the order and the cell that it has built without the app
(`ClientsOrderIsSigned`, `ClientsCellIsSigned`); all of a transaction is read
(`WholeRequestRead`), in fields that fit where they are copied to (`FieldsInForm`); the texts on the screen, read back, are the values of the request (`LinesReadBack`,
`TransferReadsBack`, `AddressOfWallet`, `ProofShowsWhatItSigns`).

## The modules

The control:

| Module | Models |
|---|---|
| `AppTypes` | `types.h`, `sw.h`, responses: the data and the constants with their assumptions |
| `Dispatcher` | `apdu/parser.c`, `apdu/dispatcher.c`, reading and check of a path |
| `TxRequest` | `transaction/`: what parsing an upload gives |
| `SignDataRequest` | `sign_data/` |
| `ProofRequest` | `proof/proof_deserialize.c`, after the path |
| `Io` | `io.c` and the host's end of the link; variables `pc`, `G_io_state`, `output`, `cmd`, `pending` |
| `Ui` | `ui/`; variables `ctx` (`G_context`), `screen`, `shown`, `N_storage` |
| `TonApp` | `main.c` and `handler/`, composed with all of the above: `Init`, `Next`, `Spec`, `FairSpec` |
| `CommandResponse` | abstract: what the host may rely on |
| `SigningConsent` | abstract: what the user may rely on |
| `TonAppProperties` | the properties, with the two refinement mappings |
| `TonAppInvariant` | the inductive invariants: `IInv`, and on top of it `UploadInv` and `AnswerInv` |
| `TonAppProofs` | theorems and proofs: types, reviews, signatures, the setting, the answers of the link |
| `UploadProofs` | the same for what is uploaded, hashed and shown |
| `MCTonApp` | instances for TLC |

The data:

| Module | Models |
|---|---|
| `Widths` | how many bits a byte has, how many bytes each integer and a hash |
| `ByteBuffer` | `common/buffer.c`, `read.c`, `write.c`, the reading of `bip32.c` |
| `BufferReader` | any sequence of calls on one `buffer_t`; variables `buf`, `call`, `result` |
| `ByteStream` | abstract: what a parser relies on when it reads |
| `BufferProofs` | theorems and proofs about `BufferReader` |
| `BytesProofs` | lemmas: induction on numbers, what a fold and `FlattenSeq` compute, powers of two; what one read takes, and what it leaves |
| `BitString`, `Cell` | `common/bits.c`, `common/cell.c` |
| `FieldReader` | a structure read field by field, `check_ascii`, `add_hint_*` |
| `TxParser` | `transaction/deserialize.c`, `transaction_hints.c`, `hash.c` |
| `DataParser` | `sign_data/sign_data_deserialize.c`, `crypto_sign_sign_data` |
| `AmountText` | `common/int256.c`, `format_bigint.c`, `format_amount` |
| `Friendly` | `address.c`, `common/format_address.c`, `base64.c`, `crc16.c` |
| `ReviewText` | the texts of every review: `ui/display_*.c`, `common/hints.c`, `ui/helpers/`, and the message of `proof/` |
| `CellReader` | independent: takes a cell apart by a TL-B schema |
| `RequestWriter` | independent: a client that writes requests and builds the cells itself |
| `TxParserProperties`, `DataParserProperties`, `ReviewTextProperties` | the schemas of `doc/` and the properties; independent readers of base64, checksums and decimals |
| `TxParserProofs` | theorems and proofs about `TxParser`: what is read and in which form, and the order of `hash_tx` |
| `CellProofs` | lemmas: the stores of `bits.c` and `hash_Cell`, undone by `CellReader` for any widths |
| `PayloadProofs` | the theorem about the payload and the lines of `process_hints`, and its proof |
| `DataParserProofs` | theorems and proofs about `DataParser`: the cell while it is built, its size, and what it says |
| `MCBuffer`, `MCTxParser`, `MCDataParser`, `MCReviewText` | instances for TLC |

In the control, `pc` says where main and `app_main` are. Between two steps the
device is about to receive (`recv`), sends a queued response (`replying`), waits in `io_exchange`
(`exchange`), has received a command (`dispatch`), or sends a button's answer
from inside `io_exchange` (`answering`). `IoRecvCommand` is the first half of
`io_recv_command` and `HostSends` the second. Each handler is one action, with the
parsing, the hashing and the `ui_display_*` call it makes: nothing interrupts a
handler, since events are delivered in `io_exchange` only. A button is two
actions: `Approve`, `Reject` or `ConfirmReject` runs the callback up to the
sending of its answer, `ReviewDone` is the rest; in between the link may fail.

Data is abstract here. A request's bytes are a sequence of serialized fields; a chunk
may end after any field, and lengths are counted in fields. A digest is the
content it covers, so the hash functions are taken to be injective, and a
signature is the pair of path and digest. `HashMayFail` says whether the
`cx_sha256` and `cx_hash` calls may report errors. Deriving a key and signing
may always fail. `Nbgl` chooses between the two user interfaces.

In the data, one request is read from its first byte to its last. `TxParser` and
`DataParser` read one field per step (`pc` says which part, `at` which field),
then build and compare the cell, then hash: a field list such as `TxLayout` is
the sequence of `buffer_read_*` calls with what each asks for. A cell is the
sequence of bits it has been given and its references; its representation, the
bytes that `hash_Cell` hashes, stands for its hash, so SHA-256 is taken to be
injective (`ReviewText`, at real size, has a constant operator `Digest`). The
functions are those of `TxRequest`, `SignDataRequest` and `ProofRequest`, which keep
what the control needs of them: their results over abstract fields, failing hash
functions, several parses of one upload and the holder that outlives them.
`TxParser`, `DataParser` and `ReviewText` have one parse, of every byte.

The readers on the other side of a property share nothing with the code they
judge but the conversion between numbers, bytes and bits. The code writes bits; `CellReader` takes a representation apart by a
schema written down from `doc/`. The code writes characters; `ReviewTextProperties`
reads base64 into bytes, divides polynomials (the code has a table of CRC
remainders) and multiplies digits out (the code divides words by ten).
`RequestWriter` writes requests and builds, from the same values, the order or the
cell that the client expects to be signed, as `tests/application_client` does; the
parser has to come to the same one, bit for bit. It follows that client and not
`doc/TRANSACTION.md` where the two differ (see below), and it writes the amount
zero without a byte: `write_varuint` of the client writes one zero byte, which the
app puts into the order as it is, while the client's own cell has none.

Undefined behaviour. A path that ends one element early is read past its end
from what the APDU buffer held: any path can come of it (`PathReadings`). Hints of
an unknown type compare the payload with an uninitialized local: either result is
possible (`HintsAccepted`). The write past the hint holder leads to `overrun`,
where the model stops saying anything: only power loss leaves it.

External parts, modelled from their use in the code:

* `io_exchange`: with `IO_ASYNCH_REPLY` it sends nothing and waits, without it
  it sends the length it is given and waits, with `IO_RETURN_AFTER_TX` it sends
  and returns. The link is half duplex: the host sends a command only when it has
  the answer to the last one or the link was reset in between.
* The UI libraries call a button's callback while `io_exchange` waits and not
  while it sends; a new screen replaces the old one with its callbacks.
* `EXCEPTION_IO_RESET` is the only exception thrown in `src/`, so the
  `CATCH_OTHER` of `app_main` is left out. The `return` of `app_main` inside its
  TRY block skips the SDK's CLOSE_TRY; the model takes it to return to `main`, as
  the macros do when nothing is thrown afterwards past main's own handler.
* `SW_DISPLAY_AMOUNT_FAIL` and the failure of `address_to_friendly` are left
  out of the control: the longest amount (15 bytes, 37 digits) and an address fit
  the buffers they are given, which is all these functions refuse. The data
  modules have these refusals, and `TransferReadsBack` says that they never
  happen. `SW_WRONG_RESPONSE_LENGTH` is left out for the same reason.
* SHA-256 and Ed25519 belong to the SDK: a digest stands for what it covers.

## What the runs check

The runs of the control use two paths, 8 hints (the code's `MAX_HINTS`), up to three fields of
plain text and inner cells from the second field of a text on. Operators with
the comment "Seeded fault" stand beside the definition they vary; no
specification uses them. They are plausible mistakes at that place of the
code, and each property is known to fail when the one meant for it is put in.

| Run | Instance | Properties | States |
|---|---|---|---|
| `tx_nbgl` | transactions, NBGL, up to 5 fields | `AppMainNeverReturns`, `ReviewIffWaiting`, `ReviewMatchesContext`, `ContextOfOneRequest`, `TxReviewFaithful`, `UploadInv`, `SignsWithConsent`, `SettingKept` | 484,905 |
| `data_bagl` | sign data, BAGL, up to 6 fields | `ContextOfOneRequest`, `SignedDataShown`, `UploadInv` | 213,019 |
| `all_bagl` | every instruction and refusal, BAGL, hash functions may fail | `TypeOK`, `IInv`, `AnswerInv`, `SignatureOnlyOfReviewed`, `AnswersTheCommand` | 52,067 |
| `answered` | one command of each kind of answer, NBGL, hash functions may fail, fair | `EveryCommandAnswered` | 8,777 |
| `reader` | any sequence of 27 kinds of reads and of seeks, on up to 4 bytes followed by 2 others; `size_t` of 4 bits | `OffsetInside`, `ReadsTheStream` | 64,100 |
| `tx_parser` | transactions of a client, cut at each byte, extended, or with one byte changed; bytes of 3 bits | `OrderReadsBack`, `DepthAboveReferences`, `LinesDescribePayload`, `WholeRequestRead`, `RequestInv`, `FieldsInForm`, `ClientsOrderIsSigned` | 33,990 |
| `data_parser` | sign-data requests, in the same way; bytes of 4 bits, cells of 23 bits | `LinesDescribeCell`, `CellsFit`, `RequestInCell`, `ClientsCellIsSigned` | 13,101 |
| `screen` | requests of real size on both interfaces | `LinesReadBack`, `TransferReadsBack`, `AddressOfWallet`, `ProofShowsWhatItSigns` | 5,617 |

The bounds are enough for the interesting cases. A transaction is four fields and a
sign-data request two to five, so with 5 and 6 fields an upload can be cut
anywhere, be too long, carry trailing data, and be refused or reviewed and then
resumed and parsed again. Commands of one run mix with keys and versions that
clear or keep the context. Two paths tell whose key is used, as a third would not
add a case: no operation relates more than the context's path, the review's and
the command's. Hints come in every kind: describing the payload, another one, cut
short, with and without expert lines, unknown. In `data_bagl` 6 fields are what
keeps the hint holder from overflowing; `hints_fit` shows what happens beyond.

The parsers and the reader are run at scaled widths, since TLC enumerates their
inputs: a byte has two to four bits, a word, a hash and a `uint64_t` one or two
bytes. What the properties look at does not depend on the width but on the places
where widths meet, and these are kept: depths have two bytes, as in the code, and
may be the largest of them; a length byte can be larger than what it may say; a
cell has five bytes and three bits where the real one has 127 and seven, so that
a text ends in one cell or in two, and a domain with its zero byte fills a cell to
the last byte; `size_t` in `reader` wraps for sums of an offset and an argument
that occur. Each field is in some request present and in some absent, and empty,
short and longest values of each variable field occur. Requests with one byte
changed reach every refusal; cut ones end at every byte. `screen` is at the real
sizes, because buffers, decimals and checksums are about them: amounts of each
length, the longest and those around a power of ten; comments, texts and domains
of no, one and the largest number of characters; addresses of both workchains;
buffers with and without the remains of something else, pages turned both ways.

Four runs show where the code and the repository's own words disagree:

* `hints_fit`: `constants.h` has "Max hints in one transaction", 8. Sign data
  parsed again after an answer adds its hints to those of the earlier parses;
  `hints_count` is reset by `process_hints` for transactions only. Enough parses
  of one upload write past the array.
* `queued_answer`: `doc/COMMANDS.md` lists `SW_DISPLAY_ADDRESS_FAIL` among the
  answers. `display_address` queues it, then `ui_display_address` returns -1,
  `app_main` returns, and the restart clears the response. It takes a failing
  hash function.
* `path`: `unit-tests/test_bip32.c` wants a path that is longer than the data
  refused. `bip32_path_read` tests the offset before each element and not behind
  it, so the last element may be cut or missing; what follows the data in memory
  becomes part of the path. `ByteStream` has this as its one exception,
  `AcceptCutPath`.
* `other_hints`: `doc/TRANSACTION.md` has a transaction with a payload and hints be
  "of some known types". With an unknown `hints_type` the payload is compared
  with an uninitialized cell and may pass.

Also met while reading, and shown by no run of their own:

* The table of the request in `doc/TRANSACTION.md` (lines 25-40) has no field for
  the recipient. `transaction/deserialize.c:48` reads an address between `value`
  and `bounce`, and the Python client writes it there: a request written by the
  table alone is refused.
* `doc/TRANSACTION.md:44` says that `payload` may be passed without `hints`. Its own
  second table calls that "An invalid request", and `transaction_hints.c:39-42`
  refuses it; so do the models (`PayloadWithoutHints`).
* `doc/CUSTOM_DATA.md:33` gives a message 0 to 250 characters where
  `MAX_PLAINTEXT_LENGTH` is 188. `data_parser` has texts above the limit, and
  `ClientsCellIsSigned` says nothing of them.

What the models of the data show without being a disagreement: bytes behind the
last field of app data are not looked at (and not signed); the timestamp of
sign data is signed and shown nowhere; the depth of a payload is taken
from the host and not compared with the cell the hints describe
(`LinesDescribePayload` ties the two by the hash alone; a client's depths are the
true ones, and `ClientsOrderIsSigned` is about these); `g_payload` of an address proof is
formatted and put on no screen; when a hash function
fails, `sign_data_deserialize.c:58` and `:124` go on without the hash of an inner cell
(`WithoutInnerCell`), and no property is about what is signed then: `SignedDataShown`
is checked with hash functions that do not fail; `LinesReadBack` is about the lines of one parse, and the
holders of several parses (see `hints_fit`) could also outgrow the text
buffers of NBGL.

## Fairness

`FairSpec` is `Spec` with weak fairness of `Device` (the program's own steps: it
runs whenever it is not waiting) and of `UserDecides` (a user who is shown a
review ends it by one of its buttons; browsing NBGL's confirmation back and
forth leaves such a button enabled all the time). Nothing is assumed of the
host, of resets, or of power. Under it every command is answered or the
exchange is ended by a reset or a power loss.

## What is proved

`TonAppProofs` proves, for any set of paths, fields and commands that meets
`TypesAssumption`, any limits, both interfaces, with and without failing hash
functions:

* `InductiveInvariant`: `Spec => []IInv`;
* `TypeCorrect`, `SignaturesAreReviewed`, `ReviewsMatchContext`,
  `WaitsForReviews`: its conjuncts, or what follows from them;
* `LoopGoesOn`: `AppMainNeverReturns`, assuming that hash functions do not fail;
* `SettingIsTheUsers`: an action property, from the frame of every action;
* `ConsentRefinement`: `TonApp` implements `SigningConsent`.

Why the invariant is what it is. That a signature is over what was shown is not
inductive: a step of a handler may open a review, a button may sign. It needs that
the context does not change under an open review (`ReviewMatchesContext`), which
needs that no command is dispatched while one is open: `ReviewLinkInv` ties the
review to `G_io_state` and to the host waiting, `DispatchInv` gives a command
that is dispatched with the state RECEIVED. `LoopInv` says how the program point
and `G_io_state` go together, from which the loop never returns. `PathInv` and
`ReviewedDigestInv` carry what a handler checked (a path, the kind of digest) to
the button that signs; `ClosedInv` that nothing is left of a review once it is
closed. The proof shows for each handler that it leaves the command answered or
given up, or a review presented (`HandlerPost`), then one lemma per step of
`Next`, and the refinement from the same facts.

`TonAppProofs` also proves, from `IInv`:

* `AnswerInvariant`: `Spec => []AnswerInv`;
* `AnswerRefinement`: `TonApp` implements `CommandResponse` (`AnswersTheCommand`).

Every step maps to one of `CommandResponse` or to a stutter. The hard steps are the
buttons: the answer is made from the context, and must be one that the command the
host still waits on may have. `AnswerInv` carries this from the handler through the review
(`ReviewFor`) and through the queue (`pending = cmd` until it is answered). What is
left in the buffer after it has been sent is not sent again, and is not in the invariant.

`UploadProofs` proves, from `IInv` and under the same assumptions:

* `UploadInvariant`: `Spec => []UploadInv`;
* `TransactionReviews`: `TxReviewFaithful`; `DataReviews`: `SignedDataShown`; both
  with and without failing hash functions;
* `OneRequestAtATime`: `ContextOfOneRequest`, assuming that hash functions do not
  fail.

That a review is faithful is a fact about the handler that opens it, but not of that
handler alone: what it finds in the context was left there by any number of earlier
attempts. `OneRequest` is what all of them keep. The raw data only grows behind
what was hashed, so that a digest is of the beginning of what is held. Lines may
be left in the holder from an earlier parse of the same upload; those of data
are kept and were all printed from what is still held, those of a transaction
are reset when its hints are processed, but not when there is no payload. That a
transaction without a payload then shows no line needs to know that it had none
when the lines were made either: `LinesOfUpload` says that what left them had a
payload, the third field, and fields are not replaced. The one hypothesis of
`OneRequestAtATime` is needed: when the hash of an inner cell of sign data fails,
its error is not looked at, and the digest leaves that cell out
(`DigestOfUpload`). In the instance of `data_bagl`, with `HashMayFail` set, TLC finds that state.

`BufferProofs` proves, for any widths of bytes, integers and hashes, any requests and any
calls that `InputsAssumption` and `CallsAssumption` allow (arguments are no larger
than `size_t`, and the code's constants are far below):

* `OffsetStaysInside`: `Spec => []OffsetInside` of `BufferReader`;
* `BufferImplementsStream`: `BufferReader` implements `ByteStream`.

Here the invariant is inductive with the types alone, and all work is in what a
step does (`BytesProofs`). As long as the offset is in the data, `size - offset` does not wrap, and
a sum that wraps in `buffer_seek_cur` is below the offset and refused
(`SeekCurSkips`). Every read is then shown to be of one of three forms
(`CallAnswers`, one lemma per kind of read): it takes a value and its bytes, it
refuses and there is no such value, or it takes the cut path. The first two are
carried over to sequences (`FirstOfLeft`, `RestOfLeft`: what `ptr` and `offset` say
is what the stream says), and the third is the exception of `ByteStream`. A read
made of two (`ThenReads`) takes both or stops after the first, which is why a
refusal may have moved the offset.

`TxParserProofs` proves, for any widths, limits and requests that `SizeAssumption`
and `RequestsAssumption` allow:

* `RequestInvariant`: `Spec => []RequestInv`;
* `AllIsRead`: `WholeRequestRead`, for requests and for the hints of a transfer;
* `FieldsInvariant`: `Spec => []FieldsInForm`.

`WholeRequestRead` speaks of the end; `RequestInv` says it of every place in between:
the fields stored so far, one after the other, are the bytes the offset has moved
past (`ReadSoFar`), and the fields to come are empty, from which a field that is
skipped because its flag is not set adds nothing. Its proof needs that what a read
returns as its value is exactly what it has moved past (`FieldReads`, which also
holds for an amount with its length byte), that a length taken from the request as
a number cannot be larger than `size_t` (`ShortLen` bytes), and that the reading of the
hints is of `hints_data` and leaves the request's position alone. `FlattenSeq` and
`BytesNumber` are folds of the community modules, each a function chosen on sets
of positions. `BytesProofs` shows that there is one and what it is along 1, 2, ..., n,
by an induction stated with sets instead of predicates (`NatSetInduction`).

`FieldsInForm` is what the length checks of `deserialize.c` are for: an amount has
the length its first byte says and no more than 15 bytes, a flag is 0 or 1, and so
on, for every field that is read and whose flag is set. It is inductive with
`RequestInv`.

When `OrderAssumption` holds too, it proves:

* `OrderIsReadBack`: `Spec => []OrderReadsBack`;
* `DepthIsAbove`: `Spec => []DepthAboveReferences`.

The code never reads a cell, so what it has put into one is said by a reader that
is not the code's: `CellReader`, with the schemas of a wallet's order and of a
message. The argument has four parts.

1. *What goes in.* An accepted request has `GoodFields`: by `FieldsInForm`, each
   field that `hash_tx` takes has the length it stores. The order is the one that
   `hash_tx` has built from these fields (`OrderHashed`, which is inductive).
2. *The bits.* `Holds(t, w)` says that a `BitString_t` has been given the bits
   `w`. Each `BitString_store*` puts its bits behind these as long as there is
   room (`StoreUintHolds`, `StoreBufferHolds`). Without room a bit is lost, which
   is why `MessageFits` and `OrderFits` bound the longest message and the longest
   order. The stores come in the order of the schema's parts (`MessageBuilt`,
   `OrderBuilt`): the tails `FromInfo`, `FromIhr` and so on are what a wallet has
   still to read before each part.
3. *The cell.* `CellOf` takes a representation apart into the bits and references
   it was made from (`CellReadsBack`). The descriptor tells how many bytes there
   are and whether the last one is padded, the padding begins at the last one bit,
   and each depth comes back from its two bytes. A cell may end on a byte or not,
   be empty, and have any number of references.
4. *The reading.* One lemma per kind of part says what a reader that stands before
   it takes and where it stands then (`ReadUintPart`, `ReadAmountPart`).
   `ReadByRuns` puts the parts one behind the other, the flags in front of the
   state-init and of the body say whether there is a reference (`ReadInit`,
   `ReadBody`), and at the end nothing is left.

`DepthIsAbove` follows from the same reading and from `CellDepthIs`: a depth is one
more than the largest of the references, in two bytes, so it is above each of
them unless it wraps.

`OrderAssumption` says that the wallet's number is one, that the length of an
amount fits into its four bits, and that a cell has room for the longest order and
the longest message: 15 < 16, and 112 and 505 bits of 1024. Without it the
theorems are false, since a store beyond the capacity is dropped without an error.

`PayloadProofs` proves, when `PayloadAssumption` holds too:

* `PayloadIsDescribed`: `Spec => []LinesDescribePayload`.

Of the payload the device gets a hash, and hints that say what it is the hash of.
What ties the two together is one comparison, and what makes it worth anything is
that the cell on one side of it is the one the lines show. The invariant is
`PayloadInv`: while the hints of a transfer are read, the fields so far, in the form
of their kinds, are what the cell, its references and the lines were made from
(`TransferMade`); when the hints are processed, this holds of the whole transfer or
of the comment; behind the comparison the payload is the hash of that cell. "Made
from" is a history `h`, where `h[i]` is what there is after `i` fields
(`AfterField`), because the code has one accumulator for each and no trace of the
fields in it. It is inductive since a later field changes neither the fields before
it nor the flags they depend on (`EarlierFields`, `JettonFlags`). It is not a run's
invariant, as it quantifies over all histories; `RequestInv` and `FieldsInForm`
beneath it are.

From the history the argument goes as for the order: each field adds what its part
of the schema reads (`FlagField`, `QueryField`, `AmountField`, `AddressField`,
`PayloadField`), so the bits are those of a transfer with these values
(`TransferCell`), which a reader takes apart into the same values (`TransferRead`),
and the lines show them in their order under either value of the setting
(`TransferShown`). A `query_id` that is not there is stored as zero, and a payload that is not
there as a zero bit, with no reference and no line. The comment is the same with
one field (`CommentBuilt`, `CommentRead`).

`PayloadAssumption` says that a cell has room for the longest comment and for the
longest transfer: 992 and 880 bits of 1024.

`DataParserProofs` proves, for any widths, limits and requests that `RequestsAssumption`
and `CellAssumption` of `DataParser` allow:

* `CellGrowsWithLines`: `Spec => []RequestInCell`;
* `CellsAlwaysFit`: `Spec => []CellsFit`;
* `CellIsDescribed`: `Spec => []LinesDescribeCell`.

`sign_data_deserialize` reads, checks, stores and shows a request field by field, with
one accumulator each for the bits, the references and the lines. `CellsFit` and
`LinesDescribeCell` are about the end and are not inductive: they need to know at every
place what has been accumulated and from which fields. `RequestInCell` says it
with operators of the number `n` of fields read (`BitsAfter`, `RefsAfter`, `LinesAfter`):
an optional part has left nothing while its flag has not been read, and also
between its flag and its last field, because the code stores the flag's bit
behind (or with) what it announces. It also carries the lengths that the stores rely on
(`Sized`) and that the schema and the time are the first bytes of the request. It is inductive as it
stands, and the run checks it. One lemma per field says what reading it adds
(`HasAddressGrows`, ... `ExtGrows`, put together in `FieldGrows`), and what
skipping it leaves (`FieldAbsent`); no store is dropped since the longest prefix
still fits (`BitsRoom`).

For the size, a text is cut into at most two cells (`TextInCells`), the second with what
is left of `MAX_PLAINTEXT_LENGTH`, and a domain takes one byte more than it has (`LabelledForm`).

For the meaning, three readings are undone, each the code's counterpart of a reader that
knows only `doc/CUSTOM_DATA.md`:

1. *App data.* The schema's parts find in the cell what was stored (`AppIsRead`), in each
   combination of address, domain and extension.
2. *The text.* A reader that goes from cell to cell finds the whole text, whether it took one
   or two (`SnakeOfOne`, `SnakeOfTwo`).
3. *The domain.* `encode_domain` writes the labels backwards, each ended by a zero byte. The
   proof goes along the dots of the domain: what is written for its first `m` bytes is
   its last label and then what is written for the bytes in front of the dot
   (`LabelledPieces`), so that a reader from the zero bytes meets the labels in the
   order that gives the domain again (`DomainReadsBack`): empty labels, a leading or a
   trailing dot and the empty domain included. It rests on a domain having no zero
   byte, which `check_ascii` sees to.

`RequestsAssumption` says that the two schemas differ, that a zero byte is no character
`check_ascii` lets through, and that a request is no longer than the bytes it is in.
`CellAssumption` says what the constants of the code satisfy: a cell holds no more
bits than a bit string (1023 of 1024), the number of its bytes fits in the `uint8_t` of
`encode_text` (127), two cells hold the longest text (188 of 254 bytes), and one holds the longest
domain (1016 bits) and an address with its flags (270 bits).

The proofs rest on the assumptions of `AppTypes`, `Ui`, `SignDataRequest`, `Widths`,
`ByteBuffer`, `BufferReader`, `BitString`, `TxParser` and `DataParser`, which the runs evaluate.
`FieldAssumption` says of the abstract fields what `UploadProofs` reads from them: a
field of kind `data` is always present.

Only model-checked:

* `ClientsOrderIsSigned` and `ClientsCellIsSigned`: they are about the requests that
  an instance lets `RequestWriter` write, and `client` is given by the instance with
  the bytes;
* `LinesReadBack`, `TransferReadsBack`, `AddressOfWallet` and `ProofShowsWhatItSigns`
  of the screen: they follow loops over digits, characters and checksum
  bits at real widths, each an induction over the
  text;
* `EveryCommandAnswered`: liveness and ENABLED are out of the prover's reach;
* the four disagreements, whose runs end in a counterexample.

## Not modelled

* The SDK: USB, BLE, the UI libraries, SHA-256, Ed25519. `Io` and `Ui` model the
  parts of it the code relies on, `Digest` stands for SHA-256.
* Layout, the splitting of a text into lines and pages by the UI library, the
  wording of titles, icons and menus.
* `bip32_path_format` and the little-endian writes, which nothing in `src/`
  but their unit tests uses; the `<unknown>` kind of hint, which nothing adds.
* Tests, fuzzing, the Python client and the build: not part of the program. The
  documentation and the client are the source of what the properties expect.

## Plan

Done, in this order: types and dispatcher, link, screens, parsers over fields,
composition, properties and abstract specifications, invariant and proofs; then
reading, cells, the parsers on bytes, numbers and addresses, the texts of the
reviews.

Then the proofs: the control, uploads and answers, the buffer, the reading of a
transaction, cells, the order that is signed, the payload with its lines, and the
cell of sign data with its size, its lines and its domain.

What remains is listed under "Only model-checked". Of it the conversion of
amounts (`AmountText`) would come first: long division on the sixteen words, as a
lemma about one pass of `DivideByTen`.
