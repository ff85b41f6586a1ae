# A TLA+ verification of fercc

`fercc` talks to VelocityDRIVE-SP switches over a serial line: MUP1 frames carry
CoAP messages, whose payloads are CORECONF data encoded with the help of a YANG
catalog. This directory holds TLA+ models of the parts of it that keep state or
speak a protocol, TLC configurations that check them on small instances, and
TLAPS proofs of the results that matter most, for every value of the constants.

    tlc -config MCMup1Frame.cfg MCMup1Frame     # any run of PROJECT.json
    tlapm Mup1FrameProofs.tla                   # any *Proofs module

## The system

| part | source | state | operations | what makes it correct |
|---|---|---|---|---|
| MUP1 framing | `mup1/src/frame.rs` | `Decoder`: byte buffer `raw` with its settled prefix, the open attempt, the running checksum, queued frames, the stall timer | `encode`, `inject`, `tick`, `get` | buffer, state and checksum agree whatever bytes arrive; frames come out as they went in; the rest comes out as raw bytes; nothing gets stuck |
| MUP1 client | `mup1/src/client.rs` | decoder, clock, transport | `send`, `poll` | frames and console text on one line are separated, however reads cut them |
| checksums | `mup1/src/checksum.rs` | running sum | `update`, `finalize` | sender and receiver sum the same bytes |
| transport | `mup1/src/transport.rs` | port or socket | `read`, `write_all` | a read returns within its timeout |
| CoAP client | `coap/src/client.rs` | `Client::msg_id`; per request a `Session` with block numbers and sizes, the answer so far and flags set by the poll closure; retransmission count and deadline | `request` | at most one execution, whole bodies and answers, always returns |
| CoAP messages | `coap/src/message.rs` | none | `encode_request`, `parse` | `parse` undoes encoding; any bytes are parsed or refused |
| CBOR | `cbor/src` | none | `to_vec`, `from_slice` | what is written is read back; what is cut off or malformed is refused |
| catalog acquisition | `yang/src/catalog.rs`, `fercc/src/lib.rs` | the cache directory shared by all runs of fercc, with its `.complete` file | `download_and_extract`, `load_from_dir` | no unfinished download is ever used |
| schema | `yang/src/schema.rs`, `parser.rs`, `sid.rs` | the builder's tables: nodes, identities, typedefs, groupings, SIDs, what passes have left to do | `build` | names, groupings, augments and typedefs resolved as RFC 7950 says, in whatever order the sources come |
| codec | `yang/src/codec.rs` | none | JSON/YAML to CBOR and back | a request means on the wire what it said, and comes back the same |
| JSON schema | `yang/src/json_schema.rs` | none | `to_json_schema` | every answer the codec produces is valid |
| catalog export | `yang/src/yang_catalog.rs` | none | `to_yang_catalog`, `verify_yang_catalog` | the document is complete, and one that has lost something does not pass |
| command line | `fercc/src` | none beyond one run | `get`, `fetch`, `ipatch`, `put`, `post`, `delete`, `conv`, `schema`, `catalog` | requests in order, output decoded with the right catalog |

How they interact: `coap_method_run` calls `request`; `request` calls
`send_frame`, which encodes a message and a frame and writes it, and loops over
`Mup1Client::poll`, which reads the transport, feeds the decoder and calls the
closure of `request` for every frame; the closure changes the `Session`, and the
loop acts on its flags afterwards. Before the first data request, the device is
asked for its catalog's checksum, and the catalog is loaded from the cache
directory, which is the only state that outlives a run and that runs share.

What is hard here: bytes arrive in pieces that ignore frame boundaries, and
console text shares the line; a line that stalls inside a frame; a buffer at its
capacity; lost messages, retransmissions that cross replies, several replies in
one poll, message ids that wrap; block sizes the device changes half way; runs
that are stopped while they write the cache, or that overlap; arguments of CBOR
and of CoAP options at the limits of their widths; SIDs that are deltas to a
parent's SID; unions whose members overlap; bodies of which `--continue` leaves
out a part; names that are resolved in the module that wrote them and copied
into another; deviations, SIDs and accept lists that are applied to nodes which
later sources create or remove. `PROJECT.json` lists these under `hazards`, each
at its line.

## The modules

| module | models |
|---|---|
| `Mup1Frame` | `encode`, and the decoder with one action per branch of `inject`, `tick` and `get` |
| `Mup1Client` | `poll` on top of the decoder, the device's writes and the clock |
| `CoapClient` | `request`, one action per step between two polls or sends, the closure as a function of the session (`on_frame`) |
| `CoapService` | abstract: what `request` promises its caller |
| `CoapExchange` | `CoapClient`, a device and a lossy line; shown to implement `CoapService` |
| `CoapMessage` | `encode_request`, and `parse` one option at a time |
| `Checksum` | the Internet sum and CRC-32, their digits on the wire, the sentinels |
| `Cbor` | `to_vec` and `from_slice`, and the loop over a sequence of items |
| `Base64` | the codec's base64 |
| `CatalogCache` | runs of fercc on the shared cache directory |
| `YangBase` | results, names and lookups that the next modules share |
| `YangTypes` | a schema as the codec sees it, and the codec of leaf values |
| `YangCodec` | bodies, paths and whole trees; a behaviour encodes a request and decodes it again |
| `YangJsonSchema` | `to_json_schema`, and what a validator makes of the result |
| `YangSchema` | `build`, one action per module, `.sid` file and pass |
| `YangCatalog` | the exported document and its cross-checks, on top of `YangSchema` |
| `Fercc` | one run of the command line: checksum, catalog, request, answer, output |
| `MC*` | the values of the constants for TLC; `MCEncodings` and `MCYang` join components that share no state into one run each |
| `FoldTheorems` | what a fold over a sequence computes, for any operator |
| `Mup1FrameProofs` | proofs about the decoder |
| `Mup1ClientProofs` | proofs about `poll` with a device on the line |
| `ChecksumProofs` | proofs about the checksums and their digits |
| `CoapMessageProofs` | proofs about `parse`, and about `parse` after `encode_request` |
| `CoapClientProofs`, `CoapExchangeProofs` | proofs about the client against any device, and with a device over a lossy line |
| `CatalogCacheProofs` | proofs about the cache |

Variables carry the names of the fields they stand for. Definitions whose name
ends in `_Something` after the name of another one, and whose comment begins
with "Mutant", are plausible mistakes in the code; each is used to show that a
property notices it, and none is part of a specification.

### MUP1

A byte of `Mup1Frame` is one of those the decoder tests for or a stand-in for
the others. The checksum is a parameter (new, update, finalize, the byte strings
`is_ignore_sentinel` accepts), so that what is proved holds for both kinds. The
settled bytes, the open attempt and the indices into them are kept exactly as
the code keeps them, because that is where the difficulty lies:
`resolve_success` decodes `raw` a second time from `raw_head` and `data_end`,
and `DecodePanics` says when that leaves the buffer. The status flags `inject`
and `tick` return are left out: `poll` ignores them. `since_progress` is the
time since `time_of_last_progress`, counted up to the timeout.

In `Mup1Client` the device writes frames and console text; a write reaches
`poll` in one or two pieces, and a read may join pieces. `SplitTrailer` says
whether a piece may end between a frame's EOF and the end of its checksum, and
`stalls`, chosen once per behaviour, whether time passes between reads.

Console text is not escaped, so no decoder can tell text that imitates a frame
from a frame. Three predicates on the traffic say what the properties need:
`TextWithoutSof` (text opens no attempt), `PlainText` (text may open one, and has
neither EOF nor ESC) and `NoFrameInside` (no part of a frame is, by its form and
checksum, another frame). `MCMup1Client` asserts the last two of its traffic.

`Checksum` keeps the 32-bit word of the CRC as the function from its bit numbers
to its bits, the accumulator of the Internet sum as a number, and feeds both kinds
the same bytes.

### CoAP

Lengths are counted in units of 16 bytes, the smallest block; a unit of a body
or of an answer is the pair of its request and its place. A message that
does not parse is ignored by the closure, so it is the same as a lost one. The
token is sent and never compared. `MaxBatch` is the number of replies a poll may
hand over. The device of `CoapExchange` is external and follows RFC 7252 and
RFC 7959: it repeats its reply to the message id it has just handled, may ask
for smaller blocks, may insist on sizes nobody asked for, and may refuse or
reset anything. The line loses messages and keeps their order. `CoapClient` also
has a device of its own that sends anything (`AnySpec`), which
`CoapClientProofs` is about.

`CoapMessage` works on bytes 0..255. Sums of 16-bit numbers wrap around as in a
release build. A URI is given as its segments. `Cbor` works on bytes too; an
argument is the sequence of its base-256 digits, so all of u64 is there.

### The catalog cache

Each run checks for `.complete`, tries the mirrors in turn, extracts file by
file, writes `.complete` and loads the directory. Opening a file replaces the
one that was there, as the tar library does; what a run goes on writing shows
only while nobody else has replaced the file. A run may fail at every step that
can fail and may be stopped anywhere. `Concurrent` says whether runs overlap.

### YANG

A result is `Ok` of a value or `Err`: errors carry no text. A name is a module
and a local name.

In `YangTypes` and `YangCodec` a JSON or CBOR value is a tuple tagged with its
variant. A string is a token that says what it can be read as: a word, digits, a
qualified name, a list of words, base64 characters, a path. Reading a token as
something it is not fails, as parsing does, so that a union's members are tried
in the code's order and for the code's reasons. Binary leaves are read with
`base64_decode` of module `Base64`, which takes any text over its alphabet: a
word and a number too. Paths are sequences of segments.
Integers are scaled down: `BITS32` = 6 and `BITS64` = 8 stand for 32 and 64, and
the boundaries between the widths for the real ones. decimal64 is left out: its
decoding is double-precision arithmetic.

`YangSchema` starts from parsed statements. The builder is one record, and every
`interpret_*` function of the code maps a builder to a result. `todo` holds the
steps `build` has left; the order of the sources, and the order in which a hash
map yields the modules for the SID index, are free.

In `Fercc` a payload is a sequence of CBOR items. Acquiring the catalog and
exchanging messages either succeed or fail there; how, is what `CatalogCache` and
`CoapExchange` are about.

The instances have constants `Cases` (`MCYangCodec`) and `SchemaCases`
(`MCYangSchema`) with inputs that the code is known to get wrong. The passing run
leaves them out, and each one, put in, makes the property named here fail:

| case | input | property that fails |
|---|---|---|
| `choice` | an instance inside a choice, by its path | `ReEncodes` (run `codec_path`) |
| `u64` | a number above i64::MAX | `Understood` |
| `base64` | text for a binary leaf that is no base64 but is taken for it: a last chunk of one character (`x` becomes one byte, printed `xA==`), or one with bits to spare | `Understood` |
| `union` | a union of two integer types of different widths | `ReEncodes` |
| `dangling` | a leafref whose target is not known | `AnswersValidate` |
| `event` | a notification | `AnswersValidate` |
| `capture` | a typedef where a grouping is used, named as one the grouping uses | `TypesAreLexical` (run `schema_scope`) |
| `twins` | a container and a typedef in it, named as those an augment adds beside it | `TypesAreLexical` |
| `case` | an augment of a choice from another module | `NamesAreQualified` |
| `leafref` | a relative leafref inside a case | `LegalSourcesBuild` |
| `removed` | a deviation of a node another deviation removes | `LegalSourcesBuild` |
| `document` | a yang-data made of another module's grouping | `UsedModulesAreListed` |

Two of these are runs, because a line of the repository promises otherwise.

## What the runs show

Passing runs:

* **decoder**: all strings over eight bytes that fit a buffer of six, with
  ticks, clock steps and fetches anywhere, a queue of one frame and one dropped
  byte. The buffer is split as `AttemptInv` says, so that no subtraction or
  index in `inject`, `tick` and `resolve_success` goes wrong, and the checksum
  computed on the fly is the one of the bytes in the buffer (`ChecksumCovers`).
  Six bytes hold a complete padded frame after a settled byte, or an attempt
  that is restarted by a SOF. Frames with an odd number of data bytes have one
  EOF, as all frames have with a CRC. The view leaves out settled bytes and
  queued payloads, which nothing reads again but `get`, and an attempt's
  variables until the attempt has set them.
* **client**: three writes of five kinds (an empty frame, escaped bytes, text
  that looks like a trailer, text that opens an attempt) if no time passes, two
  of three kinds if it may pass anywhere, cut and joined in every way outside a
  trailer. In the first case every frame comes out once, unaltered and in
  order, and no console byte is lost or moved (`StreamIntact`). In both, nothing
  panics, no frame is forged, repeated or reordered (`FramesUnaltered`), and no
  byte stays in the decoder for ever (`StallRecovered`).
* **coap_promise**: an upload in blocks and then a download in blocks, with
  losses, one retransmission, resets, refusals, and block sizes the device
  changes or insists on. The device never sees a gap (`UploadContiguous`), every
  block starts inside the body (`UploadInRange`), the exchange implements
  `CoapService` (`Promise`), and every request returns (`RequestReturns`). This
  is for one reply per poll; see `coap_dupack`.
* **encodings**: requests around the lengths at which the encoding of a CoAP
  option changes, and arbitrary messages; CBOR values with arguments on both
  sides of every change of width, nested, in sequences, with indefinite lengths,
  and arbitrary bytes; checksums of up to six bytes; base64 of every length
  modulo 3 with white space. What is written is read back (`RoundTrip`,
  `CborRoundTrip`, `DigitsDecode`, `Base64RoundTrip`), what is accepted is
  covered to the last byte (`AcceptsWholeMessages`), normalizing changes no item
  and nothing the second time (`NormalForm`), and the
  running checksums are the ones of RFC 1071 and of CRC-32 (`InetIsRfc1071`,
  `CrcResidue`).
* **catalog_solo**: two runs, three files, two mirrors, one run at a time, any
  number of them, failing or stopped anywhere. `.complete` implies a whole
  catalog, and a run that succeeds has read all of it. The two runs are
  symmetric.
* **yang**: three independent parts.
  The *codec*, on a schema with every kind of node and type and requests of every
  content format: what is encoded decodes to what the request said, base64 up to
  padding and white space (`Understood`), and then encodes to the same items again (`ReEncodes`),
  `--continue` changes nothing of a request that is right
  (`ContinueIsConservative`), and every decoded answer satisfies the JSON schema
  of its node (`AnswersValidate`).
  The *schema*, on modules with groupings used across modules, typedefs,
  augments, choices, identities, yang-data, structures, two deviating modules
  and their `.sid` files, in every order of the sources: it builds
  (`LegalSourcesBuild`), names and types mean what they mean where they were
  written (`NamesAreQualified`, `TypesAreLexical`), relative leafrefs point where
  their paths lead (`LeafrefsFollowTheData`), the values of an identityref are
  derived from all of its bases (`IdentityValuesDerive`), nothing below a node
  without configuration is configuration (`ConfigIsInherited`), SIDs find the
  nodes their files name and no removed one (`SidsFindTheirNodes`), modules in
  use are listed (`UsedModulesAreListed`), and the exported document passes its
  own checks (`CompleteSourcesExport`), which notice the loss of any one entry,
  but for one of several revisions of an imported module (`LossesAreNoticed`).
  Noticing is returning errors, with one exception: when the lost entry is that
  of a schema node with a parent, the walk from the roots indexes `schema-nodes`
  with its path (yang_catalog.rs:1092) and panics before the errors, among which
  the loss is by then, are returned. The model tells the three outcomes apart,
  and the property says which losses end in which.
  The *command line*, with answers as the firmware gives them and some that it
  does not: an entry of a fetch without a value is sent as an identifier alone,
  however it is spelled (`FetchesAreBare`), and what the device says is what is
  printed, for every method, code and content format (`AnswersAreShown`).
  Here the bound is the choice of inputs, not their size: one schema in which
  every construct meets those it can interfere with. The comments of the `MC`
  modules say which.

Runs that exhibit a disagreement between the code and what is said about it
(`findings` in `PROJECT.json` quotes the lines):

* **decoder_dataend**: `get` drains the settled bytes and does not adjust
  `data_end`. When a read ends between a frame's EOF and the end of its checksum
  and console text came before the frame, the frame is decoded with extra bytes,
  or the process panics.
* **client_tick**: `tick` compares the attempt's length with a remembered one,
  and gives up an attempt that has just begun if the lengths happen to agree.
* **coap_dupack**: a second copy of the last reply, in the same poll, appends its
  payload again.
* **catalog_overlap**: a second run replaces files of a catalog that is already
  marked complete; if it fails there, the cache stays broken.
* **codec_path**: the path printed for a node below a choice names the choice and
  the case, and paths are read with data nodes only.
* **schema_scope**: a type name inside a grouping is looked up first among the
  typedefs where the grouping is used.

Two comments that the code does not follow, without a run of their own:

* encode_node_value's (codec.rs:1375) says "The container/list shape checks below
  are `--continue`-gated", and names `leaf-list`, `rpc` and `action` as the
  exceptions. A list value that is no array does become an empty list. An entry
  that is no object, or that cannot be encoded, is an error all the same: the `?`
  in the loop over the entries (lines 1414 and 1415) is inside the argument of
  `lenient` and returns from the function. A request for such a list fails, and in
  a tree it is the container around the list that is sent empty. The model does
  as the code does.
* The two comments of `resolve_relative_leafref` disagree. The one above it
  (schema.rs:2194) anchors a path at the leaf's own *parent*, each `..` climbing
  one more level; the one inside (schema.rs:2198) starts at the leaf, "not from
  its parent". The code, RFC 7950 and `LeafrefsFollowTheData` follow the second;
  under the first the property fails, as its mutant shows.

Other things seen while modelling, about which the repository promises nothing:

* `get` returns decoded frames before raw content, so console text read together
  with a frame that follows it is handed over after the frame.
* `poll` injects up to 1024 bytes before it fetches any; the buffer holds 609.
* A device that answers every block with `more` keeps `request` going for ever.
* int64 has no range check of its own, and decimal64 is rounded by doubles.
* `--continue` empties a container that holds a malformed leaf-list or list entry.
* A key value with a bracket or a slash in it ends its selector or segment early
  (codec.rs:1005), and is printed without escaping; the text of paths is not
  modelled.
* Typedefs that refer to one another in a circle are followed without end.
* The device may be given another catalog between the checksum and the request.
* A 4.xx or 5.xx answer ends with exit status 0 and leaves an older `-o` file.
* An answer with one entry is printed as an object, with several as an array.

Deadlock is not checked where the system may stop: the decoder's instance has a
bound on queued frames, a CoAP process ends, conversions and builds return. It is
checked for the MUP1 client and for the cache.

**Fairness.** `poll` is called in a loop by the only thread there is, and the
clock advances: weak fairness of `poll` and of the clock (`FairClientSpec`), of
the client's steps and of its deadline (`FairExchangeSpec`). Nothing is assumed
of the device or of the line.

## What is proved

Every theorem is for all values of the constants its module declares, under the
named assumptions of the modules (`ByteAssumption`, `SizeAssumption`,
`ClientAssumption`, `TrafficAssumption`, `RepliesAssumption`, `ExchangeAssumption`,
`MessagesAssumption`, `CacheAssumption`, `SumByteAssumption`, `MaxFedAssumption`):
sizes are natural numbers, the special bytes are bytes, the values that stand for
"none" are not values, messages are encoded requests or strings of bytes, so few
bytes are summed that the `u32` does not overflow, a frame's type byte is neither SOF nor EOF
(it is written as it is) and the digits of a checksum are not EOF.

**The decoder** (`Mup1FrameProofs`).

* `DecoderInvariant`: `AttemptInv` and the types of the decoder's own state, for
  every byte alphabet, capacity, timeout and checksum. The inductive invariant
  adds that a second EOF is awaited only if one is due (`EofPadded`): without it
  the EOFs between the data and the checksum could not be counted.
* `DataEndInvariant`: a caller that does not fetch settled bytes while a frame
  is inside its trailer has a right `data_end`, and decoding never leaves the
  buffer. Together with `decoder_dataend` this says exactly what the code relies
  on: that no read ends there after console text.
* `ChecksumInvariant`: `ChecksumCovers`. The invariant (`CoverInv`) relates the
  checksum and the count of data bytes, which `inject` keeps as bytes arrive, to
  what undoing the escapes in the buffer yields, in every state of the decoder:
  after SOF, inside the data, inside an escape, and inside the trailer, where the
  EOFs seen so far are covered too. One more byte in the buffer is one more step
  of the two folds, which is what `FoldTheorems` is for.
* `DecoderTypes`: `TypeOK`, the payloads of queued frames included.
* `FramesAreChecked`, an action property: for the caller of `DataEndInvariant`,
  every frame that is queued carries the data over which its checksum was
  verified, or came with a sentinel. `inject` sums in a first pass and decodes in
  a second; the theorem says that the two passes are about the same bytes.

**The MUP1 client** (`Mup1ClientProofs`): `poll`, the decoder and the line
together, for every alphabet, checksum, size of the buffers, number and content
of writes, and every way to cut the writes into pieces and to join pieces in one
read, outside the trailers of frames (`~SplitTrailer`; with them
`decoder_dataend` shows what happens).

* `StreamsAreIntact`: `StreamIntact` as long as the decoder has dropped no byte
  (`drop_count = 0`), for `PlainText` or `TextWithoutSof`, and a timeout above 0.
  The condition on `drop_count` is needed: `poll` may inject more bytes than the
  buffer holds.
* `FramesStayUnaltered` and `ClientNeverPanics`: `FramesUnaltered` and `NoPanic`
  on a line that may stall anywhere, with a buffer that may overflow, for
  `PlainText` and `NoFrameInside`. The second is a condition on the checksum: a
  decoder that missed the beginning of a frame takes an escaped SOF inside it for
  a beginning, and only the checksum can tell.

The invariant (`StreamInv`) has three parts. `BaseInv` is what the proofs about
the decoder give, and what `poll` has done when it reads again: all bytes are
injected, everything that was ready is handed over. `CutsOK` says, in numbers of
unread bytes, that no piece on the line ends inside the trailer of a frame.
`FlowInv` says where in the device's writes the decoder is (`Flow`): the writes
are those that have begun to be decoded and those still on the line, and the
bytes on their way are the rest of the last begun one and all of the others. The
decoder is at one of four places (`Position`): in text, where the buffer is held
text (`Background`); behind a frame, but for its CR LF (`After`); in a frame
whose attempt holds exactly the bytes of the frame so far (`Genuine`); or in a
frame whose attempt was given up (`Missed`), where another attempt may be open,
but never one that starts at the frame's own SOF. In each of them the frames
handed over and queued are those of the begun writes, and the text handed over
together with the text held is theirs (`Accounted`); where something was given
up, they are some of them, in order (`Picks`).

The lemmas are about the three steps that move the decoder. `InjectKinds` says
what `inject` can do with a byte, in six kinds. `GenuineInject` says that the
next byte of a frame makes the attempt one byte longer, or ends it with the frame
that was written: that undoing the escapes of escaped data gives the data
(`EscapeGood`), that neither SOF nor EOF occurs unescaped in it, and that the
checksum at the end is the one the decoder has summed. `NoFetchInTrailer` says
that `get` never finds such an attempt in its trailer, because a read would have
ended there; this is what the stale `data_end` needs. And an attempt in a
`Missed` frame that succeeds would be a frame inside a frame.

**MUP1 checksums** (`ChecksumProofs`), for every sequence of bytes.

* `InternetChecksum`: `InetIsRfc1071`. The invariant (`InetInv`) says that the
  accumulator is the sum of the 16-bit words of the bytes fed, the last one filled
  up, that `pos` is even exactly between two words, and how large the sum can be
  by then. A byte at an even position is the high half of a new word (`EvenByte`),
  one at an odd position the low half of the last one (`OddByte`); folding twice
  leaves the residue and no carry for every number of 32 bits (`FoldTwice`); four
  digits spell a number (`HexFour`). The bound on the number of bytes
  (`MaxFedAssumption`) is where the `u32` could overflow.
* `CrcDigits`: `DigitsDecode`, for every word of 32 bits. The seven bits of a digit
  are found again in it (`DigitBits`), the table of digits is injective
  (`EncodedDigit`), and five steps of `base128_decode` put every bit back in its
  place (`Decodes`).
* `CrcLeavesResidue`: `CrcResidue`. When a CRC is fed the bytes of its own
  complement, the part that came from the bytes before is shifted out without ever
  taking part in an index into the table (`OwnByteStep`). What remains is the same
  for every CRC and is computed by the proof: four entries of the table
  (`Entry1` to `Entry4`) and how they add up (`FedFour`).

**CoAP messages** (`CoapMessageProofs`).

* `ParseTypes` and `ParseIsSafe`: for every string of bytes, `parse` stays inside
  its message, decodes into the widths of its fields, and accepts only what
  header, options and payload cover to the last byte.
* `RequestsRoundTrip`: `RoundTrip`, for every request: any number of path and
  query segments, values of any length up to 65535, every content format, both
  blocks, every payload. The invariant (`RoundInv`) says that `parse` stands
  behind the k-th of the options that were written, at the place the writer gave
  it (`FlattenLayout`: where the parts of a concatenation are), and knows what
  the first k options say. Its lemmas are what the encoders promise: a header of
  an option is read back in each of its three forms for number and length,
  integers of 0 to 4 bytes are read back, options come in ascending order.

**The CoAP client** (`CoapClientProofs`, `CoapExchangeProofs`).

* `UploadStaysInRange` and `ClientTypes`: against any device, for any body, block
  sizes, number of requests and retransmissions and width of the message id,
  every block starts inside the body and `send_frame` does not panic. The
  invariant adds that replies on their way are replies, and that a request is in
  progress outside `idle`. The core is `NextBlock1Good`: the guard of
  `process_response` computes the offset that `send_frame` will use.
* `UploadHasNoGaps`, `AnswersAreWhole`, `RequestKeepsPromise`:
  `UploadContiguous`, `AnswerIntact`, and the refinement `Promise`, for any
  number of requests, bodies, answers, block sizes, losses and retransmissions.
  `ExchangeInv` says that client, line and device agree. Stale messages of
  earlier requests and copies of the current one share the line, so it is
  described as a whole (`Line`): messages with one id follow one another, copies
  of the current message are equal, and whatever is behind a message that the
  device has not handled starts a later request. The device is prepared for each
  message that it has not handled (`Ready`); its reply to the current one says
  what it has done (`Handled`); and the client has received the answer up to the
  block that it asks for (`Downloaded`). Every request was carried out at most
  once, with its whole body (`Executions`).

  Two hypotheses say what the code relies on. `MaxBatch = 1`: a poll hands over
  one reply; with two, `coap_dupack` shows `AnswerIntact` violated. `EnoughIds`:
  a new message id is not still on the line or in the device's memory. The
  client takes ids in turn from an arbitrary first one and wraps around, so that
  holds as long as a process takes fewer ids than there are. The proof counts
  them (`IdsInv`): at most one per request, per unit of a body and per unit of
  an answer. In the code that is a megabyte of data per run of fercc, with the
  smallest blocks; in the run `coap_promise`, 12 of 16 ids.

**The catalog cache** (`CatalogCacheProofs`).

* `CacheIsWhole` and `LoadsAreWhole`: for runs that do not overlap, any number
  of them and of files and mirrors. The invariant adds that one run is active,
  that a run which downloads has seen no marker and there is still none, that
  the files before `next` are whole and the open one is its own, and that what a
  loading run has read and what it has left is everything.
* `OverlapLeavesNoGaps`: runs that do overlap may leave a marked cache with a
  file cut short (`catalog_overlap`), but never one with a file missing, because
  no step removes a file and a run marks the cache only when each one is there.

**How data is inducted over.** What a fold computes is proved in `FoldTheorems`
by induction on the length of the sequence, with the property given as a set of
natural numbers (`SetInduction`), since the library's induction theorems have an
operator as a parameter. `FoldEmpty` and `FoldAppend` characterise a fold,
`FoldType` gives its type, and `FlattenLayout` the places of the parts of a
concatenation; `FlattenSeq` of a sequence in two parts is the two results joined.
The operator is a constant of the module: `Mup1FrameProofs` instantiates it with
the checksum and with the undoing of escapes, `ChecksumProofs` with addition, with
the reading of digits and with `CrcUpdate`, `CoapMessageProofs` and
`Mup1ClientProofs` with concatenation.

**Only model-checked.**

* Liveness, `StallRecovered` and `RequestReturns`: the prover has no fairness or
  ENABLED.
* `Cbor`, `Base64`, `Fercc` and the YANG modules. They are recursive by nature
  (values, statements and nodes are trees), which the prover does not reach, and
  what they compute is only checked on the instances above.

## What is not modelled, and what is next

Not modelled: opening ports and sockets, option parsing, printing, reading and
writing files, the workspace catalog and `ui-tailoring.yaml` (I/O without a
protocol); the text of `.yang` and `.sid` files and of paths (`parser.rs`,
`sid.rs`: tokens and grammar, with nothing that depends on order or state);
decimal64; descriptions, defaults, units, statuses and titles, which are copied;
a device that never ends an answer.

What would come next: the passes of `Schema::build` as actions on smaller tables,
so that properties of them which need no recursion could be proved; and the line
below `poll`, if `data_end` is corrected in the code, without `~SplitTrailer`.
