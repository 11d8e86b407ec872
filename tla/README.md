# TLA+ models of the SunSpec tool

`suns` reads SunSpec devices (inverters, meters, weather stations) over Modbus,
decodes their registers with data models loaded from files, and prints them as
text, CSV, XML or SQL. The same binary can play a device (`-s`), or receive the
XML uploads of data loggers and answer them (`-H`); a second program,
`suns_host_test`, reads such an upload and stores it in SQLite. All paths below
are relative to the repository; line numbers are those of the modelled commit.

This directory holds TLA+ models of it, TLC configurations that check them on
small instances, and theorems with proofs for TLAPS.

    tlc -config ReadDevice.cfg MCReadDevice      # model-check one run
    tlapm ReadDeviceProofs.tla                   # check the proofs of a module

`PROJECT.json` lists the runs, maps each definition to the lines it models, and
records hazards, findings and theorems.

## 1. Inventory

| Component | Source | State | Operations | Modules |
|---|---|---|---|---|
| Client | `src/suns_app.c` 454-956 | libmodbus context, `regs[]`, `buf[]`, `base_register`, `offset`, three `found_` flags, `device->datasets` | find the signature, read headers and blocks in chunks, final checks, print | `SunspecDevice`, `DeviceScan`, `ReadDevice` |
| Layout and decoding | `src/suns_model.c` | models, dp blocks, points with offsets; datasets of values | fill offsets, decode data / dp block, resolve scale factors | `SunsTypes`, `BlockDecode` |
| Datapoint values | `src/suns_model.c`, `src/suns_output.c`, `lib/trx/string.c` | a value; the state of the number parser | registers to value, value to text, text to value | `DecimalText`, `ValueText`, `LoggedValues` |
| Timestamps | `lib/trx/date.c` | the state of the date parser | write, parse RFC 3339 | `Timestamps` |
| Test server | `src/suns_app.c` 321-451, `src/suns_lang.y` 337-575 | register mapping of 4096 words, sockets | build the mapping from data blocks, listen, accept, answer | `DataBlocks`, `TestServer` |
| Model loading | `src/suns_parser.c`, `src/suns_lang.y/.l`, `src/suns_app.c` 956-1112 | `sps`: model list, did list, defines, test data; the scanner's buffer | search path, parse slang and XML files, strings, check, export | `ModelText`, `ModelFiles` |
| Command line, `main()` | `src/suns_app.c` 66-292, 775-901 | `app` | parse options, order the modes | `ModelFiles` |
| Logger host | `src/suns_host_parser.c`, `src/suns_host.c` | devices, result with a list of device failures | parse an upload device by device; write the response | `HostUpload` |
| SQLite store | `src/suns_output_sqlite.c`, `src/suns_host_test.c` | transaction, rows | store one device | `DeviceStore` |
| Other output | `src/suns_output.c` | none | text, CSV, SQL layout | |
| trx | `lib/trx/list.c`, `buffer.c` | lists, buffers | append, walk | |
| Outside | libmodbus, SQLite, ezxml (vendored) | | | |

How they interact. `suns` is one process with one thread; its `main()` loads
the models while it parses its options or from the search path, fills the
offsets, then takes exactly one of the modes: check, export the models, host a
logger upload, serve test data, or read a device. The client and
the decoder share the did list and the byte image `buf[]`; the client talks to
the device through `modbus_read_registers()` only, which may take until its
response timeout, and fail. The test server reads the data blocks the parser left
behind. The client's log (XML output) is what the logger host parses, and
both produce the same `suns_device_t`, which the output consumes and, in
`suns_host_test`, the store.

What is hard in it, and what correctness means:

* *Client.* Any read may fail or be refused at any time; one buffer is reused
  for all reads; a dataset's number is revised after it was attached; the verdict
  depends on flags set in different turns of a loop that the device controls.
  Correct: everything printed is what the device holds, all or nothing;
  a good device is never refused unless the line failed; the loop ends.
* *Layout and decoding.* Two accounts of where a point lies, offsets in
  registers made at load time and a byte count made at decode time; variable
  numbers of records; devices shorter or longer than their model; scale factors
  found by name after the fact. Correct: the accounts agree, no byte is read
  twice or from outside, complete records and nothing else, each value its own
  scale factor.
* *Values and timestamps.* Digits are moved about to apply a scale factor;
  numbers and dates are parsed character by character by state machines.
  Correct: what is written denotes the value, what is read back is the value,
  the parsers' loops end.
* *Test server.* Clients come, ask and go in any order, and one is served at a
  time; bytes are paired into registers. Correct: what a client reads is
  what the file says; no client keeps the server from the next.
* *Model loading.* First match of a did wins, slang files are read before XML
  files, errors in one file do not stop the rest, strings may come before their
  model. Correct: which definition wins depends on the documented order only;
  whatever a did leads to is ready for use; what is exported loads again.
* *Logger host.* A failing device must not lose the others and must be in the
  response; the exit code must tell. *SQLite store.* A device is stored whole or
  not at all.

## 2. Plan

Most important behaviour first. Done: the client (`ReadDevice` and its abstract
specification `DeviceScan`), decoding, test server, model loading with `main()`,
values, timestamps, logger host, store with its abstract specification
`StoredDevices`; proofs of all safety properties of client, decoding, values, timestamps, logger
host, store and test server, and of the model loading up to strings and exports.

Left, in this order:

1. `StringsReachTheirModel` as a theorem. It needs more of the parser state than
   `Grows` keeps: which label a point has, and from which file.
2. The composition of `DeviceStore` with `HostUpload` as in `suns_host_test.c`.
3. A device that changes while it is read, if a property of the code is found that
   speaks of it.

## 3. The modules

### SunspecDevice, DeviceScan, ReadDevice

`SunspecDevice` describes the device, which is outside the repository: what the
four search registers answer, the words by offset from the signature, and where
the headers are. A device may be wrong in every way the client can notice: no
signature, no end marker, a 0 did, a block that runs off its registers,
no common model or one in the wrong place. `IsDevice` only says that the
chain is where the headers put it and that no announced block exceeds the
client's buffer (`FitsBuffer`, section 6).

`DeviceScan` is the promise: one step from "scanning" to "success" with the
whole scan of a well-formed device as output, or to "failure" with no output.

`ReadDevice` is `suns_app_read_device()` with `suns_app_read_registers()`,
`suns_model_get_did_index()`, `suns_device_add_dataset()` and the end of
`main()`. One action is one call of `modbus_read_registers()` with all code up to
the next call, so each place where the line can fail is a state of its own.

| Variables | C |
|---|---|
| `pc` | where control is: the search loop, header read, chunk read, final checks, returned, exited |
| `i`, `retries`, `base_register`, `offset`, `model_count`, `len`, `reg_offset`, `regs`, `found_...`, `rc` | the locals of the same name (`i` counts from 1; `base_register` is the index of the register found) |
| `did` | the did of the block if `suns_find_did()` found its model |
| `datasets` | `device->datasets`; a dataset keeps the words it was decoded from instead of the values |
| `printed`, `status` | what `main()` hands to `suns_device_output()`, and its exit status |
| `gave_up` | history variable: some read used all its attempts |

| Actions | C |
|---|---|
| `SearchRead`, `SearchIllegal`, `SearchGiveUp` | 581-626: an answer, the illegal-address shortcut, out of attempts |
| `ReadFails`, `GiveUp` | the retry loops at 584, 635 and 933 |
| `ReadEndMarker`, `ReadZeroDid`, `ReadHeader` | 653-702 |
| `ReadChunk`, `ReadLastChunk` | 918-954; the last chunk also decodes, numbers and attaches the dataset (704-749) |
| `FinalChecks`, `Exit` | 751-764; 891-900 |

An address the device does not have never succeeds; any other read may
succeed or fail. In `GiveUp` the code's `rc = -1; break` leads to the checks at
751, as every other way out of the loop does. The loops make `-r` attempts in all,
where the help text speaks of retries; the model does what the code does.

Abstracted: the decoded values (they are `BlockDecode`'s), the warning about
unexpected lengths (685-693, prints only) and the copies of the manufacturer,
model and serial number strings made when a common model is attached.

### SunsTypes, BlockDecode

A model's life up to a decoded dataset, for one model: `FillPoint` and
`FillBlock` are the two loops of `suns_model_fill_offsets()` (at load time);
`DecodeData` is the arrival of a block of any length up to `MaxLen`; `EnterBlock`,
`DecodePoint`, `NextRepetition`, `PointMissing` and `BlockDone` are
`suns_decode_dp_block()` for each block of the model, with the loop and the
overrun test of `suns_decode_data()` in `ReturnFromBlock`; `Resolve`,
`ResolveBails`, `ResolvePasses` and `Resolved` are
`suns_resolve_scale_factors()`. One action is one turn of a loop.

Units are the source's: `offset`, `block_len`, `base_len`, `len` are registers,
`limit`, `taken`, `byte_offset` bytes. `limit` is the `len` parameter of
`suns_decode_dp_block()`, `taken` its `byte_offset`. A value keeps where it was
decoded from and where its scale factor comes from, not its bits; the only
property of the bits that matters to the control is whether a scale factor is
"not implemented", which is chosen freely. `len` and `base_len` are 16 bits wide.

Three things the decoder does differently from what one would expect are in
the model and excluded from its properties by their preconditions: a model whose
points are given offsets out of order (`smdx_64020.xml` lists `ProbeTmp` before
`MainTmp`; the decoder takes points in file order); a device with fewer registers than the
fixed part (what remains is decoded as a record of the repeating block); scale
factors inside records (the first value of a name serves all records).

### DecimalText, ValueText, LoggedValues

`ValueText` has the pure functions: widths and "not implemented" patterns of
the integer types, `ScaledText` (`_suns_snprintf_int_sf()`: digits and a point moved
by the scale factor, scientific notation beyond a number of digits), `XmlText`,
`SfText` (the function tables of the two outputs), `ScanSigned` and
`ScanUnsigned` (sscanf), and, as reference, what a decimal text denotes.
`LoggedValues` is one value on its way: `BufToValue`, `TextOutput` or
`XmlOutput` at the client; `Upload`; the turns of the loop of
`string_decompose_decimal()` (`Sign`, `Digit`, `Point`, `Exponent`, `OtherChar`,
`EndOfText`); `Convert`, the rest of `suns_string_to_value()` and of
`suns_host_parse_datapoint()`.

A 16 bit type has `Bits` = 2 bits, so 32 and 64 bit types have 4 and 8, and every
value of each is checked; `MaxDigits` = 3 takes the place of 16. `Stale` is what
the client's text buffer held before: the scientific format does not terminate
the text when the exponent is 0 (`Unended`; section 7). Floating point numbers, strings and IPv6
addresses are left out.

What the source does and the properties therefore exclude: uint64 values are
printed as signed; a text with an exponent or a fraction is converted by "%d" of the whole
text, so that an uploaded 12.5 is stored as 12; pads, IPv4 addresses and acc64
values that the client logs are refused or lost by the host; a sign in the
middle of a number keeps the loop from ending.

### Timestamps

`XmlOutput` writes the client's time; `Upload` chooses a text; the actions named
after characters are the branches of the state machine of
`date_parse_rfc3339_tm()`; `DeviceTime` and `DatapointTime` are the two callers.
The C library's calendar is simplified to months of 31 days, which the parser,
that does no arithmetic with dates, cannot tell. The host's zone is a
constant of a behaviour.

Excluded from the properties, since the code does it: a fraction before a zone with
"-" is refused; each field lets one digit too many through; what `date_snprintf`
writes with microseconds has them, unpadded, behind the zone (the client's own time
has none). Of a datapoint's timestamp only the fraction is kept
(`suns_host_parser.c:319`).

### DataBlocks, TestServer

`DataBlocks` is what the grammar makes of literals (types, signs, string lengths, the
growth of the buffer), and of a block captured by the client at `-vvv`.
`TestServer`: `InitModbus`, `FillMap` (354-396, with the stale byte behind an odd block
and the copy beyond the mapping, undefined behaviour with two outcomes), `Listen`,
`Accept`, `Receive`, `Reply` and their failures, with the clients' `Connect`,
`Ask`, `Take`, `TimesOut` and `Disconnect` at any moment in between. `sent` is the
request on its way, `asked` the one the client waits on: they differ after the
client has gone and come back. No socket is ever closed (410), so `sockets`
only grows and the server ends, if not before, with the last descriptor: accepting may
fail at any time, for whatever reason. A failure to listen is returned as the rc of an
earlier success (404); no document says what the exit status should tell, so no property
speaks of it.

A literal has a type, "bare" without one, and a token; a string takes its declared
length whatever type stands before it, and the other tokens make a value only for the
types listed for them. The value of a type that the token does not take has no bytes.

`IsReadableDevice` composes the server with the client's module: what it serves
is a device in the sense of `SunspecDevice!IsDevice`, for which `ReadDevice`
has its properties.

### ModelText, ModelFiles

`ModelText`: items of a slang file and elements of an XML file, what one
`yyparse()` or `suns_parse_xml_model_file()` does to the global parser state, the
consistency check, the offsets, and both exports. `ModelFiles`: `OptFile`, `OptDir`,
`OptCheck`, `OptExport`, `OptError`, `OptHelp` are the options in the order they
are met; `SearchPath`, `LoadSlang`, `LoadXml` the search, a file at a time;
`CheckModels`, `FillModels`, `Export` and `Work` the order of `main()`.

The parser is a global with two memories that matter: `sps`, and the scanner's buffer
(`leftover`), which after an error keeps the rest of the file and is parsed
before anything of the file opened next. A file is taken to fit in that buffer. Words
are atoms; points keep name, type, offset, length, scale factor, units and label.
Export formats other than slang and xml (csv) are one value, whose text is not modelled.
The XML export escapes nothing, so what is loaded again is not the words written but what
ezxml reads of them (`ReadBack`): the constant `Markup` says, for each word with a "<" or
an "&" among the inputs, how it reads in text and in an attribute, and whether the parser
stops there.
`IsFile` and `IsRun` say what the grammar, the XML reader and the options leave possible:
they are assumptions on the constants `Files` and `Runs`.

### HostUpload

`suns -H`: one action per XML element. `RejectUpload` and `AcceptRoot` are the
tests at the root (`suns_host_parser.c` 36-97); `BeginDevice`, `RejectDevice`,
`EndDevice` and `EndUpload` the loop over `d` elements (100-198); `BeginModel`,
`RejectModel`, `EndModel` the `m` elements; `AddPoint` and `RejectPoint` the `p`
elements. `FailDevice` is what each rejection does to the failure record, the
result and the loop. `Respond`, `AddResult`, `CutResults`, `EndResults` are
`suns_host_result_xml()` (`suns_host.c` 227-321), `Output` the rest of
`suns_app_logger_host()` and the exit. An element is its position and the first
thing wrong with it; the text of attributes and values is abstracted here and the
subject of the two modules above. A device rejected for an attribute or its
timestamp has no status in its failure record, and writing it ends the list of
failures (`CutResults`): the failures behind it are not listed, and the program
fails. A `p` element without an `id` attribute, for which the code compares
with a null pointer, is not among the inputs.

### DeviceStore

The loop of `suns_host_test.c` over `suns_output_sqlite_device()`: one action per
SQL statement. `in_txn`, `journal` and `db` are SQLite's: whether a transaction is
open, what it has inserted, what is committed. Every statement may fail and may
take the transaction with it (SQLite rolls back by itself on some errors), and the
process may die before any statement. `BindIndex` is line 467, where the integer
index of a dataset is passed as a string: 0 is a null pointer and stored as NULL,
any other number is an address the process dies on. After a failed device row,
`suns_output_sqlite_device()` finalizes a statement a second time, which is
undefined; the model lets it go unnoticed or be a `Crash`.

`StoredDevices` is what an upload may count on in spite of all that: a device gets its
rows in one step, up to some row in the order they are written, and never others; a
device already stored is not touched again; and where success is reported, all of its
rows are there.

### Model-checking and proof modules

`MC...` modules give each constant its small instance. Operators marked "Slip" beside a
definition are wrong variants of it, used to confirm that a property notices that
mistake; no specification uses them. `ReadDeviceProofs`, `BlockDecodeProofs`,
`LoggedTextProofs`, `HostUploadProofs`, `DeviceStoreProofs`, `TestServerProofs` and
`ModelFilesProofs` hold the theorems, `LeastElement` the lemmas that replace induction
in them: least and greatest numbers, and the equations of recursive functions, whether
they count up to a bound (`Recursion`) or go down by any measure (`Descent`).

## 4. The runs

| Run | Shows |
|---|---|
| `read_device` | `TypeOK`: the chunks of a block end where it does. `DatasetsFaithful`: the datasets are the known blocks read so far, once each, in order, word for word. `DatasetsNumbered`: (did, index) identifies a dataset. `FailureHasCause`: a good device is refused only after a read ran out of attempts. `DatasetsOnlyGrow`: an attached dataset is never changed but for its number. `AllOrNothing`: `ReadDevice` implements `DeviceScan`. `Terminates`: the program always exits. |
| `block_decode` | `DecodedInPlace`: the decoder takes each point from where the offset pass put it. `CompleteRecords`: all complete records and no part of another. `WithinBlock`, `EveryByteOnce`: nothing from outside the data, nothing twice, for short devices too. `ScaledByName`: scale factors are the named ones, and none is missed after a complete pass. `Decodes`: it ends. |
| `block_decode_unsigned` | violated: see findings. |
| `logged_values` | `PrintedExactly`: the text of a scaled integer denotes it to the last digit, in every form but scientific notation with the exponent 0. `LogKeepsValue`: what the host stores of a logged value has its bits, scale factor and state. `DecomposesNumbers`: every decimal number is taken apart rightly, and the loop ends. |
| `timestamps` | `InstantKept`: an accepted timestamp gives its instant (less the host's zone) and its fraction. `Rfc3339Accepted`: every timestamp of RFC 3339 is accepted, but for the exception above. |
| `timestamps_in_zone` | violated: see findings. |
| `test_server` | `ServedAsWritten`: an answer is to the client's own question and holds the literals, register for register. `IsReadableDevice`: see above. `Accepted`, `Answered`: no connection waits for ever but by its own fault. |
| `model_files` | `WhoWins`: a did belongs to the first file that declares it, file by file and language by language; only a slang file with an error may disturb that, and only behind it. `IndexedIsReady`: whatever a did leads to has its offsets, filled in once. `StringsReachTheirModel`. `ExportReloads`: an export loads again to the same layout, scale factors, units and labels, in XML all but the models that an unescaped word harms: its own, and those behind a word at which the reader stops. |
| `model_files_after_error` | violated: see findings. |
| `host_upload` | `EveryDeviceDecided`: after the parse each device is accepted or failed, once and in order. `DevicesComplete`: an accepted device has all its models and points. `ResponseHonest`: the program exits with success only if the response names every failed device, and answers SUCCESS only if there is none. `Ends`. |
| `device_store` | `NoOrphans`: no committed row lacks a row written before it. `ReportsTrue`: a device reported as stored is, and without failures all are. `OneDeviceAtATime`: a commit holds rows of one device only. `InOneStepEach`: `DeviceStore` implements `StoredDevices`. |
| `device_store_whole` | violated: see findings. |

`TypeOK` is checked wherever it says more than the types.

Bounds. *Client*: `MaxBlocks` = 4 blocks of three kinds are enough for a did that
repeats next to itself, apart, and three times, with an unknown block between; four
tails and four arrangements of the search registers cover every way in and out of the
loop. `MaxRead` = 3 makes blocks that are one read, several with a shorter last one, and
shorter than one. `Retries` = 2 is one failure followed by success or by giving up; the
code treats further attempts alike. `RegsSize` = 7 is exactly the longest block, so a
chunk one register too long shows. *Decoding*: `MaxLen` = 12 registers is more than each
model's fixed part plus two records, or twice its length; the nine models stand for the
forms in `models/smdx/`. *Values*: all values of all types, of up to three digits and a
sign, with scale factors from -3 to 2: `MaxDigits` = 3 gives numbers of two and three
digits a point before, among and after their digits, and leaves scientific notation with
negative, zero and positive exponents. All texts of up to three of the characters that
the parser tells apart, and longer numbers with point and exponent.
*Timestamps*: every combination of some dates, times, fractions and zones, every prefix
of one and every change of one character in it. *Server*: two clients and a backlog of
one let one client be served, one wait and come back; four descriptors are a listening
socket and three connections, so a client comes twice. A map of 28 registers and a
buffer of 8 bytes are both overrun by some of the eleven lists of data blocks. *Model
files*: selections of up to four of the files, which have two declarations of the same
did, an error, strings without models and models without names; two directories in both
orders; options in several orders, a file named in both languages among them. *Logger
host*: three devices put a fault before, between and after good ones; each kind of fault
occurs behind good elements. *Store*: two devices are one that fails and one that meets
what it left behind; two datasets with up to two values have a failure at the first, a
later and the last row of each level.

Deadlock is checked in all runs; a finished program stutters explicitly
(`Terminated`, `Finished`, `Ended`, `Quiet`).

Fairness. `WF_vars(Next)` in `ReadDevice`, `BlockDecode` and `HostUpload`, and
`WF_vars(ParseStep)` in `LoggedValues` and `Timestamps`: each is one sequential
thread that is never blocked for good. For the client this rests on
libmodbus, which returns from every request after the response timeout that
`suns_init_modbus()` sets (`src/suns_app.c:506-510`). No fairness is assumed of
the device: reads may fail for ever, and termination follows from the attempt
counter and the finite address space. In `TestServer` the server takes every step that
is due (`WF_vars(Due)`): its calls return when there is a connection or a request to be
had, with it or with a failure, but they may wait while there is none, and need not
fail then. A client takes an answer that has come and gives up a serial
request that was dropped (weak fairness, the library's timeout), and disconnects if
it is again and again done (strong fairness: the suns client reads one device and
exits). Without the last, one client that stays connected keeps all others out for
ever, as the code lets it.

## 5. What is proved

For every value of the constants, under the assumptions named.

`ReadDeviceProofs` (`ConstantsAssumption`: devices satisfy `IsDevice`, known dids
are without 0): `Invariant`; `TypeCorrect`, `FaithfulCollection`,
`UniqueNumbering`, `NoSpuriousFailure`, the invariants of `read_device`;
`CollectionOnlyGrows`, its action property; `Refinement`: `Spec => Scan!Spec`.

The properties are not inductive. `DatasetsFaithful`, for one, says nothing of
`regs[]`, so a last chunk could attach anything. `IInv` therefore adds: the
offset is the start of some block of the chain while control is in the loop; the first
`reg_offset` registers of the buffer are those of the current block and its header
agrees with `len` and `did`; a common model was
found first iff a header was read and block 1 is a known common model; the end marker
was found only at the end of the chain; a
search register that answers the signature is passed over only after giving up
on it; and flags, return code and exit status hang together. Two groups of lemmas carry
the rest. Block starts increase strictly along a
chain, so that "the blocks below the offset" grows by exactly one when a block has
been read; this needs an induction, for which `LeastElement` derives
from the library's well-foundedness of `<` that nonempty sets of naturals have a
least (and bounded ones a greatest) element. And appending with
`AddDataset` keeps a numbering correct: the tail shortcut finds the same
dataset as the search, and that dataset carries the number of its predecessors.

`BlockDecodeProofs` (`ModelsAssumption`: models are sequences of blocks of points, no
block is empty, none that repeats takes zero registers): `TypeCorrect`,
`NeverBeyondTheBlock`, `NoByteTwice`, `ScaledCorrectly`, four of the invariants of
`block_decode`. What makes them inductive: a block is entered with a limit of
exactly the bytes that are left and never takes more, so the sum of what the blocks
take stays within the data; the last value ends where the decoder stands
(`End`); before the scale factors are looked for all of them are unresolved, and
resolving changes nothing else of a value, so that a name finds the same value from
first to last. The repetitions are a quotient by the length of the block: `Divisible`
says that a repeating block has registers once its layout is filled in, which rests on
`CountedSoFar`, the offset being positive behind the first point that counts.

Its second part proves `Placed`, `SameLayout` and `AllRecords`, the other two invariants
of `block_decode`. Offsets are made by one loop, in registers, and never looked at
by the other, in bytes. `Place` says where the layout puts a point: the sum of the lengths
before it, a recursive function whose equations `LeastElement!Recursion`
supplies. `PlaceInv` then says that the length counted so far is the place behind the last
point; that the decoder's cursor is twice the register of the point it is
about to take; and that the values of a block are those before the cursor, one for
each point of each repetition begun. `Regular` is the condition on a model: the offsets
its file gives, if any, are those the decoder arrives at anyway, and its fixed part has
less than 2^16 registers, since `len` and `base_len` wrap otherwise.
`AllRecords` comes from the number of repetitions, a quotient that the data of the last
record make exact.

`LoggedTextProofs`, about what is written and read as text: `TextIsExact` and `LogIsKept`,
the safety invariants of `logged_values` (`BitsAssumption`: a type has a positive number of
bits; `ScalesAssumption`: scale factors are integers), and `InstantIsKept`, that of
`timestamps` (`TimesAssumption`: no time is before 1970, zones are integers;
`TextsAssumption`: an uploaded text is a sequence of characters). `Timestamps` is an
instance in this module, named `Stamps`, so its two assumptions are the hypothesis
`StampParameters` of the theorem. All three rest on one fact: the digits that `NatText`
makes of a number are read as that number by `NatOf` (`NatTextRead`). `Descent` gives the
equations of the functions that divide by ten or count down, `Recursion` those of `NatOf`,
which goes along a text.

* *Timestamps.* `Parts(text, q)` is the anatomy of an RFC 3339 timestamp whose fraction
  ends before `q`: where each field begins and ends, and which are there. `Progress(q)`
  says where the parser is in it: in the field that its state names, whose characters it
  has copied so far; the fields before it are their numbers, the zone is zero
  until it is read. A field ends exactly where its part does, so that no character is
  refused and the numbers at the end are those that the reference reads
  (`SameTime`). `WrittenParts` shows that what the client writes is such a text.
* *Logged values.* The text that the client logs is an integer, so the number parser is
  only ever in the states START, BASE and END. What it copies is scanned back to the
  number (`IntTextScanned`), and the conversions to a type's width and sign undo those
  made when it was read from the registers (`Remainders`, `SignedBack`, `ConvertedBack`).
  The `sf` attribute is left out only where the scale factor is 0, and then the point's
  own, which the host falls back to, is 0 too.
* *Printed values.* `PrintedExactly` is about texts that are decimal numbers
  (`PrintedAsNumber`: not bit fields, addresses, nor uint64 values with the top bit, which
  are printed with a sign), and excepts `Unended`, where the code fails. A text has one of
  five forms: digits; digits and zeros; digits with
  a point among them; "0." with zeros and digits; scientific notation. For each,
  `FirstFound` takes it apart at its point and its exponent, and the reference
  adds up: a zero more at the end is one power of ten less (`DecimalTimes`,
  `TrailingZerosDenote`), zeros in front change nothing (`LeadingZeros`), and the exponent
  makes up for the moved point (`ScientificDenotes`, `FractionDenotes`, `ZerosDenote`).
  This holds for every number of digits at which scientific notation begins, so also
  for the program's 16.

`HostUploadProofs` (`UploadsAssumption`: uploads are trees of elements):
`TypeCorrect`, `DevicesDecided`, `AcceptedWhole`, `RespondsTruly`, all the
invariants of `host_upload`. `EveryDeviceDecided` speaks only of the time after
the parse; inductive is that the devices *passed* (before the cursor) are split between
the two lists by whether their element is good. For a device to be good when its
loop ends, `BuildingInv` says that the models and points before the cursors are, and
that one dataset per model and one value per point is attached; a rejection, at
whatever level, refutes `Good` of the element. For the response, `Lists(n)` says
that it is the status followed by exactly the pairs of the first n failures,
which `ResponseHonest` needs to exclude a `dResult` elsewhere.

`DeviceStoreProofs` (`UploadsAssumption`): `TypeCorrect`, `RowsHaveParents`,
`ReportedTruly`, `CommitsOneDevice` and `Refinement` (`Spec => InOneStepEach`, that is
`StoredDevices`), all properties of `device_store`. The argument: while
rows are inserted the journal is exactly the rows before the cursor, so that it
is closed under "written before" at every place where the loop may be left; a
transaction that a failed device row leaves open is empty, and no later BEGIN succeeds
behind it, so that it is never committed with another device's rows; what is
committed belongs to devices below the cursor. For the refinement, every step that
leaves the committed rows alone is a stutter of `StoredDevices`, and the two that commit
add the rows before the cursor, which are closed under "written before", to a device
that had none.

`TestServerProofs` (`BufferSizeAssumption`: the parser's buffer takes a value of the
widest type; `LiteralsAssumption`: literals are what the scanner returns;
`ServerAssumption`, `BlocksAssumption`): `TypeCorrect`, `AnswersServe`, `ServesDevice`,
all invariants of `test_server`, for every map size, backlog, number of
clients, descriptors and data blocks. Two parts. The state machine: `IInv` says that the
map is filled once anybody can ask; that a connection is in one place at most, waiting
or served, and not both; and that a question is on its way, in the server's buffer,
answered, or lost with its connection, never two of these (`LinkInv`), without which an
answer could be taken for the answer to a later question. The data: two accounts of a
data block, the bytes that the parser appends to a buffer that grows and the map loop
pairs into registers, and the registers each literal stands for. The lemmas go from
bytes to words (`PairsOfNumber`), literals (`SupportedLiteral`), blocks (`BlockServed`:
an even number of bytes each, so no pair crosses two literals) to the whole map
(`ImageWritten`, `MapHolds`); `Flatten` gives a concatenation as the last of its runs,
by `LeastElement!Recursion`. For `ServesDevice`, `MapLaid` finds each block and the end
marker in the map and `DeviceLaid` follows the headers. A data block that is itself an
end marker is excluded by `Announced`: the client would stop there.

`ModelFilesProofs` (`FilesAssumption`: files hold what the grammar and the XML reader
take; `RunsAssumption`: options are those of the program, a directory has a file once):
`TypeCorrect`, `FirstWins`, `ModelsReady`, three of the invariants of `model_files`, for
every command line, search path, directory and file. `WhoWins` speaks of the end of the
loading, and of places: a source (an option, or a directory of the path), a language, an
entry. `IInv` says how far the loading has come (`Loading`): the files in `todo` stand
at places of the current source that increase (`Plan`), all other places of it come
before them, so that a place is `Done` or not; every model in the state is of a file
with a place done; each did declared at a place done already leads where it should; and
if anything waits in the scanner, a slang file with an error stands at a place done,
which is what `Spoilt` excludes. Reading a file keeps this because the parser only
appends (`Grows`): a did that was known keeps its first entry, and a new one leads to a
model of this file (`NextLoaded`). `Grows` is proved for each rule of the grammar and
each XML element, then along elements, items and files by the equations of the recursive
functions (`ElementsSteps`, `ParseSteps`, ...). `DirPlanned` shows that the two passes
of `suns_app_model_search_dir()` give the entries of a directory in the order of their
places. For `ModelsReady`, `Indexed` (every did leads to a model of the list) is kept by
all but broken blocks, and `FillOffsetsFills` and `PointsLaid` say what filling does to
points.

Only model-checked: everything under fairness (`Terminates`, `Decodes`, `Ends`,
`Accepted`, `Answered`, `DecomposesNumbers`, `Rfc3339Accepted`), since liveness is out
of the prover's reach, and `StringsReachTheirModel` (see the plan) and `ExportReloads` of
`ModelFiles`. An export is written and loaded again by functions that recurse over the
models, and that the one undoes the other needs an induction over what they hold, which
the provers cannot be given; the induction that the texts above needed is one
over numbers (a length, an exponent) and goes through `LeastElement`.

## 6. Assumptions and what is not modelled

* `FitsBuffer`: no device announces more than `regs[1024]` takes. The source has
  no test for it (`suns_app.c:560`, 704); the models take it as a fact about devices, and
  nothing here shows that the buffer is never overrun. `TypeCorrect` of
  `ReadDeviceProofs` says that the chunks of a block stay within the block.
* The device does not change while it is read. Header and block are read
  separately, and long blocks in chunks, so a device that updates in between can
  tear values; this hazard is listed, not modelled. Late replies on a serial line are
  libmodbus's and not modelled either.
* `-l` is at least 1, model files have no did 0 and no string of negative length, no
  repeating block takes zero registers, every block has a point: true of all files in
  `models/`.
* Names of models, labels and units that hold a quote, a "<" before a letter, "/", "!" or
  "?", or a "--" are not among the words: written unescaped they begin or end elements, attributes
  and comments of their own. `ExportReloads` says nothing of them. Words with an entity, or with
  a "<" before a blank or a digit, are among them.
* Times are not before 1970 and texts from outside are sequences of characters.
* Fixed buffers of the text parsers (`BUFFER_SIZE`) are taken to be large enough,
  and memory exhaustion is not modelled.
* trx lists and buffers are sequences: the tool only appends and walks. Sorting,
  splitting and the ring use of buffers are called from the library's own tests alone.
* Output as CSV, SQL and text is wording and layout, except for the
  numbers in it. `suns_read_sqlite.c` is unfinished in the source, ezxml is
  third-party, and the hardware trial programs (`fst_basic.c`, `bits.c`, ...) and
  the Python scripts are not part of the tool. RFC 822 dates have no caller.

## 7. Findings

Places where a run contradicts what the repository says; each is a
violation run with its counterexample.

* **uint32 is not numeric** (`block_decode_unsigned`). `suns_type_is_numeric()`
  leaves it out, so uint32 points with a scale factor are printed unscaled.
* **Models lost behind an error** (`model_files_after_error`). After a syntax
  error the scanner's buffer is not reset: the rest of the bad file is parsed in
  place of the next file, against the comment "keep parsing files even if one
  generates an error" (`suns_app.c:1080`).
* **Timestamps in the host's zone** (`timestamps_in_zone`). The parser promises
  GMT and uses `mktime()`, so on a host outside GMT every instant is shifted.
* **Devices stored in part** (`device_store_whole`). After a failed dataset or value
  END TRANSACTION commits the rows before it, where the comment at the BEGIN speaks
  of a single transaction for consistency.

Two more defects have no run of their own; a property states what holds without them and
names them as its exception:

* **Numbers that run on** (`Unended`, the exception of `PrintedExactly`). In scientific
  notation with the exponent 0 nothing ends the text (`suns_output.c:1468`), so that what
  the buffer held before reads as further digits, against "no loss of precision"
  (`suns_output.c:1487`). With the program's 16 digits it takes ten characters or more, such
  as 2147483647 with the scale factor -9.
* **Words unescaped in XML** (`Unharmed`, the exception of `ExportReloads`). The export
  writes names, labels and units as they are ("FIXME: need to make sure all these strings
  are escaped", `suns_output.c:1230`). An entity in a label is decoded when it is read
  back. At a "<" before a blank or a digit ezxml stops with an error that
  `suns_parse_xml_model_file()` does not ask for: the label is cut off, the labels behind
  it are lost, and so are all models behind.
