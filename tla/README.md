# CSR Inspector: models, model checking and proofs

CSR Inspector is a web application that takes a PEM-encoded certificate signing
request (CSR), parses it, and shows what is in it, with findings about what may be
wrong with it. It is a single Go process (`src/cmd`, `src/internal`, `src/web`) that
serves a page (`src/web/static`) and one API endpoint, which the page calls. Nothing is
persisted.

This directory holds TLA+ models of its parts, translated from the source, the
configurations that model-check them with TLC, and proofs checked by TLAPS.
`PROJECT.json` lists every run, the lines that each definition models (`map`), the
hazards that the properties are for, and, for each property, a plausible bug
(`mutants`) that the property would catch.

    tlc -workers 2 -config UIAnyUser.cfg MCInspectorUI      # a run
    tlapm InspectorUI_proofs.tla                            # a proof

## 1. Inventory

| Component | Source | State it keeps | Operations | Interacts with |
|---|---|---|---|---|
| Page: event handlers | `web/static/app.js` 691–1191 | input, file name, status line, error panel, `lastResult`, disabled controls, copy label; running activations of three async functions and their timers | `parseCSR`, `loadCSRFile`, `copyRawJSON`, `clearForm`, listeners | the user, `fetch` to the API, file reads, the clipboard |
| Page: PEM label check | `app.js` 828–888 | none | `validatePEMHeader` | called by `parseCSR`; duplicates server knowledge |
| Page: rendering | `app.js` 79–689 | DOM only | `render*` | called by `renderResult` |
| Server process | `cmd/server/main.go` | two goroutines, a channel, the signal context | `run` | configuration, net/http, signals |
| Configuration | `internal/config` | none | `Load` | called once by `run` |
| Middleware | `transport/http/middleware.go` | per exchange: headers, `responseRecorder` | `RequestID`, `AccessLog`, `Recover`, `SecurityHeaders` | wraps the routers |
| API handlers | `transport/http/handler.go` | none | `health`, `parseCSR`, error classification | calls `csr.ParsePEM` |
| CSR parser | `internal/csr/parse_pem.go`, `parser.go`, `model.go` | the `Info` it builds | `ParsePEM` and what it calls | encoding/pem, encoding/asn1, crypto/x509 |
| Findings analyzer | `internal/csr/findings.go` | local sets while it runs | `analyzeFindings` | called at the end of `ParsePEM` |
| Static files | `web/handler.go` | embedded files | `Handler` | net/http's file server |

What is hard about it, and what makes each component correct:

- **Page.** Its handlers are async functions: between an `await` and what follows it,
  any other handler may run. The page protects itself by disabling the two buttons and
  the file input during a request, but Ctrl+Enter (`app.js:1104`) and a dropped file
  (`app.js:1180`) get past that, and nothing is disabled while a file is read. Status
  line, error panel and result are separate pieces of state that the handlers update
  piecemeal. Correct means: the page never locks up, never claims to be busy when it is
  not, shows answers to what was sent, and shows a consistent picture to a user who
  waits.
- **Process.** `ListenAndServe` returns `ErrServerClosed` when a shutdown *begins*; the
  shutdown has a deadline; the goroutine's error goes through a channel that nobody may
  read. Correct means: the exit status is true, and the process does end.
- **Middleware and handlers.** A panic may come after part of the answer is written;
  headers count only if they are set before that; the order of the layers decides
  what is logged and marked. A body may be at the limit, over it, or cut short.
  Correct means: every exchange is answered, logged as it was answered, marked, and not
  cacheable when it is about a CSR.
- **PEM intake.** `pem.Decode` skips what it cannot decode and stops after the first
  block; errors are classified through `Unwrap`; the page and the server have separate
  lists of labels. Correct means: only a text that is one request is parsed, and
  the codes and the page's verdict are true of the text.
- **PKCS#10 structure and keys.** Two passes over the attributes, several extension
  requests in one CSR, three paths for three kinds of keys, one of which goes on after
  an error, and a verdict on the signature that depends on which error the library
  returns. Correct means: no attribute, extension or name is shown twice or on the wrong
  list, none is lost but the names of the types that the parser skips on purpose, every path
  yields a whole report, and the verdict says no more than what was checked.
- **Findings.** Spellings, types and repetitions of names interact, and one finding
  repeats a decision made elsewhere (the 1024 bits). Correct means: exact reports,
  complete and sorted, that agree with the verdict.
- **All together.** The page waits 15 s, the server reads for 10 s and writes for 10 s,
  a shutdown waits for the write timeout, the page takes files of 1 MiB and the server
  bodies of 128 KiB, and a request that the page gave up may still be under way when the
  user asks again. Correct means: the user is told something true of his own text, in
  time, and no side cuts off what another still has time for.

## 2. Modules

| Module | Models | Abstract specification | Proofs |
|---|---|---|---|
| `InspectorUI` | the page's handlers | `InspectionPanel` | `InspectorUI_proofs` |
| `ServerLifecycle` | `main.go`, `config.go`, connections | `GracefulStop` | `ServerLifecycle_proofs` |
| `RequestPipeline` | middleware, handlers, one exchange | – | `RequestPipeline_proofs` |
| `PemIntake` | page check, PEM half of `ParsePEM`, classification of errors | the property `IsOneRequest` is its reference | `PemIntake_proofs` |
| `Findings` | `parseSANFromExtensions`, `findings.go` | declarative definitions in its properties | `Findings_proofs` |
| `Pkcs10` | the PKCS#10 half of `ParsePEM`; extends `Findings` | declarative definitions in its properties | `Pkcs10_proofs` |
| `EndToEnd` | page, network and server together, with time | `InspectionService` | `EndToEnd_proofs` |

`ListLemmas` has the facts about counting, orders and flattened sequences that the proofs
of `Findings` and `Pkcs10` share. `MC*` modules only give constants their values. Operators named `A_b` are `A` with the
mistake `b`; no specification uses them, they are what the properties are tried against.

### InspectorUI

One action is one JavaScript task: a handler up to its first `await`, or a continuation
up to the next one, `catch` and `finally` included. `phase[c]` says where activation
`c` of `parseCSR` waits (`fetching` for the headers, `okBody`, `errorBody` for the body),
`reading[r]` which file activation `r` of `loadCSRFile` reads, `copy[k]` whether
activation `k` of `copyRawJSON` waits for the clipboard or for its 1200 ms timer.
Slots are reused: behaviours are unbounded, only the number of activations that are
alive at once is bounded.

| Code | Action |
|---|---|
| `parseCSR` 930–951 | `RefuseInput` |
| `parseCSR` 930–974 | `SendRequest` (with `setLoading(true)` and the timer) |
| the response's headers, 965–978 | `ResponseStarts` |
| 991–1001, then `finally` | `ResultArrives`, `Finish` |
| 976–989 and `extractErrorMessage`, or a body that is not JSON | `ErrorArrives`, `Finish` |
| 1020–1027 | `ConnectionFails`, `Finish` |
| the timer, 957–962, and 1003–1013 | `TimeoutFires`, `Finish` |
| `loadCSRFile` | `RefuseFile`, `StartReading`, `TextLoads`, `BlankTextLoads`, `ReadFails` |
| `copyRawJSON` | `StartCopy`, `CopySucceeds`, `CopyFails`, `RestoreLabel` |
| `clearForm`, listeners | `ClearForm`, `ClickInspect`, `CtrlEnter`, `ChooseFile`, `DropFile` |

The constant `Habits` is the set of things the user does although something is under
way: pressing Ctrl+Enter or dropping a file during a request, acting during a file
read, clicking the copy button again while it says "Copied". The properties come in
groups: those of *every* user (any `Habits`), and those that need the absence of a
named habit. The groups say exactly which protection the page relies on for which
guarantee. An enabled control is never restricted in other ways: the text area is
editable at any time.

### ServerLifecycle

`main` is the program counter of `run`, `serve` that of the goroutine, `serverErrors`
the buffered channel, `conn[c]` the `http.ConnState` of a connection. `AcceptConfig`
and `RejectConfig` are `config.Load` with the wiring that follows it; `SelectError` and
`SelectSignal` are the two branches of the `select`; `ShutdownReturns` and
`DeadlineExpires` the two ends of `server.Shutdown`. The listener and the connections
are net/http's and modelled as the library documents them (external in the map). When
`main` returns everything stops as it is.

`GracefulStop` promises: success only if somebody asked the process to stop and no
client is cut off; and, once asked to stop or unable to go on, the process ends.

### RequestPipeline

One exchange; exchanges share no state. `depth` counts the active layers of `Chain`,
`mode` says what the innermost one does, `out` holds what the `responseRecorder` has
noted and what net/http has accepted. Handlers may panic wherever they are, and a
panic unwinds layer by layer to `Recover`. Panics in the middleware itself (a logger, a
header map) are not modelled. The routers' choice and the file server's statuses are
nondeterministic. The classes of the seven security headers are one name.

### PemIntake

A text is a sequence of segments: PEM blocks that decode, BEGIN lines that
`pem.Decode` passes over, other lines, white space. The stages are the checks of
`ParsePEM` in their order; `direct` texts are posted by another client than the page.
`ClassifyParseError` is the ladder of `errors.Is`, `Unwrap` the one of
`UnsupportedPEMTypeError`. Whether the bytes of a block are a PKCS#10 request is left open.

`PageSpeaksForServer` compares the two lists of labels. On a text that starts with a block
that decodes, they agree: the page passes exactly the labels that the server's check passes,
and refuses the others for the reason that the server gives. The one exception is in the
property by name: an OPENSSH PRIVATE KEY is a private key to the server
(`handler.go:297–301`) and an unsupported type to the page (`app.js:867–872`).

### Findings

A text is its core and three flags (capitals, final dot, white space around it);
`TrimSpace`, `ToLower` and `TrimSuffix` take flags away, `net.ParseIP` and
`net.IP.String` are the table `Canonical`, whose values are addresses that it writes as they
are. A name of type IP address has an address for its text, since anything but 4 or 16
bytes is an error (`malformed`). The loops over names are one action per
name; `SortFindings` is the stable sort as the place of each finding. Its variable
`request` is what the analyzer is given: any request with a skipped name in `FindingsMissing`, and
what the parser has found out in `Pkcs10`.

### Pkcs10

`csr` is what the bytes of the block say: attributes with their values, the subject, the
key, the signature, and which parts do not decode. `step` follows `ParsePEM` through
`parseRawCSR` (`DecodeStructure`, then `CollectExtensions` for one attribute after the
other), `parseSubject`, `parseSANFromExtensions` (the stage `names` of `Findings`),
`parseAttributes` (`DescribeAttribute`), the three paths for an unsupported key, the two
steps for a supported one (`ParsePublicKey`, `ParseSignature`), and `finalizeInfo` (the
other stages of `Findings`). Every error return is an action that ends in `failed`.

Two error paths have no action because nothing reaches them: `parseAttributes` decodes
what `parseRequestedExtensions` has decoded before (the first conjunct of
`ListsAreExact` checks that), and the default of `parsePublicKey` gets no type that
`supportedByStandardLibrary` lets through.

`CheckSignature` is x509's, as its source has it: it refuses algorithms it does not know
and MD5, any algorithm with a DSA key, an algorithm of another kind of key, and RSA keys
below 1024 bits, in that order, before it computes anything; then crypto/rsa refuses keys
that x509 has parsed, those whose public exponent is 1, even or above 2^31-1 or whose
modulus is even. What is kept of a key is what a report depends on: its kind, its size,
whether crypto/rsa refuses it, and of a GOST key what makes its details parse. Display
names, OIDs and hexadecimal are left out.

Names of skipped types are in the model: they are on none of the four lists
(`parser.go:428`), nor is the SAN extension shown in hexadecimal (`parser.go:604`), so that
a report does not have them at all. `ListsAreExact` says what the lists have, and that they
have nothing else. `EveryReportIsWhole` says of the warnings that they come with the kind of
the key: that a supported key's signature was not verified is in the verdict and its reason,
and not among the warnings.

### EndToEnd

An exchange is a connection with one request; `phase[e]` is where it is, from
`connecting` over `headers`, `body` and `writing` in the server to `replying`, or `lost`.
The page waits for one exchange at a time (`waiting`); exchanges that it gave up go on in
the server until they end (`OrphanEnds`). `headerLeft`, `readLeft` and `writeLeft` are the
deadlines that net/http sets from `ReadHeaderTimeout`, `ReadTimeout` and `WriteTimeout`,
`pageLeft` the page's timer, `stopLeft` the deadline of `server.Shutdown`.

| Code | Action |
|---|---|
| `loadCSRFile` 790–797 | `RefuseFile` |
| `loadCSRFile` 776–778 for a file that it takes, `clearForm` 1049–1062 | `HideAll` |
| `parseCSR` 930–974 of app.js, `hideError` included | `Ask` |
| 976–1000 / 1015–1027 / the timer and 1003–1013, then `finally` | `ReplyArrives` / `LossIsNoticed` / `PageGivesUp` |
| `Handler.parseCSR`: `ReadAll` succeeds / 413 / another error | `BodyArrives` / `BodyTooLarge` / `ReadExpires` |
| `run`, 132–148 | `SignalArrives`, `ShutdownReturns`, `ShutdownExpires` |
| net/http's connection | `Accept`, `HeadersArrive`, `HeaderExpires`, `ConnectionFails`, `AnswerIsSent`, `WriteExpires`, `ShutdownClosesIdle` |

Time passes in ticks; no tick passes a timer that has run out. What the network does
takes any time or never happens; what the server computes takes none. What happens inside
a side is in its own module: overlapping requests of the page in `InspectorUI`, panics and
headers in `RequestPipeline`, the channel and the exit status in `ServerLifecycle`.

An answer is a `report` (`response.ok`) or one of the errors `refused` (what `ParsePEM`
returns), `tooLarge` and `unreadable`. The difference matters for what comes next:
`parseCSR` calls `hideError` first (`app.js:933`), so that an error goes when the next
question is asked, whoever it came from; an earlier report stays until the answer is there.

`InspectionService` promises: whoever asks about a text is told something about that very
text within the time the page waits; a report only of a text that is a request and not too
large for the server, "refused" only of one that is none, "too large" only of one that is,
and that the request took too long only when it did; and of all that he was told, only a
report is still there while he waits for the next answer.

## 3. Runs

| Run | Shows | Bounds |
|---|---|---|
| `UIAnyUser` | whatever the user does: `DisabledOnlyInFlight`, `ParsingStatusIsLive`, `ResultAnswersItsRequest`; whatever the server does: `EveryRequestEnds`, `ControlsComeBack` | 2 requests and 2 reads at once; 2 texts the page sends, 1 it refuses, a blank one; no symmetry, because of the liveness |
| `UINoShortcut` | `OneAtATime`, `ResultIsLatest` without Ctrl+Enter during a request; `LabelRestored` without a second click within 1200 ms | 2 requests, 2 reads, 2 copies, all kinds of files |
| `UIPatientUser` | `NeverBoth`, `StatusMatchesPanels`, and that the page implements `InspectionPanel`, with its liveness | `Habits = {}` |
| `Lifecycle` | the exit status is true; the process implements `GracefulStop` with its liveness | 3 connections; environment sizes -1, 0, 1 |
| `Pem` | `OnlyOneRequestIsParsed`, `CodeNamesTheFault`, `PageSpeaksForServer` | texts of up to 3 segments, one label of each class |
| `Pipeline` | answers, logs, headers, limits; every exchange ends | limit 2, bodies of 0 to 3 bytes, cut anywhere |
| `Report` | the lists of extensions, attributes and names are exactly what the request has (`ListsAreExact`), the verdict is earned (`VerdictIsEarned`) and agrees with the findings (`SkippedMeansSkipped`), every path yields a whole report (`EveryReportIsWhole`); findings about names are exact (`DuplicatesAreReportedOnce`, `NamesAreJudgedExactly`), complete and sorted (`SortedReport`) | three families of CSRs: all lists of up to 3 of the names with several common names, also split over two extension requests; all lists of up to 2 attributes, with every part that may not decode; every kind of key with every signature, RSA sizes around 1024 and 2048, RSA keys that crypto/rsa refuses, GOST keys damaged in every way |
| `EndToEnd` | which side gives up first (`TimeoutMeansTheNetwork`), whom a shutdown cuts off (`EarlyRequestsAreNotCutOff`), and that the whole implements `InspectionService` with its liveness (`KeepsServicePromise`) | 2 exchanges, one of them possibly given up; texts below both limits (a request, and one that is none), between them, above both; ticks of 5 s, so 3, 1, 2 and 2 ticks for the timeouts of app.js and config.go |

Why the bounds are enough: two activations are what an overlap takes, and the
handlers share only page-wide state, so a third adds no new kind of interleaving;
three connections let one be idle, one active and one new at a shutdown; three segments
are a block with something before and after it; one byte below, at and above the limit
are all cases of the comparison; the third occurrence is where `reported` matters; two
attributes of two values are what it takes to lose one or to take it twice. In `EndToEnd`
the page waits for one exchange, and a second slot lets one that it gave up race with the
next; an instance with ticks of 2.5 s (847 000 states, not among the runs) shows the
same, and the safety properties are proved for timeouts of any length.

### Where the documents say something else

These runs check a sentence of the repository and TLC finds it violated:

| Run | Sentence | What the code does |
|---|---|---|
| `PemMalformed` | README.md:31, malformed PEM is rejected | a damaged block before a good one is passed over (`parse_pem.go:31`) |
| `PemKeyUploaded` | index.html:254, private keys are not uploaded | only the first label is looked at (`app.js:831`); a key below a request is sent |
| `FindingsMissing` | README.md:40 and the finding's message, the extension is missing | an extension with names, all of skipped types, is reported too (`parser.go:428`); every request of the run has such a name |
| `ReportInvalid` | parser.go:689, `invalid` means that the check was made and failed | x509 refuses an algorithm of another kind of key, and crypto/rsa a key that it finds unsafe, without a check, and the verdict is `invalid` (`parser.go:687`), in the second case even of a genuine signature |

Seen while modelling, and not among the runs: README.md:93 has responses with
`Cache-Control: no-store`, which only the parser's answers and the answer to a panic carry
(`handler.go:79`); README.md:99 has private key blocks rejected with a warning, which the
page does not give for the OpenSSH label (`app.js:867`); README.md:65 has an unsupported
algorithm shown as "Not verified", which the page shows as "Not supported"
(`app.js:365`); README.md:50 has warnings for unsupported verification algorithms, and
there is none for a supported key whose signature x509 does not verify: DSA, MD5, an
algorithm it does not know, an RSA key below 1024 bits (`parser.go:644–685`).

### Fairness

- `InspectorUI`: a timer that is set fires, and the browser settles a file read and a
  clipboard write. Nothing is assumed of the server, the network or the user, so the
  liveness properties rest on `REQUEST_TIMEOUT_MS` alone. `TimeoutFires(c)` is enabled
  as long as request `c` runs, so weak fairness is enough; in `UIPatientUser` it is also
  what makes a pending question of `InspectionPanel` end.
- `ServerLifecycle`: runnable goroutines run, and the context of `Shutdown` expires.
  No client and no signal is assumed.
- `RequestPipeline`: the goroutine of an exchange is scheduled, and reads and writes
  end because `ReadTimeout` and `WriteTimeout` are set (`main.go:94–101`).
- `EndToEnd`: time passes, and what is due happens. Nothing is assumed of the network or
  of the handlers, so that the user is always told something rests on the page's timer.

## 4. Proofs

Each `*_proofs` module proves, for all values of the constants, what the runs check on
small ones. The assumptions are the named `ASSUME`s of the modules: about the page,
that texts, labels and the three "nothing" values are distinct; about the process,
that the default size is positive; about the pipeline, that the limit is; about the
intake, that odd labels are not among the known ones; about the composition, that the
server's timeouts are in the order of `config.go` (header, read, write) and the others
positive.

- **InspectorUI_proofs.** `PageInv` joins the type invariant with
  `DisabledOnlyInFlight`, `ParsingStatusIsLive`, that timers are set for exactly the
  running activations and that each of these has something it asked; it is inductive for every user. `OneRequestInv`
  adds, under `"ctrlEnter" \notin Habits`, that at most one request is in flight and the
  controls are disabled exactly then, which is what makes `ResultIsLatest` inductive.
  `PatientInv` adds, under `Habits = {}`, that no file is read during a request, from
  which the agreement of the panels follows. On these three rests `ImplementsPanel`: the
  initial states and the steps of the page are initial states and steps of
  `InspectionPanel`. `LabelInv` ties each captured label to "Copy JSON".
- **ServerLifecycle_proofs.** `LifecycleInv` ties the channel, the goroutine and `main`:
  `ErrServerClosed` exists only once `main` is in `Shutdown`. Hence the branch of the
  `select` for it is never taken, and a clean exit cuts nothing off.
  `ImplementsGracefulStop` maps every step to a step or a stutter of `GracefulStop`.
- **RequestPipeline_proofs.** `PipelineInv` ties `mode` to `depth` (which layer is
  active when), the recorder to the wire (`RecorderInv`), the headers set so far to the
  layers passed (`HeaderInv`), the decided code to the body (`BodyInv`) and the status to
  the decision (`AnswerInv`). Seven theorems, one for each safety property of the run.
- **PemIntake_proofs.** `IntakeInv` says what each stage knows of the text: that it
  begins with BEGIN, which block was decoded, its label, that it has no headers, that
  nothing follows. That a text with a block has a *first* one, which `pem.Decode`
  returns, comes from the well-foundedness of `<` on the naturals. `PageAgreesWithServer` is
  an equivalence for each of the page's verdicts, with OPENSSH PRIVATE KEY as its stated
  exception.

- **EndToEnd_proofs.** `TypeOK` is not inductive: that no timer passes zero rests on the
  order in which the deadlines run out (`TimersAreInOrder`), and that `away` stays within
  the page's wait on where that wait was spent (`WaitIsAccounted`: in the server, exactly
  what is gone of the write timeout). `EarlyIsDueFirst` compares the deadlines of requests
  that are older than the signal with that of the shutdown; `AnswersArePossible` ties an
  answer to the size of its text and to whether it is a request. From these: `ServerAloneNeverTimesOut`,
  `ShutdownSparesEarlyRequests`, and `ImplementsService`, which maps every step to a step
  or a stutter of `InspectionService`.

- **Findings_proofs.** `FindingsInv` is proved inductive part by part, for requests with any
  number of names. `NamesAreKept` is what the rest hangs on: for every set `T` of texts, the
  list of a type has as many texts in `T` as names of that type were read whose text is
  in `T`. It is stated for sets, and not for the list as such, because that is what
  survives the detour over four lists: with the right `T` it says which names are covered,
  how many are addresses, and how often a normal form occurs. `DuplicatesInv` says that
  `seen` and `reported` are the keys that occurred once and twice among the entries compared
  so far, and that the findings are one for each of `reported`; `AddressFindingsInv` counts
  the DNS names looked at; `SANFindingsInv` and `KeyFindingsInv` say what the other codes
  rest on, and that they come with their stage and not before. `DuplicatesHold` then pairs
  the repeated keys with the names that are the second of their kind (`SameIsSameKey`: two
  names stand for the same name exactly when their normal forms agree), which is what
  `DuplicatesAreReportedOnce` counts. `SortingIsExact` needs no invariant: `Less` is a strict
  weak order, the place breaks ties, and in a total order on `1..n` counting what comes
  before gives every place once (`PlacesInOrder`), so the `CHOOSE` of `SortFindings` has a
  value and the result is a permutation.

- **Pkcs10_proofs.** `ReportInv` joins what the parser knows at each step with `FindingsInv`:
  `ParserInv` (no warning before the key, a supported and described key before the signature,
  a described key and a verdict afterwards), `Begun` (which stage of the analysis goes with
  which step), `KeyInv` (the key and the hash that the findings see are those that the
  verdict was made from), `ExtensionsInv` and `AttributesInv` (after `at - 1` attributes,
  both lists are what these contribute, and none of them is malformed), `NamesInv` (the names
  are those of the extensions). It is inductive, and all properties of the run `Report`
  follow from it, for any number of attributes, values, extensions and names.
  `OutcomeIsEarned` is the heart of the verdicts: whatever x509 answers, `parseSignature`
  makes no `invalid` of a genuine signature, unless crypto/rsa refuses its key. For
  `ListsAreExact`, `ListLemmas` shows what `FlattenSeq` of the community modules does when
  one sequence is added (`FlattenAppend`, `FlattenPrefix`: a loop that appends flattens) and
  that it keeps every element once (`FlattenCounts`). `ListsInv` says that each list is what
  the names read so far put on it, in order; that every SAN extension decodes follows from
  `NamesAreKept`, because one that does not would have left a name that ends in `failed`.

The assumptions of these two: a genuine signature was made with a key of the kind that its
algorithm needs (otherwise it would not verify); x509 refuses an RSA key with modulus zero;
crypto/rsa refuses RSA keys only;
`net.IP.String` of an address is an address that it writes as it is; the empty core is no
address and no wildcard; a request without the extension has no names. Texts with an empty
core have no capitals, and names of type IP address are addresses, which is what makes
`TypeOK` inductive: `KeepName` looks such a name up in `Canonical`.

Every safety property of every passing run is stated by a theorem, action properties
included. Only model-checked: liveness (`EveryRequestEnds`, `ControlsComeBack`, the liveness
halves of the refinements `KeepsPanelPromise`, `KeepsStopPromise`, `KeepsServicePromise`),
because fairness and ENABLED are out of the prover's reach. The prover takes `SelectSeq` for
an unknown operator; what the parser keeps of the extensions is therefore written with
`FlattenSeq` and sets, whose definitions it can unfold. Induction over the length of a
sequence goes through the least number that breaks a set (`InductionOnNumbers`), because the
library's induction theorems take an operator.

## 5. Not modelled

- Rendering, styles and markup: layout of a value, no state. The one decision in it,
  `verificationPresentation`, is `Badge` in `Pkcs10`.
- Decoding of ASN.1 and X.509: encoding/asn1's and crypto/x509's; a part decodes or does
  not. The tables of names in `parser.go` and the conversions to hexadecimal, OIDs and
  display names have no state and decide nothing.
- `parseExtensions`: one entry for each extension, in order; `ListsAreExact` is about
  the list it is given.
- The matching of routes and files, connections and listeners: net/http's, modelled only
  as far as the code relies on them. For a HEAD request net/http counts the bytes it
  accepts and does not send, and the model counts as it does.
- Wording of messages and logs; identifiers' values (that they are set is modelled).
- Build, container, CI.

## 6. Plan

The order is by importance: what many actors share first, sequential code after it.

1. *(done)* `InspectorUI`, `InspectionPanel`: the page and its promise, checked and proved.
2. *(done)* `ServerLifecycle`, `GracefulStop`: the process, checked and proved.
3. *(done)* `RequestPipeline`: an exchange, checked, safety proved.
4. *(done)* `PemIntake`: from a text to a block, checked and proved.
5. *(done)* `Findings`: the analysis, checked and proved.
6. *(done)* `Pkcs10`: the rest of `ParsePEM`, checked together with `Findings` in one run,
   and proved upon the proofs of `Findings`.
7. *(done)* `EndToEnd`, `InspectionService`: the composition, checked, its safety proved.
8. The hazards without a property (see `PROJECT.json`): the controls that come back while
   another request runs, the text of a file next to an older error or result, a file read
   that ends during a request, a second copy before the first is over, and a listen error
   that coincides with a signal. The models have the steps, and the properties about the
   page exclude the habits that lead there. Nothing in the repository says what should
   happen instead; should it come to, the property is a line.
