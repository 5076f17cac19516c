---------------------------- MODULE InspectorUI ----------------------------
(***************************************************************************)
(* The page of CSR Inspector: the event handlers of web/static/app.js.     *)
(*                                                                         *)
(* JavaScript runs one task at a time, so a handler is atomic up to its    *)
(* next await; between an await and its continuation any other handler may *)
(* run.  Each action below is one such task: a handler up to its first     *)
(* await, or a continuation up to the next await or the end, `catch' and   *)
(* `finally' included.                                                     *)
(*                                                                         *)
(* parseCSR can be running several times at once (one activation per slot  *)
(* of Calls), and so can loadCSRFile (Readers) and copyRawJSON (Copiers).  *)
(* A slot that has finished is used again: runs are unbounded in length,   *)
(* only the number of activations alive at the same time is bounded.       *)
(*                                                                         *)
(* Texts are opaque: the page only tells a blank text, one whose PEM label *)
(* it accepts and one whose label it refuses apart (validatePEMHeader).    *)
(* The page shows the answer to text t as t itself.                        *)
(***************************************************************************)
EXTENDS Naturals, FiniteSets

CONSTANTS
  GoodTexts,      \* texts whose PEM label validatePEMHeader accepts
  BadTexts,       \* non-blank texts whose label it refuses
  Blank,          \* a text that trims to nothing
  Files,          \* files the user can choose or drop
  FileContent,    \* what reading a file yields
  Calls,          \* slots for activations of parseCSR
  Readers,        \* slots for activations of loadCSRFile
  Copiers,        \* slots for activations of copyRawJSON
  NoFile, NoResult, NoText,
  Habits          \* what the user does besides waiting for enabled controls

Texts == GoodTexts \union BadTexts \union {Blank}

(* A file is refused by its size alone (empty, larger than 1 MiB), or is   *)
(* read and yields a text.                                                 *)
TextFiles == {f \in Files : FileContent[f] \in Texts}

(* The gestures that the disabled controls of setLoading do not prevent:   *)
(* Ctrl+Enter and a drop work while a request is in flight, no control is  *)
(* disabled while a file is being read, and the copy button may be clicked *)
(* again while it still says "Copied".                                     *)
AllHabits == {"ctrlEnter", "dropWhileLoading", "actWhileReading", "copyAgain"}

ASSUME ConstantsAssumption ==
  /\ Blank \notin GoodTexts \union BadTexts
  /\ GoodTexts \intersect BadTexts = {}
  /\ FileContent \in [Files -> Texts \union {"zeroBytes", "tooLarge"}]
  /\ NoFile \notin Files
  /\ NoResult \notin GoodTexts
  /\ NoText \notin GoodTexts
  /\ Habits \subseteq AllHabits

VARIABLES
  input,        \* elements.input.value, trimmed
  fileName,     \* the file named in selectedFileName, NoFile when hidden
  status,       \* elements.requestStatus.textContent
  error,        \* what the error panel says, "none" when it is hidden
  lastResult,   \* lastResult; the result panel is visible iff it is not null
  loading,      \* the `disabled' flag of the two buttons and the file input
  phase,        \* phase[c]: where activation c of parseCSR is waiting
  asked,        \* asked[c]: the csrPEM that activation c sent
  armed,        \* the activations whose REQUEST_TIMEOUT_MS timer is set
  reading,      \* reading[r]: the file that activation r is reading
  copy,         \* copy[k]: where activation k of copyRawJSON is waiting
  saved,        \* saved[k]: the originalText captured by activation k
  label,        \* elements.copyJSONButton.textContent
  lastAsked     \* history: the text of the most recent request

pageVars == <<input, fileName, status, error, lastResult, loading>>
callVars == <<phase, asked, armed, lastAsked>>
copyVars == <<copy, saved, label>>
vars == <<pageVars, callVars, reading, copyVars>>

Statuses == {"", "parsing", "success", "loaded", "copyFailed"}
Errors   == {"none", "input", "file", "api", "timeout", "network"}
Phases   == {"idle", "fetching", "okBody", "errorBody"}
Labels   == {"Copy JSON", "Copied"}

InFlight == {c \in Calls : phase[c] # "idle"}
FilesInReading == {r \in Readers : reading[r] # NoFile}
CopiesInProgress == {k \in Copiers : copy[k] # "idle"}

Init ==
  /\ input = Blank
  /\ fileName = NoFile
  /\ status = ""
  /\ error = "none"
  /\ lastResult = NoResult
  /\ loading = FALSE
  /\ phase = [c \in Calls |-> "idle"]
  /\ asked = [c \in Calls |-> NoText]
  /\ armed = {}
  /\ reading = [r \in Readers |-> NoFile]
  /\ copy = [k \in Copiers |-> "idle"]
  /\ saved = [k \in Copiers |-> "Copy JSON"]
  /\ label = "Copy JSON"
  /\ lastAsked = NoText

-----------------------------------------------------------------------------
(* What the handlers do to the page.  An operator named A_b is A with the  *)
(* plausible mistake b: no action uses it, it is what the properties below *)
(* are tried against.                                                      *)

HideResult == lastResult' = NoResult

HideError == error' = "none"

ShowError_statusStays(kind) ==
  /\ HideResult
  /\ error' = kind
  /\ UNCHANGED status

ShowError_resultStays(kind) ==
  /\ status' = ""
  /\ error' = kind
  /\ UNCHANGED lastResult

ShowError(kind) ==
  /\ HideResult
  /\ status' = ""
  /\ error' = kind

RenderResult_currentInput(t) == lastResult' = input

RenderResult(t) == lastResult' = t

-----------------------------------------------------------------------------
(* parseCSR                                                                *)

(* Up to the await of fetch.  A blank or refused text never leaves the     *)
(* page.  The result on display is not hidden when a request starts.       *)
RefuseInput ==
  /\ input \notin GoodTexts
  /\ ShowError("input")
  /\ UNCHANGED <<input, fileName, loading, callVars, reading, copyVars>>

SendRequest_controlsStay(c) ==
  /\ input \in GoodTexts
  /\ phase[c] = "idle"
  /\ HideError
  /\ status' = "parsing"
  /\ phase' = [phase EXCEPT ![c] = "fetching"]
  /\ asked' = [asked EXCEPT ![c] = input]
  /\ armed' = armed \union {c}
  /\ lastAsked' = input
  /\ UNCHANGED <<input, fileName, lastResult, loading, reading, copyVars>>

SendRequest(c) ==
  /\ input \in GoodTexts
  /\ phase[c] = "idle"
  /\ HideError
  /\ loading' = TRUE
  /\ status' = "parsing"
  /\ phase' = [phase EXCEPT ![c] = "fetching"]
  /\ asked' = [asked EXCEPT ![c] = input]
  /\ armed' = armed \union {c}
  /\ lastAsked' = input
  /\ UNCHANGED <<input, fileName, lastResult, reading, copyVars>>

ParseCSR == RefuseInput \/ \E c \in Calls : SendRequest(c)

(* The response's status line and headers are here; its body is not.       *)
ResponseStarts(c) ==
  /\ phase[c] = "fetching"
  /\ \E next \in {"okBody", "errorBody"} : phase' = [phase EXCEPT ![c] = next]
  /\ UNCHANGED <<pageVars, asked, armed, lastAsked, reading, copyVars>>

Finish_controlsStay(c) ==
  /\ phase' = [phase EXCEPT ![c] = "idle"]
  /\ asked' = [asked EXCEPT ![c] = NoText]
  /\ armed' = armed \ {c}
  /\ UNCHANGED <<input, fileName, loading, lastAsked, reading, copyVars>>

(* The `finally' block, run whichever way the activation ends.             *)
Finish(c) ==
  /\ phase' = [phase EXCEPT ![c] = "idle"]
  /\ asked' = [asked EXCEPT ![c] = NoText]
  /\ armed' = armed \ {c}
  /\ loading' = FALSE
  /\ UNCHANGED <<input, fileName, lastAsked, reading, copyVars>>

ResultArrives(c) ==
  /\ phase[c] = "okBody"
  /\ RenderResult(asked[c])
  /\ status' = "success"
  /\ UNCHANGED error
  /\ Finish(c)

(* An error body, or a body of a successful response that is not JSON.     *)
ErrorArrives(c) ==
  /\ phase[c] \in {"okBody", "errorBody"}
  /\ ShowError("api")
  /\ Finish(c)

ConnectionFails(c) ==
  /\ phase[c] # "idle"
  /\ ShowError("network")
  /\ Finish(c)

TimeoutFires_headersOnly(c) ==
  /\ c \in armed
  /\ phase[c] = "fetching"
  /\ ShowError("timeout")
  /\ Finish(c)

(* The timer calls controller.abort(), which rejects whatever activation c *)
(* is waiting for, the headers or the body.                                *)
TimeoutFires(c) ==
  /\ c \in armed
  /\ phase[c] # "idle"
  /\ ShowError("timeout")
  /\ Finish(c)

-----------------------------------------------------------------------------
(* loadCSRFile                                                             *)

(* Up to the await of file.text(), or to the end for a file whose size is  *)
(* refused.  The status line keeps what it said.                           *)
RefuseFile(f) ==
  /\ f \notin TextFiles
  /\ ShowError("file")
  /\ UNCHANGED <<input, fileName, loading, callVars, reading, copyVars>>

StartReading_resultStays(r, f) ==
  /\ f \in TextFiles
  /\ reading[r] = NoFile
  /\ HideError
  /\ reading' = [reading EXCEPT ![r] = f]
  /\ UNCHANGED <<input, fileName, status, lastResult, loading, callVars, copyVars>>

StartReading(r, f) ==
  /\ f \in TextFiles
  /\ reading[r] = NoFile
  /\ HideError
  /\ HideResult
  /\ reading' = [reading EXCEPT ![r] = f]
  /\ UNCHANGED <<input, fileName, status, loading, callVars, copyVars>>

LoadCSRFile(f) == RefuseFile(f) \/ \E r \in Readers : StartReading(r, f)

EndReading(r) ==
  /\ reading' = [reading EXCEPT ![r] = NoFile]
  /\ UNCHANGED <<loading, callVars, copyVars>>

(* The file's text replaces the input.  Nothing is hidden here: an error   *)
(* or a result that appeared during the read stays.                        *)
TextLoads(r) ==
  /\ reading[r] # NoFile
  /\ FileContent[reading[r]] # Blank
  /\ input' = FileContent[reading[r]]
  /\ fileName' = reading[r]
  /\ status' = "loaded"
  /\ UNCHANGED <<error, lastResult>>
  /\ EndReading(r)

BlankTextLoads(r) ==
  /\ reading[r] # NoFile
  /\ FileContent[reading[r]] = Blank
  /\ ShowError("file")
  /\ UNCHANGED <<input, fileName>>
  /\ EndReading(r)

ReadFails(r) ==
  /\ reading[r] # NoFile
  /\ ShowError("file")
  /\ UNCHANGED <<input, fileName>>
  /\ EndReading(r)

-----------------------------------------------------------------------------
(* copyRawJSON                                                             *)

StartCopy(k) ==
  /\ lastResult # NoResult
  /\ copy[k] = "idle"
  /\ "copyAgain" \notin Habits => CopiesInProgress = {}
  /\ copy' = [copy EXCEPT ![k] = "writing"]
  /\ UNCHANGED <<pageVars, callVars, reading, saved, label>>

CopySucceeds_captureLate(k) ==
  /\ copy[k] = "writing"
  /\ copy' = [copy EXCEPT ![k] = "restoring"]
  /\ saved' = [saved EXCEPT ![k] = "Copied"]
  /\ label' = "Copied"
  /\ UNCHANGED <<pageVars, callVars, reading>>

CopySucceeds(k) ==
  /\ copy[k] = "writing"
  /\ copy' = [copy EXCEPT ![k] = "restoring"]
  /\ saved' = [saved EXCEPT ![k] = label]
  /\ label' = "Copied"
  /\ UNCHANGED <<pageVars, callVars, reading>>

CopyFails(k) ==
  /\ copy[k] = "writing"
  /\ copy' = [copy EXCEPT ![k] = "idle"]
  /\ status' = "copyFailed"
  /\ UNCHANGED <<input, fileName, error, lastResult, loading,
                 callVars, reading, saved, label>>

(* The 1200 ms timer of activation k.                                      *)
RestoreLabel(k) ==
  /\ copy[k] = "restoring"
  /\ copy' = [copy EXCEPT ![k] = "idle"]
  /\ label' = saved[k]
  /\ UNCHANGED <<pageVars, callVars, reading, saved>>

-----------------------------------------------------------------------------
(* The event listeners.                                                    *)

(* No control is disabled while a file is being read.                      *)
UserActs == FilesInReading # {} => "actWhileReading" \in Habits

ClickInspect ==
  /\ UserActs
  /\ ~loading
  /\ ParseCSR

CtrlEnter ==
  /\ UserActs
  /\ loading => "ctrlEnter" \in Habits
  /\ ParseCSR

ChooseFile(f) ==
  /\ UserActs
  /\ ~loading
  /\ LoadCSRFile(f)

DropFile(f) ==
  /\ UserActs
  /\ loading => "dropWhileLoading" \in Habits
  /\ LoadCSRFile(f)

ClearForm ==
  /\ UserActs
  /\ ~loading
  /\ input' = Blank
  /\ fileName' = NoFile
  /\ status' = ""
  /\ HideError
  /\ HideResult
  /\ UNCHANGED <<loading, callVars, reading, copyVars>>

(* The text area is never disabled.                                        *)
Type(t) ==
  /\ UserActs
  /\ input' = t
  /\ UNCHANGED <<fileName, status, error, lastResult, loading,
                 callVars, reading, copyVars>>

UserStep ==
  \/ ClickInspect
  \/ CtrlEnter
  \/ \E f \in Files : ChooseFile(f) \/ DropFile(f)
  \/ ClearForm
  \/ \E t \in Texts : Type(t)
  \/ \E k \in Copiers : StartCopy(k)

CallStep(c) ==
  \/ ResponseStarts(c)
  \/ ResultArrives(c)
  \/ ErrorArrives(c)
  \/ ConnectionFails(c)
  \/ TimeoutFires(c)

ReadStep(r) == TextLoads(r) \/ BlankTextLoads(r) \/ ReadFails(r)

CopyStep(k) == CopySucceeds(k) \/ CopyFails(k) \/ RestoreLabel(k)

Next ==
  \/ UserStep
  \/ \E c \in Calls : CallStep(c)
  \/ \E r \in Readers : ReadStep(r)
  \/ \E k \in Copiers : CopyStep(k)

(* A timer that is set fires, and the browser settles the promise of a     *)
(* read and of a clipboard write.  Nothing is assumed of the server or of  *)
(* the user.                                                               *)
Fairness ==
  /\ \A c \in Calls : WF_vars(TimeoutFires(c))
  /\ \A r \in Readers : WF_vars(ReadStep(r))
  /\ \A k \in Copiers : WF_vars(CopyStep(k))

Spec == Init /\ [][Next]_vars /\ Fairness

-----------------------------------------------------------------------------
(* Properties of every user (any Habits).                                  *)

(* The page's state stays within the values its elements can show.         *)
TypeOK ==
  /\ input \in Texts
  /\ fileName \in Files \union {NoFile}
  /\ status \in Statuses
  /\ error \in Errors
  /\ lastResult \in GoodTexts \union {NoResult}
  /\ loading \in BOOLEAN
  /\ phase \in [Calls -> Phases]
  /\ asked \in [Calls -> GoodTexts \union {NoText}]
  /\ armed \subseteq Calls
  /\ reading \in [Readers -> TextFiles \union {NoFile}]
  /\ copy \in [Copiers -> {"idle", "writing", "restoring"}]
  /\ saved \in [Copiers -> Labels]
  /\ label \in Labels
  /\ lastAsked \in GoodTexts \union {NoText}

(* setLoading: the controls are never left disabled when no request is     *)
(* under way, however requests overlap.                                    *)
DisabledOnlyInFlight == loading => InFlight # {}

(* setLoading(false) does not touch the status line, so every way out of   *)
(* parseCSR has to: "Parsing..." is never shown with the controls enabled. *)
ParsingStatusIsLive == status = "parsing" => loading

(* renderResult: a result that appears answers the text that the finished  *)
(* activation sent, whatever the input field says by then.                 *)
ResultAnswersItsRequest ==
  [][ lastResult' \notin {lastResult, NoResult} =>
        \E c \in Calls : phase'[c] = "idle" /\ asked[c] = lastResult' ]_vars

(* The 15 s timer covers the headers and the body: every request ends,     *)
(* even if the server never answers.                                       *)
EveryRequestEnds == \A c \in Calls : phase[c] # "idle" ~> phase[c] = "idle"

(* setLoading(false) in `finally': disabled controls are enabled again,    *)
(* whatever the server does and however often the user asks.               *)
ControlsComeBack == loading ~> ~loading

-----------------------------------------------------------------------------
(* Properties of users without some of the Habits.                         *)

(* Without Ctrl+Enter the disabled controls are a lock: one request at a   *)
(* time, and they are disabled exactly while it is under way.              *)
OneAtATime ==
  /\ Cardinality(InFlight) <= 1
  /\ loading <=> InFlight # {}

(* Without Ctrl+Enter, once a request is over, a result on display is the  *)
(* answer to the latest request, not to an earlier one: setLoading closes  *)
(* the window in which parseCSR awaits.                                    *)
ResultIsLatest == lastResult \in {NoResult, lastAsked} \/ loading

(* Without a second click on it within 1200 ms, the copy button says "Copy *)
(* JSON" again once every copyRawJSON is over.                             *)
LabelRestored == CopiesInProgress = {} => label = "Copy JSON"

(* The rest is for a user who waits (Habits = {}).                         *)

(* The error panel and the result are never on display together, though    *)
(* renderResult does not hide the one nor parseCSR the other.              *)
NeverBoth == error = "none" \/ lastResult = NoResult

(* The status line, the error panel and the result are set by different    *)
(* handlers, and tell one story: "File loaded. Click Inspect CSR to parse  *)
(* it." is shown beside neither an error nor a result of what was there    *)
(* before; "CSR inspected successfully." is shown beside no error, and     *)
(* with a result, or (loadCSRFile does not clear the status line) while a  *)
(* file is being read.                                                     *)
StatusMatchesPanels ==
  /\ status = "loaded" => error = "none" /\ lastResult = NoResult
  /\ status = "success" =>
       /\ error = "none"
       /\ lastResult = NoResult => FilesInReading # {}

(* The page keeps the promise of InspectionPanel: a question is pending    *)
(* while the controls are disabled.                                        *)
Panel == INSTANCE InspectionPanel WITH
  Questions <- GoodTexts,
  Nothing   <- NoResult,
  shown     <- lastResult,
  failed    <- error # "none",
  pending   <- IF loading THEN {lastAsked} ELSE {}

KeepsPanelPromise == Panel!Spec

=============================================================================
