------------------------------ MODULE EndToEnd ------------------------------
(***************************************************************************)
(* Page, network and server together: the fetch of parseCSR in app.js, the *)
(* parse endpoint of handler.go behind the server of main.go, with the     *)
(* timers, limits and shutdown that each of them has on its own.           *)
(*                                                                         *)
(* Time passes in ticks.  Timers count down to zero; at zero they fire     *)
(* before more time passes, and whatever else is possible may still come   *)
(* first.  What the network does takes any time, or never happens; what    *)
(* the server computes takes none.                                         *)
(*                                                                         *)
(* An exchange is a connection with one request.  The page waits for one   *)
(* exchange at a time (InspectorUI has the overlaps in the page); those    *)
(* that it gave up may still be under way in the server.                   *)
(***************************************************************************)
EXTENDS Integers

CONSTANTS
  Texts,               \* what the user asks about
  Size,                \* the size of each text
  WellFormed,          \* the texts that ParsePEM takes, see PemIntake
  Exchanges,           \* slots for the exchanges under way at once
  NoText, NoExchange,
  MaxRequestSize,      \* config.HTTP.MaxRequestSize
  MaxClientFileSize,   \* MAX_CLIENT_FILE_SIZE
  RequestTimeout,      \* REQUEST_TIMEOUT_MS, in ticks; so are the others
  ReadHeaderTimeout,   \* config.HTTP
  ReadTimeout,
  WriteTimeout

(* A size and a time that are not zero, and the order in which config.go   *)
(* has the server's timeouts.                                              *)
ASSUME EndToEndAssumption ==
  /\ Size \in [Texts -> Nat]
  /\ WellFormed \subseteq Texts
  /\ NoText \notin Texts
  /\ NoExchange \notin Exchanges
  /\ MaxRequestSize \in Nat \ {0}
  /\ MaxClientFileSize \in Nat \ {0}
  /\ RequestTimeout \in Nat \ {0}
  /\ ReadHeaderTimeout \in Nat \ {0}
  /\ ReadTimeout \in Nat /\ ReadHeaderTimeout <= ReadTimeout
  /\ WriteTimeout \in Nat /\ ReadTimeout <= WriteTimeout

VARIABLES
  waiting,     \* the exchange that the page awaits, or NoExchange
  pageLeft,    \* its timer
  told,        \* the last thing the page said, and of which text
  phase,       \* phase[e]: where the exchange is, see Phases
  text,        \* text[e]: the text it is about
  answer,      \* answer[e]: what the handler has decided to answer
  headerLeft,  \* the deadlines that net/http sets on the connection
  readLeft,
  writeLeft,
  process,     \* what the process does
  stopLeft,    \* the deadline of server.Shutdown
  early,       \* history: the exchanges whose headers were read before the signal
  away         \* history: how much of the page's wait the server did not have the request

pageVars     == <<waiting, pageLeft, told>>
exchangeVars == <<phase, text, answer, headerLeft, readLeft, writeLeft>>
processVars  == <<process, stopLeft>>
historyVars  == <<early, away>>
vars == <<pageVars, exchangeVars, processVars, historyVars>>

(* connecting: not accepted; headers, body: the server reads them;         *)
(* writing: the handler writes its answer; replying: the answer is on its  *)
(* way; lost: the connection is gone, which the page does not know.        *)
Phases == {"free", "connecting", "headers", "body", "writing", "replying", "lost"}

(* A report is the one answer that is not an error: `refused' is an error  *)
(* of ParsePEM, the other two are errors of reading the body.              *)
Answers == {"none", "report", "refused", "tooLarge", "unreadable"}

Word(t, what) == [of |-> t, what |-> what]

Init ==
  /\ waiting = NoExchange
  /\ pageLeft = 0
  /\ told = Word(NoText, "nothing")
  /\ phase = [e \in Exchanges |-> "free"]
  /\ text = [e \in Exchanges |-> NoText]
  /\ answer = [e \in Exchanges |-> "none"]
  /\ headerLeft = [e \in Exchanges |-> 0]
  /\ readLeft = [e \in Exchanges |-> 0]
  /\ writeLeft = [e \in Exchanges |-> 0]
  /\ process = "running"
  /\ stopLeft = 0
  /\ early = {}
  /\ away = 0

-----------------------------------------------------------------------------
(* The page.                                                               *)

(* Nothing is kept of an exchange that is free.                            *)
Free(e) ==
  /\ phase' = [phase EXCEPT ![e] = "free"]
  /\ text' = [text EXCEPT ![e] = NoText]
  /\ answer' = [answer EXCEPT ![e] = "none"]
  /\ headerLeft' = [headerLeft EXCEPT ![e] = 0]
  /\ readLeft' = [readLeft EXCEPT ![e] = 0]
  /\ writeLeft' = [writeLeft EXCEPT ![e] = 0]
  /\ early' = early \ {e}

(* loadCSRFile: a file is looked at before it is loaded.                   *)
RefuseFile(t) ==
  /\ waiting = NoExchange
  /\ Size[t] > MaxClientFileSize
  /\ told' = Word(t, "fileTooLarge")
  /\ UNCHANGED <<waiting, pageLeft, exchangeVars, processVars, historyVars>>

(* loadCSRFile of a file that is not refused, or clearForm: an error and a *)
(* result are both hidden.                                                 *)
HideAll ==
  /\ waiting = NoExchange
  /\ told' = Word(NoText, "nothing")
  /\ UNCHANGED <<waiting, pageLeft, exchangeVars, processVars, historyVars>>

(* parseCSR: the text in the input is sent whatever its size.  hideError   *)
(* hides an error of any kind; the panel of an earlier result stays.       *)
AfterHideError == IF told.what = "report" THEN told ELSE Word(NoText, "nothing")

Ask(t, e) ==
  /\ waiting = NoExchange
  /\ phase[e] = "free"
  /\ told' = AfterHideError
  /\ waiting' = e
  /\ pageLeft' = RequestTimeout
  /\ phase' = [phase EXCEPT ![e] = "connecting"]
  /\ text' = [text EXCEPT ![e] = t]
  /\ away' = 0
  /\ UNCHANGED <<answer, headerLeft, readLeft, writeLeft, processVars, early>>

(* An activation of parseCSR ends, and the timer is cleared: the result is *)
(* rendered, or catch shows an error and hides the result.                 *)
Tell(e, what) ==
  /\ told' = Word(text[e], what)
  /\ waiting' = NoExchange
  /\ pageLeft' = 0
  /\ away' = 0
  /\ UNCHANGED processVars

ReplyArrives_late(e) ==
  /\ phase[e] = "replying"
  /\ Tell(e, answer[e])
  /\ Free(e)

(* A report is rendered (response.ok), any other answer is thrown as an    *)
(* error: an exchange of the page ends with the one or with the other.     *)
ReplyArrives(e) ==
  /\ waiting = e
  /\ phase[e] = "replying"
  /\ Tell(e, answer[e])
  /\ Free(e)

(* fetch, or the body of the response, fails with a TypeError.             *)
LossIsNoticed(e) ==
  /\ waiting = e
  /\ phase[e] = "lost"
  /\ Tell(e, "unavailable")
  /\ Free(e)

(* controller.abort(): the page gives up, and the connection is closed; a  *)
(* server that has the request learns of it later.                         *)
PageGivesUp(e) ==
  /\ waiting = e
  /\ pageLeft = 0
  /\ Tell(e, "timeout")
  /\ IF phase[e] \in {"headers", "body", "writing"}
       THEN UNCHANGED <<exchangeVars, early>>
       ELSE Free(e)

(* An exchange that nobody waits for ends: the handler's read or write     *)
(* fails, or what it has sent is thrown away.                              *)
OrphanEnds(e) ==
  /\ waiting # e
  /\ phase[e] # "free"
  /\ Free(e)
  /\ UNCHANGED <<pageVars, processVars, away>>

-----------------------------------------------------------------------------
(* The server and the connection.                                          *)

(* net/http's conn.readRequest sets the deadlines for the header and for   *)
(* the whole request when it begins to read.                               *)
Accept(e) ==
  /\ process = "running"
  /\ phase[e] = "connecting"
  /\ phase' = [phase EXCEPT ![e] = "headers"]
  /\ headerLeft' = [headerLeft EXCEPT ![e] = ReadHeaderTimeout]
  /\ readLeft' = [readLeft EXCEPT ![e] = ReadTimeout]
  /\ UNCHANGED <<pageVars, text, answer, writeLeft, processVars, historyVars>>

(* The one for writing it sets when the header has been read.              *)
HeadersArrive(e) ==
  /\ phase[e] = "headers"
  /\ phase' = [phase EXCEPT ![e] = "body"]
  /\ headerLeft' = [headerLeft EXCEPT ![e] = 0]
  /\ writeLeft' = [writeLeft EXCEPT ![e] = WriteTimeout]
  /\ early' = IF process = "running" THEN early \union {e} ELSE early
  /\ UNCHANGED <<pageVars, text, answer, readLeft, processVars, away>>

(* The server is done with e: the deadlines go.                            *)
Release(e, next) ==
  /\ phase' = [phase EXCEPT ![e] = next]
  /\ headerLeft' = [headerLeft EXCEPT ![e] = 0]
  /\ readLeft' = [readLeft EXCEPT ![e] = 0]
  /\ writeLeft' = [writeLeft EXCEPT ![e] = 0]
  /\ early' = early \ {e}
  /\ UNCHANGED <<pageVars, text, away>>

Lose(e) ==
  /\ Release(e, "lost")
  /\ answer' = [answer EXCEPT ![e] = "none"]
  /\ UNCHANGED processVars

(* Without a header there is no answer.                                    *)
HeaderExpires(e) == phase[e] = "headers" /\ headerLeft[e] = 0 /\ Lose(e)

(* The network loses a connection, or nobody listens any more.             *)
ConnectionFails(e) == phase[e] \notin {"free", "lost"} /\ Lose(e)

(* Handler.parseCSR: io.ReadAll, ParsePEM, writeJSON.                      *)
Answer_restartsTimer(e, what) ==
  /\ phase[e] = "body"
  /\ phase' = [phase EXCEPT ![e] = "writing"]
  /\ answer' = [answer EXCEPT ![e] = what]
  /\ readLeft' = [readLeft EXCEPT ![e] = 0]
  /\ writeLeft' = [writeLeft EXCEPT ![e] = WriteTimeout]
  /\ UNCHANGED <<pageVars, text, headerLeft, processVars, historyVars>>

Answer(e, what) ==
  /\ phase[e] = "body"
  /\ phase' = [phase EXCEPT ![e] = "writing"]
  /\ answer' = [answer EXCEPT ![e] = what]
  /\ readLeft' = [readLeft EXCEPT ![e] = 0]
  /\ UNCHANGED <<pageVars, text, headerLeft, writeLeft, processVars, historyVars>>

(* The whole body is read: a report, or writeParseError.                   *)
BodyArrives(e) ==
  /\ phase[e] = "body"
  /\ Size[text[e]] <= MaxRequestSize
  /\ Answer(e, IF text[e] \in WellFormed THEN "report" ELSE "refused")

BodyTooLarge(e) == phase[e] = "body" /\ Size[text[e]] > MaxRequestSize /\ Answer(e, "tooLarge")

ReadExpires(e) == phase[e] = "body" /\ readLeft[e] = 0 /\ Answer(e, "unreadable")

AnswerIsSent(e) ==
  /\ phase[e] = "writing"
  /\ Release(e, "replying")
  /\ UNCHANGED <<answer, processVars>>

WriteExpires(e) == phase[e] = "writing" /\ writeLeft[e] = 0 /\ Lose(e)

-----------------------------------------------------------------------------
(* The shutdown of run() in main.go.                                       *)

InServer == {e \in Exchanges : phase[e] \in {"headers", "body", "writing"}}

SignalArrives_headerTimeout ==
  /\ process = "running"
  /\ process' = "stopping"
  /\ stopLeft' = ReadHeaderTimeout
  /\ UNCHANGED <<pageVars, exchangeVars, historyVars>>

SignalArrives ==
  /\ process = "running"
  /\ process' = "stopping"
  /\ stopLeft' = WriteTimeout
  /\ UNCHANGED <<pageVars, exchangeVars, historyVars>>

(* Shutdown closes connections without a request: kept alive ones at once, *)
(* new ones after a while.                                                 *)
ShutdownClosesIdle(e) == process = "stopping" /\ phase[e] = "headers" /\ Lose(e)

ShutdownReturns ==
  /\ process = "stopping"
  /\ InServer = {}
  /\ process' = "stopped"
  /\ stopLeft' = 0
  /\ UNCHANGED <<pageVars, exchangeVars, historyVars>>

(* The deadline is up: run() returns the error, and the exit of the        *)
(* process ends every connection.                                          *)
ShutdownExpires ==
  /\ process = "stopping"
  /\ stopLeft = 0
  /\ process' = "failed"
  /\ phase' = [e \in Exchanges |-> IF e \in InServer THEN "lost" ELSE phase[e]]
  /\ answer' = [e \in Exchanges |-> IF e \in InServer THEN "none" ELSE answer[e]]
  /\ headerLeft' = [e \in Exchanges |-> 0]
  /\ readLeft' = [e \in Exchanges |-> 0]
  /\ writeLeft' = [e \in Exchanges |-> 0]
  /\ early' = {}
  /\ UNCHANGED <<pageVars, text, stopLeft, away>>

-----------------------------------------------------------------------------
(* Time.                                                                   *)

NothingIsDue(e) ==
  /\ phase[e] = "headers" => headerLeft[e] > 0
  /\ phase[e] = "body" => readLeft[e] > 0
  /\ phase[e] = "writing" => writeLeft[e] > 0

TimeMayPass_pastPage ==
  /\ \A e \in Exchanges : NothingIsDue(e)
  /\ process = "stopping" => stopLeft > 0

TimeMayPass ==
  /\ \A e \in Exchanges : NothingIsDue(e)
  /\ waiting # NoExchange => pageLeft > 0
  /\ process = "stopping" => stopLeft > 0

Tick ==
  /\ TimeMayPass
  /\ pageLeft' = IF waiting # NoExchange THEN pageLeft - 1 ELSE pageLeft
  /\ headerLeft' = [e \in Exchanges |-> IF phase[e] = "headers" THEN headerLeft[e] - 1 ELSE headerLeft[e]]
  /\ readLeft' = [e \in Exchanges |-> IF phase[e] \in {"headers", "body"} THEN readLeft[e] - 1 ELSE readLeft[e]]
  /\ writeLeft' = [e \in Exchanges |-> IF phase[e] \in {"body", "writing"} THEN writeLeft[e] - 1 ELSE writeLeft[e]]
  /\ stopLeft' = IF process = "stopping" THEN stopLeft - 1 ELSE stopLeft
  /\ away' = IF waiting # NoExchange /\ phase[waiting] \notin {"body", "writing"} THEN away + 1 ELSE away
  /\ UNCHANGED <<waiting, told, phase, text, answer, process, early>>

(* What a deadline does.                                                   *)
Expiry(e) == PageGivesUp(e) \/ HeaderExpires(e) \/ ReadExpires(e) \/ WriteExpires(e)

Next ==
  \/ \E t \in Texts : RefuseFile(t)
  \/ HideAll
  \/ \E t \in Texts, e \in Exchanges : Ask(t, e)
  \/ \E e \in Exchanges : ReplyArrives(e)
  \/ \E e \in Exchanges : LossIsNoticed(e)
  \/ \E e \in Exchanges : PageGivesUp(e)
  \/ \E e \in Exchanges : OrphanEnds(e)
  \/ \E e \in Exchanges : Accept(e)
  \/ \E e \in Exchanges : HeadersArrive(e)
  \/ \E e \in Exchanges : HeaderExpires(e)
  \/ \E e \in Exchanges : ConnectionFails(e)
  \/ \E e \in Exchanges : BodyArrives(e)
  \/ \E e \in Exchanges : BodyTooLarge(e)
  \/ \E e \in Exchanges : ReadExpires(e)
  \/ \E e \in Exchanges : AnswerIsSent(e)
  \/ \E e \in Exchanges : WriteExpires(e)
  \/ SignalArrives
  \/ \E e \in Exchanges : ShutdownClosesIdle(e)
  \/ ShutdownReturns
  \/ ShutdownExpires
  \/ Tick

(* Time passes, and what is due happens.                                   *)
Fairness ==
  /\ WF_vars(Tick)
  /\ WF_vars(ShutdownExpires)
  /\ \A e \in Exchanges : WF_vars(Expiry(e))

Spec == Init /\ [][Next]_vars /\ Fairness

-----------------------------------------------------------------------------
(* Properties.                                                             *)

(* Every variable has its type; in particular no timer runs past zero.     *)
TypeOK ==
  /\ waiting \in Exchanges \union {NoExchange}
  /\ pageLeft \in 0..RequestTimeout
  /\ told \in [of : Texts \union {NoText},
               what : {"nothing", "fileTooLarge", "timeout", "unavailable"} \union Answers]
  /\ phase \in [Exchanges -> Phases]
  /\ text \in [Exchanges -> Texts \union {NoText}]
  /\ answer \in [Exchanges -> Answers]
  /\ headerLeft \in [Exchanges -> 0..ReadHeaderTimeout]
  /\ readLeft \in [Exchanges -> 0..ReadTimeout]
  /\ writeLeft \in [Exchanges -> 0..WriteTimeout]
  /\ process \in {"running", "stopping", "stopped", "failed"}
  /\ stopLeft \in 0..WriteTimeout
  /\ early \subseteq Exchanges
  /\ away \in 0..RequestTimeout

(* REQUEST_TIMEOUT_MS against the server's timeouts: the page gives up     *)
(* only when the request took its time to reach the server, or the answer  *)
(* to come back; the server alone never keeps the page waiting that long.  *)
TimeoutMeansTheNetwork ==
  waiting # NoExchange /\ pageLeft = 0 => away >= RequestTimeout - WriteTimeout

(* run() lets Shutdown wait for WriteTimeout: when that is not enough, it  *)
(* is not because of a request that was there before the signal, unless    *)
(* that one's own time to be answered is up as well.                       *)
EarlyRequestsAreNotCutOff ==
  [][process' = "failed" /\ process # "failed" =>
       \A e \in early : phase[e] \in {"body", "writing"} => writeLeft[e] = 0]_vars

(* The system does what InspectionService promises.                        *)
Service ==
  INSTANCE InspectionService WITH
    Inspectable <- {t \in Texts : Size[t] <= MaxRequestSize},
    Loadable    <- {t \in Texts : Size[t] <= MaxClientFileSize},
    Patience    <- RequestTimeout,
    Nothing     <- NoText,
    question    <- IF waiting = NoExchange THEN NoText ELSE text[waiting],
    left        <- pageLeft

KeepsServicePromise == Service!Spec

=============================================================================
