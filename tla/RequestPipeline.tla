-------------------------- MODULE RequestPipeline --------------------------
(***************************************************************************)
(* One HTTP exchange: the middleware of middleware.go around the routers   *)
(* and the handlers of handler.go.                                         *)
(*                                                                         *)
(* A handler is called through the layers of Chain, outermost first, and   *)
(* control comes back through them in reverse, by return or by panic.      *)
(* Exchanges share no state, so one of them is modelled.  net/http, the    *)
(* routers and the file server are external.                               *)
(***************************************************************************)
EXTENDS Naturals, Sequences

CONSTANTS
  Sizes,            \* sizes of request bodies
  MaxRequestSize    \* the limit of the configuration

ASSUME PipelineAssumption == Sizes \subseteq Nat /\ MaxRequestSize \in Nat \ {0}

(* run() of main.go                                                        *)
Chain_recoverOutside == <<"RequestID", "Recover", "AccessLog", "SecurityHeaders">>

Chain_withoutRecover == <<"RequestID", "AccessLog", "SecurityHeaders">>

Chain == <<"RequestID", "AccessLog", "Recover", "SecurityHeaders">>

(* The handler that the routers choose: of /health, of the parse endpoint, *)
(* of the page and its files, or the router's own answer.                  *)
Routes == {"health", "parse", "static", "mux"}

(* The answers of ParsePEM's outcomes, and the statuses they come with.    *)
BadRequestCodes == {"empty_request", "invalid_pem", "unsupported_pem_headers",
                    "unexpected_trailing_data"}
UnprocessableCodes == {"certificate_instead_of_csr", "private_key_instead_of_csr",
                       "unsupported_pem_type", "csr_parse_failed"}
ParseCodes == {"ok"} \union BadRequestCodes \union UnprocessableCodes
Codes      == ParseCodes \union {"none", "request_too_large", "read_request_failed"}
Statuses   == {200, 206, 301, 304, 307, 400, 404, 405, 412, 413, 416, 422, 500}

ParseStatus_created(code) ==
  IF code = "ok" THEN 201 ELSE IF code \in BadRequestCodes THEN 400 ELSE 422

ParseStatus(code) ==
  IF code = "ok" THEN 200 ELSE IF code \in BadRequestCodes THEN 400 ELSE 422

(* Header names; "security" stands for the seven of SecurityHeaders.       *)
HeaderNames == {"X-Request-ID", "security", "Cache-Control", "Content-Type"}

VARIABLES
  request,    \* the route, the size of the body, and how much of it arrives
  depth,      \* the number of layers that are active
  mode,       \* what the innermost active layer does: see Modes
  code,       \* the code of the answer that parseCSR has decided on
  answer,     \* the status that the handler is about to send, 0 before
  header,     \* the names set in writer.Header()
  out,        \* the responseRecorder of AccessLog, and what net/http sends
  panicked,   \* a panic was recovered, and logged
  accessLog   \* the entry of AccessLog

vars == <<request, depth, mode, code, answer, header, out, panicked, accessLog>>

Modes == {"calling", "reading", "parsing", "answering", "writing", "returning", "panicking", "done"}

Entries   == [status : Statuses \union {0}, bytes : Nat]
Responses == [status : Statuses \union {0}, bytes : Nat, header : SUBSET HeaderNames]

NoEntry    == [status |-> 0, bytes |-> 0]
NoResponse == [status |-> 0, bytes |-> 0, header |-> {}]

Init ==
  /\ request \in [route : Routes, size : Sizes, arrives : Sizes]
  /\ request.arrives <= request.size
  /\ depth = 0
  /\ mode = "calling"
  /\ code = "none"
  /\ answer = 0
  /\ header = {}
  /\ out = [recorder |-> NoEntry, wire |-> NoResponse]
  /\ panicked = FALSE
  /\ accessLog = NoEntry

-----------------------------------------------------------------------------
(* The writer.  The first WriteHeader decides on the status and takes the  *)
(* headers as they are; net/http ignores the later ones.                   *)

(* The writer of the active layer is AccessLog's responseRecorder.         *)
Recorded == \E i \in 1..(depth-1) : Chain[i] = "AccessLog"

WriteHeader_overwrites(o, status, names) ==
  [recorder |-> IF Recorded THEN [o.recorder EXCEPT !.status = status] ELSE o.recorder,
   wire     |-> IF o.wire.status = 0 THEN [o.wire EXCEPT !.status = status, !.header = names] ELSE o.wire]

WriteHeader(o, status, names) ==
  IF Recorded /\ o.recorder.status # 0
    THEN o
    ELSE [recorder |-> IF Recorded THEN [o.recorder EXCEPT !.status = status] ELSE o.recorder,
          wire     |-> IF o.wire.status = 0 THEN [o.wire EXCEPT !.status = status, !.header = names]
                                            ELSE o.wire]

(* Write, after a WriteHeader; net/http accepts fewer bytes than there are *)
(* when the connection has failed.  (Those it accepts for a HEAD request   *)
(* it counts too, although it does not send them.)                         *)
Write(o, accepted) ==
  [recorder |-> IF Recorded THEN [o.recorder EXCEPT !.bytes = @ + accepted] ELSE o.recorder,
   wire     |-> [o.wire EXCEPT !.bytes = @ + accepted]]

-----------------------------------------------------------------------------
(* Calling down the chain.                                                 *)

Calls(layer) == mode = "calling" /\ depth < Len(Chain) /\ Chain[depth + 1] = layer /\ depth' = depth + 1

RequestID ==
  /\ Calls("RequestID")
  /\ header' = header \union {"X-Request-ID"}
  /\ UNCHANGED <<request, mode, code, answer, out, panicked, accessLog>>

AccessLog ==
  /\ Calls("AccessLog")
  /\ out' = [out EXCEPT !.recorder = NoEntry]
  /\ UNCHANGED <<request, mode, code, answer, header, panicked, accessLog>>

Recover ==
  /\ Calls("Recover")
  /\ UNCHANGED <<request, mode, code, answer, header, out, panicked, accessLog>>

SecurityHeaders_afterwards ==
  /\ Calls("SecurityHeaders")
  /\ UNCHANGED <<request, mode, code, answer, header, out, panicked, accessLog>>

SecurityHeaders ==
  /\ Calls("SecurityHeaders")
  /\ header' = header \union {"security"}
  /\ UNCHANGED <<request, mode, code, answer, out, panicked, accessLog>>

-----------------------------------------------------------------------------
(* The handlers, at depth Len(Chain) + 1.                                  *)

Called(route) == mode = "calling" /\ depth = Len(Chain) /\ request.route = route /\ depth' = depth + 1

(* The router, the file server and health answer at once.  A file may be   *)
(* there (200, or by what the client asks for 206, 304, 412 and 416),      *)
(* under another path (301), or not at all; the router redirects to clean  *)
(* paths (307) and refuses other paths and methods.                        *)
Health ==
  /\ Called("health")
  /\ mode' = "answering"
  /\ answer' = 200
  /\ UNCHANGED <<request, code, header, out, panicked, accessLog>>

Static ==
  /\ Called("static")
  /\ mode' = "answering"
  /\ answer' \in {200, 206, 301, 304, 404, 412, 416}
  /\ UNCHANGED <<request, code, header, out, panicked, accessLog>>

Mux ==
  /\ Called("mux")
  /\ mode' = "answering"
  /\ answer' \in {307, 404, 405}
  /\ UNCHANGED <<request, code, header, out, panicked, accessLog>>

ParseCSR_keepsCaching ==
  /\ Called("parse")
  /\ mode' = "reading"
  /\ UNCHANGED <<request, code, answer, header, out, panicked, accessLog>>

ParseCSR ==
  /\ Called("parse")
  /\ mode' = "reading"
  /\ header' = header \union {"Cache-Control"}
  /\ UNCHANGED <<request, code, answer, out, panicked, accessLog>>

(* io.ReadAll through http.MaxBytesReader, which fails as soon as there is *)
(* a byte more than the limit; the connection fails when not all arrives.  *)
TooLarge_atLimit == request.arrives >= MaxRequestSize

TooLarge == request.arrives > MaxRequestSize

CutShort == request.arrives < request.size

Decide(c, status) ==
  /\ code' = c
  /\ answer' = status
  /\ mode' = "answering"
  /\ UNCHANGED <<request, depth, header, out, panicked, accessLog>>

RejectTooLarge   == mode = "reading" /\ TooLarge /\ Decide("request_too_large", 413)
RejectUnreadable == mode = "reading" /\ ~TooLarge /\ CutShort /\ Decide("read_request_failed", 400)

ReadBody ==
  /\ mode = "reading"
  /\ ~TooLarge
  /\ ~CutShort
  /\ mode' = "parsing"
  /\ UNCHANGED <<request, depth, code, answer, header, out, panicked, accessLog>>

(* The outcome of ParsePEM: an empty body can only be found empty.         *)
Parse ==
  /\ mode = "parsing"
  /\ \E c \in ParseCodes :
       /\ request.size = 0 => c = "empty_request"
       /\ Decide(c, ParseStatus(c))

(* writeJSON, http.Error and the file server: headers, then the status,    *)
(* then the body.                                                          *)
WriteStatus ==
  /\ mode = "answering"
  /\ header' = header \union {"Content-Type"}
  /\ out' = WriteHeader(out, answer, header')
  /\ mode' = IF answer \in {301, 304, 412} THEN "returning" ELSE "writing"
  /\ UNCHANGED <<request, depth, code, answer, panicked, accessLog>>

WriteBody ==
  /\ mode = "writing"
  /\ \E accepted \in 0..1 : out' = Write(out, accepted)
  /\ mode' = "returning"
  /\ UNCHANGED <<request, depth, code, answer, header, panicked, accessLog>>

(* A handler may panic wherever it is.                                     *)
HandlerPanics ==
  /\ mode \in {"reading", "parsing", "answering", "writing"}
  /\ mode' = "panicking"
  /\ UNCHANGED <<request, depth, code, answer, header, out, panicked, accessLog>>

-----------------------------------------------------------------------------
(* Coming back up the chain.  The handler is left first, then the layers.  *)

Leaves(layer) == depth \in 1..Len(Chain) /\ Chain[depth] = layer /\ depth' = depth - 1

LeaveHandler ==
  /\ mode \in {"returning", "panicking"}
  /\ depth = Len(Chain) + 1
  /\ depth' = depth - 1
  /\ UNCHANGED <<request, mode, code, answer, header, out, panicked, accessLog>>

(* A layer that does nothing after the call, or that a panic goes through. *)
LeaveLayer ==
  /\ \/ mode = "returning" /\ \E layer \in {"RequestID", "Recover", "SecurityHeaders"} : Leaves(layer)
     \/ mode = "panicking" /\ \E layer \in {"RequestID", "AccessLog", "SecurityHeaders"} : Leaves(layer)
  /\ UNCHANGED <<request, mode, code, answer, header, out, panicked, accessLog>>

(* The deferred function of Recover: http.Error after whatever was sent.   *)
RecoverPanic_silently ==
  /\ mode = "panicking"
  /\ Leaves("Recover")
  /\ mode' = "returning"
  /\ panicked' = TRUE
  /\ UNCHANGED <<request, code, answer, header, out, accessLog>>

RecoverPanic ==
  /\ mode = "panicking"
  /\ Leaves("Recover")
  /\ mode' = "returning"
  /\ panicked' = TRUE
  /\ header' = header \union {"Cache-Control", "Content-Type"}
  /\ \E accepted \in 0..1 : out' = Write(WriteHeader(out, 500, header'), accepted)
  /\ UNCHANGED <<request, code, answer, accessLog>>

LogAccess ==
  /\ mode = "returning"
  /\ Leaves("AccessLog")
  /\ LET status == IF out.recorder.status = 0 THEN 200 ELSE out.recorder.status
     IN accessLog' = IF request.route = "health" /\ status = 200
                       THEN accessLog
                       ELSE [status |-> status, bytes |-> out.recorder.bytes]
  /\ UNCHANGED <<request, mode, code, answer, header, out, panicked>>

Finish ==
  /\ mode = "returning"
  /\ depth = 0
  /\ mode' = "done"
  /\ UNCHANGED <<request, depth, code, answer, header, out, panicked, accessLog>>

Next ==
  \/ RequestID
  \/ AccessLog
  \/ Recover
  \/ SecurityHeaders
  \/ Health
  \/ Static
  \/ Mux
  \/ ParseCSR
  \/ RejectTooLarge
  \/ RejectUnreadable
  \/ ReadBody
  \/ Parse
  \/ WriteStatus
  \/ WriteBody
  \/ HandlerPanics
  \/ LeaveHandler
  \/ LeaveLayer
  \/ RecoverPanic
  \/ LogAccess
  \/ Finish

(* The goroutine of a request is scheduled, and no step waits for ever:    *)
(* ReadTimeout ends a read of the body, WriteTimeout a write.              *)
Fairness == WF_vars(Next)

Spec == Init /\ [][Next]_vars /\ Fairness

-----------------------------------------------------------------------------
(* Properties.                                                             *)

wire     == out.wire
recorder == out.recorder

(* Every variable has its type.                                            *)
TypeOK ==
  /\ request \in [route : Routes, size : Sizes, arrives : Sizes]
  /\ depth \in 0..(Len(Chain) + 1)
  /\ mode \in Modes
  /\ code \in Codes
  /\ answer \in Statuses \union {0}
  /\ header \subseteq HeaderNames
  /\ out \in [recorder : Entries, wire : Responses]
  /\ panicked \in BOOLEAN
  /\ accessLog \in Entries

(* AccessLog: the entry has the status that the client gets and the number *)
(* of bytes that net/http accepted for it, also when Recover writes an     *)
(* error after part of another answer.                                     *)
LogTellsTheTruth ==
  accessLog # NoEntry => accessLog.status = wire.status /\ accessLog.bytes = wire.bytes

(* AccessLog: every request is logged, one that panicked too, but for the  *)
(* successful health checks.                                               *)
EveryRequestIsLogged ==
  mode = "done" => accessLog # NoEntry \/ (request.route = "health" /\ wire.status = 200)

(* RequestID and SecurityHeaders: whatever answers, a panic included, the  *)
(* answer has the identifier and the security headers.                     *)
ResponsesAreMarked == wire.status # 0 => {"X-Request-ID", "security"} \subseteq wire.header

(* Handler.parseCSR and Recover: an answer about a request to parse, and   *)
(* the answer to a panic, may not be cached.                               *)
CSRAnswersAreNotStored ==
  wire.status # 0 /\ (request.route = "parse" \/ wire.status = 500) => "Cache-Control" \in wire.header

(* Handler.parseCSR: ParsePEM sees a body that has arrived whole and is    *)
(* within the limit, and sees every such body that no panic stops; 413     *)
(* goes to bodies over the limit only.                                     *)
OnlyWholeBodiesAreParsed ==
  /\ mode = "parsing" \/ code \in ParseCodes =>
       request.arrives = request.size /\ request.size <= MaxRequestSize
  /\ wire.status = 413 => request.size > MaxRequestSize
  /\ code \in {"request_too_large", "read_request_failed"} =>
       request.arrives < request.size \/ request.size > MaxRequestSize

(* Every request is answered: with what its handler decided on, or after a *)
(* panic that came before with 500.                                        *)
EveryRequestIsAnswered ==
  mode = "done" => wire.status # 0 /\ (wire.status = answer \/ (panicked /\ wire.status = 500))

(* No panic escapes the chain and no request is left in it.                *)
EveryRequestEnds == <>(mode = "done")

=============================================================================
