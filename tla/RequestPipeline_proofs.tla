----------------------- MODULE RequestPipeline_proofs -----------------------
(***************************************************************************)
(* Proofs about one exchange, for any limit and any sizes of bodies.       *)
(***************************************************************************)
EXTENDS RequestPipeline, TLAPS

Handling == {"reading", "parsing", "answering", "writing"}

(* Where control can be in the chain, in each mode.                        *)
DepthInv ==
  /\ mode = "calling" => depth \in 0..4
  /\ mode \in Handling => depth = 5
  /\ mode = "panicking" => depth \in 3..5
  /\ mode = "returning" => depth \in 0..5
  /\ mode = "done" => depth = 0

(* Which headers are set by the time that something can be sent.           *)
HeaderInv ==
  /\ mode # "calling" \/ depth >= 1 => "X-Request-ID" \in header
  /\ mode # "calling" \/ depth >= 4 => "security" \in header
  /\ mode # "calling" /\ request.route = "parse" => "Cache-Control" \in header
  /\ ResponsesAreMarked
  /\ CSRAnswersAreNotStored

(* The recorder has what net/http has, and the log what the recorder had   *)
(* when AccessLog returned: nothing is written after that.                 *)
RecorderInv ==
  /\ recorder.status = wire.status
  /\ recorder.bytes = wire.bytes
  /\ mode \in {"calling", "reading", "parsing", "answering"} => wire.status = 0 /\ wire.bytes = 0
  /\ mode = "calling" => accessLog = NoEntry
  /\ accessLog # NoEntry => mode \in {"returning", "done"} /\ depth <= 1 /\ LogTellsTheTruth
  /\ mode = "done" \/ (mode = "returning" /\ depth <= 1) =>
       accessLog # NoEntry \/ (request.route = "health" /\ wire.status = 200)

(* What is sent is what was decided, or the error of Recover.              *)
AnswerInv ==
  /\ mode \in {"calling", "reading", "parsing"} => answer = 0 /\ code = "none"
  /\ mode \in {"answering", "writing"} => answer # 0
  /\ mode = "writing" => wire.status = answer
  /\ mode = "panicking" => wire.status \in {0, answer}
  /\ mode \in {"returning", "done"} =>
       wire.status # 0 /\ (wire.status = answer \/ (panicked /\ wire.status = 500))
  /\ answer = 500 => FALSE
  /\ answer = 413 => code = "request_too_large"

BodyInv ==
  /\ code = "request_too_large" => request.size > MaxRequestSize
  /\ request.arrives <= request.size
  /\ OnlyWholeBodiesAreParsed

PipelineInv == TypeOK /\ DepthInv /\ HeaderInv /\ RecorderInv /\ AnswerInv /\ BodyInv

-----------------------------------------------------------------------------
(* The chain, and the writer of the layers inside AccessLog.               *)

LEMMA ChainFacts ==
  /\ Len(Chain) = 4
  /\ Chain[1] = "RequestID" /\ Chain[2] = "AccessLog"
  /\ Chain[3] = "Recover" /\ Chain[4] = "SecurityHeaders"
BY DEF Chain

LEMMA InnerLayersAreRecorded ==
  ASSUME depth \in 3..5
  PROVE  Recorded
<1>1. 2 \in 1..(depth-1) /\ Chain[2] = "AccessLog"
  BY ChainFacts
<1> QED
  BY <1>1 DEF Recorded

LEMMA LayerDepths ==
  ASSUME depth \in Nat
  PROVE  /\ Calls("RequestID") => depth = 0 /\ depth' = 1
         /\ Calls("AccessLog") => depth = 1 /\ depth' = 2
         /\ Calls("Recover") => depth = 2 /\ depth' = 3
         /\ Calls("SecurityHeaders") => depth = 3 /\ depth' = 4
         /\ Leaves("RequestID") => depth = 1 /\ depth' = 0
         /\ Leaves("AccessLog") => depth = 2 /\ depth' = 1
         /\ Leaves("Recover") => depth = 3 /\ depth' = 2
         /\ Leaves("SecurityHeaders") => depth = 4 /\ depth' = 3
<1>1. ASSUME NEW layer, Calls(layer)
      PROVE  \/ depth = 0 /\ layer = "RequestID" /\ depth' = 1
             \/ depth = 1 /\ layer = "AccessLog" /\ depth' = 2
             \/ depth = 2 /\ layer = "Recover" /\ depth' = 3
             \/ depth = 3 /\ layer = "SecurityHeaders" /\ depth' = 4
  <2>1. depth \in {0, 1, 2, 3} /\ layer = Chain[depth + 1] /\ depth' = depth + 1
    BY <1>1, ChainFacts DEF Calls
  <2> QED
    BY <2>1, ChainFacts
<1>2. ASSUME NEW layer, Leaves(layer)
      PROVE  \/ depth = 1 /\ layer = "RequestID" /\ depth' = 0
             \/ depth = 2 /\ layer = "AccessLog" /\ depth' = 1
             \/ depth = 3 /\ layer = "Recover" /\ depth' = 2
             \/ depth = 4 /\ layer = "SecurityHeaders" /\ depth' = 3
  <2>1. depth \in {1, 2, 3, 4} /\ layer = Chain[depth] /\ depth' = depth - 1
    BY <1>2, ChainFacts DEF Leaves
  <2> QED
    BY <2>1, ChainFacts
<1>3. /\ Calls("RequestID") => depth = 0 /\ depth' = 1
      /\ Calls("AccessLog") => depth = 1 /\ depth' = 2
      /\ Calls("Recover") => depth = 2 /\ depth' = 3
      /\ Calls("SecurityHeaders") => depth = 3 /\ depth' = 4
  BY <1>1
<1>4. /\ Leaves("RequestID") => depth = 1 /\ depth' = 0
      /\ Leaves("AccessLog") => depth = 2 /\ depth' = 1
      /\ Leaves("Recover") => depth = 3 /\ depth' = 2
      /\ Leaves("SecurityHeaders") => depth = 4 /\ depth' = 3
  BY <1>2
<1> QED
  BY <1>3, <1>4

LEMMA InitPipelineInv == Init => PipelineInv
<1> SUFFICES ASSUME Init PROVE PipelineInv
  OBVIOUS
<1>1. TypeOK
  <2>1. NoEntry \in Entries /\ NoResponse \in Responses
    BY DEF NoEntry, NoResponse, Entries, Responses
  <2>2. out \in [recorder : Entries, wire : Responses]
    BY <2>1 DEF Init
  <2>3. mode \in Modes /\ code \in Codes /\ answer \in Statuses \union {0} /\ depth \in 0..(Len(Chain) + 1)
    BY ChainFacts DEF Init, Modes, Codes
  <2>4. header \subseteq HeaderNames /\ panicked \in BOOLEAN /\ accessLog \in Entries
    BY <2>1 DEF Init
  <2>5. request \in [route : Routes, size : Sizes, arrives : Sizes]
    BY DEF Init
  <2> QED
    BY <2>2, <2>3, <2>4, <2>5 DEF TypeOK
<1>2. request.size \in Nat /\ request.arrives \in Nat
  BY PipelineAssumption DEF Init
<1>3. DepthInv /\ HeaderInv /\ RecorderInv /\ AnswerInv
  BY DEF Init, DepthInv, HeaderInv, RecorderInv, AnswerInv, NoEntry, NoResponse, recorder, wire, Handling,
         ResponsesAreMarked, CSRAnswersAreNotStored, LogTellsTheTruth
<1>4. BodyInv
  BY DEF Init, BodyInv, OnlyWholeBodiesAreParsed, NoResponse, wire, ParseCodes, BadRequestCodes,
         UnprocessableCodes
<1> QED
  BY <1>1, <1>3, <1>4 DEF PipelineInv

-----------------------------------------------------------------------------
(* Writing through the recorder.                                           *)

Writers == [recorder : Entries, wire : Responses]

Agree(o) == o.recorder.status = o.wire.status /\ o.recorder.bytes = o.wire.bytes

LEMMA WriteHeaderFacts ==
  ASSUME Recorded, NEW o \in Writers, Agree(o), NEW status \in Statuses, NEW names \in SUBSET HeaderNames
  PROVE  /\ WriteHeader(o, status, names) \in Writers
         /\ Agree(WriteHeader(o, status, names))
         /\ WriteHeader(o, status, names).wire.bytes = o.wire.bytes
         /\ o.wire.status # 0 => WriteHeader(o, status, names) = o
         /\ o.wire.status = 0 => /\ WriteHeader(o, status, names).wire.status = status
                                /\ WriteHeader(o, status, names).wire.header = names
<1>1. CASE o.wire.status # 0
  BY <1>1 DEF WriteHeader, Agree, Writers
<1>2. CASE o.wire.status = 0
  <2> DEFINE r == [o.recorder EXCEPT !.status = status]
             w == [o.wire EXCEPT !.status = status, !.header = names]
  <2>1. WriteHeader(o, status, names) = [recorder |-> r, wire |-> w]
    BY <1>2 DEF WriteHeader, Agree
  <2>2. r \in Entries /\ r.status = status /\ r.bytes = o.recorder.bytes
    BY DEF Writers, Entries
  <2>3. w \in Responses /\ w.status = status /\ w.bytes = o.wire.bytes /\ w.header = names
    BY DEF Writers, Responses
  <2> HIDE DEF r, w
  <2> QED
    BY <1>2, <2>1, <2>2, <2>3 DEF Agree, Writers
<1> QED
  BY <1>1, <1>2

LEMMA WriteFacts ==
  ASSUME Recorded, NEW o \in Writers, Agree(o), NEW accepted \in 0..1
  PROVE  /\ Write(o, accepted) \in Writers
         /\ Agree(Write(o, accepted))
         /\ Write(o, accepted).wire.status = o.wire.status
         /\ Write(o, accepted).wire.header = o.wire.header
BY DEF Writers, Entries, Responses, Write, Agree

-----------------------------------------------------------------------------
(* The steps.                                                              *)

LEMMA NextPipelineInv == PipelineInv /\ [Next]_vars => PipelineInv'
<1> SUFFICES ASSUME PipelineInv, [Next]_vars PROVE PipelineInv'
  OBVIOUS
<1> USE DEF PipelineInv
<1>0. /\ depth \in Nat /\ depth \in 0..5
      /\ out \in Writers /\ Agree(out)
      /\ request.size \in Nat /\ request.arrives \in Nat
  <2>1. depth \in 0..5
    BY ChainFacts DEF TypeOK
  <2>2. out \in Writers
    BY DEF TypeOK, Writers
  <2>3. Agree(out)
    BY DEF Agree, RecorderInv, recorder, wire
  <2>4. request.size \in Nat /\ request.arrives \in Nat
    BY PipelineAssumption DEF TypeOK
  <2> QED
    BY <2>1, <2>2, <2>3, <2>4
<1>1. CASE UNCHANGED vars
  BY <1>1 DEF vars, TypeOK, DepthInv, HeaderInv, RecorderInv, AnswerInv, BodyInv, recorder, wire,
              ResponsesAreMarked, CSRAnswersAreNotStored, LogTellsTheTruth, OnlyWholeBodiesAreParsed
<1>2. CASE RequestID
  <2>1. depth = 0 /\ depth' = 1 /\ mode = "calling"
    BY <1>0, <1>2, LayerDepths DEF RequestID, Calls
  <2>2. TypeOK' /\ DepthInv'
    BY <1>2, <2>1, ChainFacts DEF RequestID, TypeOK, DepthInv, HeaderNames, Handling
  <2>3. HeaderInv' /\ RecorderInv' /\ AnswerInv' /\ BodyInv'
    BY <1>2, <2>1 DEF RequestID, HeaderInv, RecorderInv, AnswerInv, BodyInv, recorder, wire,
        ResponsesAreMarked, CSRAnswersAreNotStored, LogTellsTheTruth, OnlyWholeBodiesAreParsed
  <2> QED
    BY <2>2, <2>3
<1>3. CASE AccessLog
  <2>1. depth = 1 /\ depth' = 2 /\ mode = "calling"
    BY <1>0, <1>3, LayerDepths DEF AccessLog, Calls
  <2>2. NoEntry \in Entries /\ NoEntry.status = 0 /\ NoEntry.bytes = 0
    BY DEF NoEntry, Entries
  <2>3. out' \in Writers /\ out'.wire = out.wire /\ out'.recorder = NoEntry
    BY <1>0, <1>3, <2>2 DEF AccessLog, Writers
  <2>4. TypeOK' /\ DepthInv'
    BY <1>3, <2>1, <2>3, ChainFacts DEF AccessLog, TypeOK, DepthInv, Handling, Writers
  <2>5. HeaderInv' /\ RecorderInv' /\ AnswerInv' /\ BodyInv'
    BY <1>3, <2>1, <2>2, <2>3 DEF AccessLog, HeaderInv, RecorderInv, AnswerInv, BodyInv, recorder, wire,
        ResponsesAreMarked, CSRAnswersAreNotStored, LogTellsTheTruth, OnlyWholeBodiesAreParsed
  <2> QED
    BY <2>4, <2>5
<1>4. CASE Recover
  <2>1. depth = 2 /\ depth' = 3 /\ mode = "calling"
    BY <1>0, <1>4, LayerDepths DEF Recover, Calls
  <2>2. TypeOK' /\ DepthInv'
    BY <1>4, <2>1, ChainFacts DEF Recover, TypeOK, DepthInv, Handling
  <2>3. HeaderInv' /\ RecorderInv' /\ AnswerInv' /\ BodyInv'
    BY <1>4, <2>1 DEF Recover, HeaderInv, RecorderInv, AnswerInv, BodyInv, recorder, wire,
        ResponsesAreMarked, CSRAnswersAreNotStored, LogTellsTheTruth, OnlyWholeBodiesAreParsed
  <2> QED
    BY <2>2, <2>3
<1>5. CASE SecurityHeaders
  <2>1. depth = 3 /\ depth' = 4 /\ mode = "calling"
    BY <1>0, <1>5, LayerDepths DEF SecurityHeaders, Calls
  <2>2. TypeOK' /\ DepthInv'
    BY <1>5, <2>1, ChainFacts DEF SecurityHeaders, TypeOK, DepthInv, HeaderNames, Handling
  <2>3. HeaderInv' /\ RecorderInv' /\ AnswerInv' /\ BodyInv'
    BY <1>5, <2>1 DEF SecurityHeaders, HeaderInv, RecorderInv, AnswerInv, BodyInv, recorder, wire,
        ResponsesAreMarked, CSRAnswersAreNotStored, LogTellsTheTruth, OnlyWholeBodiesAreParsed
  <2> QED
    BY <2>2, <2>3
<1>6. CASE Health \/ Static \/ Mux
  <2>1. /\ depth = 4 /\ depth' = 5 /\ mode = "calling" /\ mode' = "answering"
        /\ answer' \in Statuses \ {413, 500} /\ request.route # "parse"
        /\ UNCHANGED <<request, code, header, out, panicked, accessLog>>
    BY <1>6, ChainFacts DEF Health, Static, Mux, Called, Statuses
  <2>2. TypeOK' /\ DepthInv'
    BY <2>1, ChainFacts DEF TypeOK, DepthInv, Handling, Modes, Statuses
  <2>3. HeaderInv' /\ RecorderInv' /\ AnswerInv' /\ BodyInv'
    BY <2>1 DEF HeaderInv, RecorderInv, AnswerInv, BodyInv, recorder, wire, Statuses,
        ResponsesAreMarked, CSRAnswersAreNotStored, LogTellsTheTruth, OnlyWholeBodiesAreParsed
  <2> QED
    BY <2>2, <2>3
<1>7. CASE ParseCSR
  <2>1. depth = 4 /\ depth' = 5 /\ mode = "calling" /\ mode' = "reading" /\ request.route = "parse"
    BY <1>7, ChainFacts DEF ParseCSR, Called
  <2>2. TypeOK' /\ DepthInv'
    BY <1>7, <2>1, ChainFacts DEF ParseCSR, TypeOK, DepthInv, Handling, Modes, HeaderNames
  <2>3. HeaderInv' /\ RecorderInv' /\ AnswerInv' /\ BodyInv'
    BY <1>7, <2>1 DEF ParseCSR, HeaderInv, RecorderInv, AnswerInv, BodyInv, recorder, wire,
        ResponsesAreMarked, CSRAnswersAreNotStored, LogTellsTheTruth, OnlyWholeBodiesAreParsed
  <2> QED
    BY <2>2, <2>3
<1>8. ASSUME NEW c \in Codes, NEW status \in Statuses \ {500}, Decide(c, status),
             mode \in {"reading", "parsing"},
             status = 413 => c = "request_too_large",
             c \in ParseCodes => request.arrives = request.size /\ request.size <= MaxRequestSize,
             c = "request_too_large" => request.size > MaxRequestSize,
             c = "read_request_failed" => request.arrives < request.size
      PROVE  PipelineInv'
  <2>1. mode' = "answering" /\ UNCHANGED <<request, depth, header, out, panicked, accessLog>>
    BY <1>8 DEF Decide
  <2>2. depth = 5 /\ wire.status = 0
    BY <1>8 DEF DepthInv, RecorderInv, Handling
  <2>3. TypeOK' /\ DepthInv'
    BY <1>8, <2>1, <2>2, ChainFacts DEF Decide, TypeOK, DepthInv, Handling, Modes
  <2>4. HeaderInv' /\ RecorderInv'
    BY <1>8, <2>1, <2>2 DEF HeaderInv, RecorderInv, recorder, wire,
        ResponsesAreMarked, CSRAnswersAreNotStored, LogTellsTheTruth
  <2>5. AnswerInv' /\ BodyInv'
    BY <1>8, <2>1, <2>2 DEF Decide, AnswerInv, BodyInv, wire, OnlyWholeBodiesAreParsed, Statuses
  <2> QED
    BY <2>3, <2>4, <2>5
<1>9. CASE RejectTooLarge
  <2>1. request.size > MaxRequestSize
    BY <1>0, <1>9, PipelineAssumption DEF RejectTooLarge, TooLarge, BodyInv
  <2>2. "request_too_large" \in Codes \ ParseCodes
    BY DEF Codes, ParseCodes, BadRequestCodes, UnprocessableCodes
  <2> QED
    BY <1>8, <1>9, <2>1, <2>2 DEF RejectTooLarge, Statuses
<1>10. CASE RejectUnreadable
  <2>1. request.arrives < request.size
    BY <1>10 DEF RejectUnreadable, CutShort
  <2>2. "read_request_failed" \in Codes \ ParseCodes
    BY DEF Codes, ParseCodes, BadRequestCodes, UnprocessableCodes
  <2> QED
    BY <1>8, <1>10, <2>1, <2>2 DEF RejectUnreadable, Statuses
<1>11. CASE ReadBody
  <2>1. depth = 5 /\ wire.status = 0 /\ code = "none"
    BY <1>11 DEF ReadBody, DepthInv, RecorderInv, AnswerInv, Handling
  <2>2. request.arrives = request.size /\ request.size <= MaxRequestSize
    BY <1>0, <1>11, PipelineAssumption DEF ReadBody, TooLarge, CutShort, BodyInv
  <2>3. TypeOK' /\ DepthInv'
    BY <1>11, <2>1, ChainFacts DEF ReadBody, TypeOK, DepthInv, Handling, Modes
  <2>4. HeaderInv' /\ RecorderInv' /\ AnswerInv' /\ BodyInv'
    BY <1>11, <2>1, <2>2 DEF ReadBody, HeaderInv, RecorderInv, AnswerInv, BodyInv, recorder, wire,
        ResponsesAreMarked, CSRAnswersAreNotStored, LogTellsTheTruth, OnlyWholeBodiesAreParsed
  <2> QED
    BY <2>3, <2>4
<1>12. CASE Parse
  <2>1. PICK c \in ParseCodes : Decide(c, ParseStatus(c)) /\ mode = "parsing"
    BY <1>12 DEF Parse
  <2>2. ParseStatus(c) \in Statuses \ {413, 500}
    BY DEF ParseStatus, Statuses
  <2>3. c \in Codes /\ c # "request_too_large" /\ c # "read_request_failed"
    BY DEF Codes, ParseCodes, BadRequestCodes, UnprocessableCodes
  <2>4. request.arrives = request.size /\ request.size <= MaxRequestSize
    BY <2>1 DEF BodyInv, OnlyWholeBodiesAreParsed
  <2> QED
    BY <1>8, <2>1, <2>2, <2>3, <2>4
<1>13. CASE WriteStatus
  <2>1. /\ depth = 5 /\ wire.status = 0 /\ mode = "answering" /\ answer \in Statuses /\ answer # 0
        /\ mode' \in {"writing", "returning"}
        /\ accessLog = NoEntry
    BY <1>13 DEF WriteStatus, DepthInv, RecorderInv, AnswerInv, Handling, TypeOK
  <2>2. header' = header \union {"Content-Type"} /\ header' \in SUBSET HeaderNames
    BY <1>13 DEF WriteStatus, TypeOK, HeaderNames
  <2>3. out' \in Writers /\ Agree(out') /\ out'.wire.status = answer /\ out'.wire.header = header'
    BY <1>0, <1>13, <2>1, <2>2, InnerLayersAreRecorded, WriteHeaderFacts DEF WriteStatus, wire
  <2>4. UNCHANGED <<request, depth, code, answer, panicked, accessLog>>
    BY <1>13 DEF WriteStatus
  <2>5. TypeOK' /\ DepthInv'
    BY <2>1, <2>2, <2>3, <2>4, ChainFacts DEF TypeOK, DepthInv, Handling, Modes, Writers
  <2>6. HeaderInv'
    BY <2>1, <2>2, <2>3, <2>4 DEF HeaderInv, AnswerInv, wire, ResponsesAreMarked, CSRAnswersAreNotStored
  <2>7. RecorderInv'
    BY <2>1, <2>3, <2>4 DEF RecorderInv, Agree, recorder, wire
  <2>8. AnswerInv' /\ BodyInv'
    BY <2>1, <2>3, <2>4 DEF AnswerInv, BodyInv, wire, OnlyWholeBodiesAreParsed
  <2> QED
    BY <2>5, <2>6, <2>7, <2>8
<1>14. CASE WriteBody
  <2>1. PICK accepted \in 0..1 : out' = Write(out, accepted)
    BY <1>14 DEF WriteBody
  <2>2. /\ depth = 5 /\ mode = "writing" /\ mode' = "returning" /\ accessLog = NoEntry
        /\ answer # 0 /\ wire.status = answer
        /\ UNCHANGED <<request, depth, code, answer, header, panicked, accessLog>>
    BY <1>14 DEF WriteBody, DepthInv, RecorderInv, AnswerInv, Handling
  <2>3. out' \in Writers /\ Agree(out') /\ out'.wire.status = wire.status /\ out'.wire.header = wire.header
    BY <1>0, <2>1, <2>2, InnerLayersAreRecorded, WriteFacts DEF wire
  <2>4. TypeOK' /\ DepthInv'
    BY <2>2, <2>3, ChainFacts DEF TypeOK, DepthInv, Handling, Modes, Writers
  <2>5. HeaderInv'
    BY <2>2, <2>3 DEF HeaderInv, wire, ResponsesAreMarked, CSRAnswersAreNotStored
  <2>6. RecorderInv'
    BY <2>2, <2>3 DEF RecorderInv, Agree, recorder, wire
  <2>7. AnswerInv' /\ BodyInv'
    BY <2>2, <2>3 DEF AnswerInv, BodyInv, wire, OnlyWholeBodiesAreParsed
  <2> QED
    BY <2>4, <2>5, <2>6, <2>7
<1>15. CASE HandlerPanics
  <2>1. /\ depth = 5 /\ mode' = "panicking" /\ mode # "calling" /\ wire.status \in {0, answer}
        /\ accessLog = NoEntry
        /\ UNCHANGED <<request, depth, code, answer, header, out, panicked, accessLog>>
    BY <1>15 DEF HandlerPanics, DepthInv, RecorderInv, AnswerInv, Handling
  <2>2. TypeOK' /\ DepthInv'
    BY <2>1, ChainFacts DEF TypeOK, DepthInv, Handling, Modes
  <2>3. HeaderInv' /\ RecorderInv' /\ AnswerInv' /\ BodyInv'
    BY <2>1 DEF HeaderInv, RecorderInv, AnswerInv, BodyInv, recorder, wire,
        ResponsesAreMarked, CSRAnswersAreNotStored, LogTellsTheTruth, OnlyWholeBodiesAreParsed
  <2> QED
    BY <2>2, <2>3
<1>16. CASE LeaveHandler \/ LeaveLayer
  <2>1. /\ mode \in {"returning", "panicking"} /\ depth' = depth - 1
        /\ UNCHANGED <<request, mode, code, answer, header, out, panicked, accessLog>>
    BY <1>16, ChainFacts DEF LeaveHandler, LeaveLayer, Leaves
  <2>2. /\ depth \in {1, 2, 3, 4, 5}
        /\ mode = "returning" => depth # 2
        /\ mode = "panicking" => depth # 3
    <3>1. CASE LeaveHandler
      BY <3>1, ChainFacts DEF LeaveHandler
    <3>2. CASE LeaveLayer
      BY <1>0, <2>1, <3>2, LayerDepths DEF LeaveLayer
    <3> QED
      BY <1>16, <3>1, <3>2
  <2>3. TypeOK' /\ DepthInv'
    BY <2>1, <2>2, ChainFacts DEF TypeOK, DepthInv, Handling
  <2>4. HeaderInv' /\ AnswerInv' /\ BodyInv'
    BY <2>1 DEF HeaderInv, AnswerInv, BodyInv, wire, ResponsesAreMarked, CSRAnswersAreNotStored,
                OnlyWholeBodiesAreParsed
  <2>5. RecorderInv'
    BY <2>1, <2>2 DEF RecorderInv, recorder, wire, LogTellsTheTruth
  <2> QED
    BY <2>3, <2>4, <2>5
<1>17. CASE RecoverPanic
  <2>1. /\ depth = 3 /\ depth' = 2 /\ mode = "panicking" /\ mode' = "returning" /\ panicked' = TRUE
        /\ accessLog = NoEntry /\ wire.status \in {0, answer}
        /\ UNCHANGED <<request, code, answer, accessLog>>
    BY <1>0, <1>17, LayerDepths DEF RecoverPanic, RecorderInv, AnswerInv
  <2>2. /\ header' = header \union {"Cache-Control", "Content-Type"}
        /\ header' \in SUBSET HeaderNames
        /\ {"X-Request-ID", "security"} \subseteq header
    BY <1>17, <2>1 DEF RecoverPanic, TypeOK, HeaderInv, HeaderNames
  <2>3. PICK accepted \in 0..1 : out' = Write(WriteHeader(out, 500, header'), accepted)
    BY <1>17 DEF RecoverPanic
  <2>4. Recorded /\ 500 \in Statuses
    BY <2>1, InnerLayersAreRecorded DEF Statuses
  <2> DEFINE sent == WriteHeader(out, 500, header')
  <2>5. /\ sent \in Writers /\ Agree(sent)
        /\ wire.status # 0 => sent = out
        /\ wire.status = 0 => sent.wire.status = 500 /\ sent.wire.header = header'
    BY <1>0, <2>2, <2>4, WriteHeaderFacts DEF wire
  <2> HIDE DEF sent
  <2>6. /\ out' \in Writers /\ Agree(out')
        /\ out'.wire.status = sent.wire.status /\ out'.wire.header = sent.wire.header
    BY <2>3, <2>4, <2>5, WriteFacts DEF sent
  <2>7. /\ out'.wire.status # 0
        /\ out'.wire.status = answer \/ out'.wire.status = 500
        /\ out'.wire.status = 413 => wire.status = 413
        /\ \/ out'.wire.status = wire.status /\ out'.wire.header = wire.header
           \/ out'.wire.header = header'
    BY <2>1, <2>5, <2>6 DEF wire
  <2>8. TypeOK' /\ DepthInv'
    BY <2>1, <2>2, <2>6, ChainFacts DEF TypeOK, DepthInv, Handling, Modes, Writers
  <2>9. HeaderInv'
    BY <2>1, <2>2, <2>7 DEF HeaderInv, wire, ResponsesAreMarked, CSRAnswersAreNotStored
  <2>10. RecorderInv'
    BY <2>1, <2>6 DEF RecorderInv, Agree, recorder, wire
  <2>11. AnswerInv' /\ BodyInv'
    BY <2>1, <2>7 DEF AnswerInv, BodyInv, wire, OnlyWholeBodiesAreParsed
  <2> QED
    BY <2>8, <2>9, <2>10, <2>11
<1>18. CASE LogAccess
  <2>1. /\ depth = 2 /\ depth' = 1 /\ mode = "returning" /\ wire.status # 0 /\ recorder.status = wire.status
        /\ recorder.bytes = wire.bytes
        /\ UNCHANGED <<request, mode, code, answer, header, out, panicked>>
    BY <1>0, <1>18, LayerDepths DEF LogAccess, RecorderInv, AnswerInv
  <2>2. \/ request.route = "health" /\ wire.status = 200 /\ accessLog' = accessLog
        \/ accessLog' = [status |-> recorder.status, bytes |-> recorder.bytes]
    BY <1>18, <2>1 DEF LogAccess, recorder
  <2>3. [status |-> recorder.status, bytes |-> recorder.bytes] \in Entries \ {NoEntry}
    BY <1>0, <2>1 DEF Entries, NoEntry, recorder, wire, Writers, Responses
  <2>4. TypeOK' /\ DepthInv'
    BY <2>1, <2>2, <2>3, ChainFacts DEF TypeOK, DepthInv, Handling
  <2>5. HeaderInv' /\ AnswerInv' /\ BodyInv'
    BY <2>1 DEF HeaderInv, AnswerInv, BodyInv, wire, ResponsesAreMarked, CSRAnswersAreNotStored,
                OnlyWholeBodiesAreParsed
  <2>6. RecorderInv'
    BY <2>1, <2>2, <2>3 DEF RecorderInv, recorder, wire, LogTellsTheTruth
  <2> QED
    BY <2>4, <2>5, <2>6
<1>19. CASE Finish
  <2>1. /\ depth = 0 /\ mode = "returning" /\ mode' = "done"
        /\ UNCHANGED <<request, depth, code, answer, header, out, panicked, accessLog>>
    BY <1>19 DEF Finish
  <2>2. TypeOK' /\ DepthInv'
    BY <2>1, ChainFacts DEF TypeOK, DepthInv, Handling, Modes
  <2>3. HeaderInv' /\ RecorderInv' /\ AnswerInv' /\ BodyInv'
    BY <2>1 DEF HeaderInv, RecorderInv, AnswerInv, BodyInv, recorder, wire,
        ResponsesAreMarked, CSRAnswersAreNotStored, LogTellsTheTruth, OnlyWholeBodiesAreParsed
  <2> QED
    BY <2>2, <2>3
<1> QED
  BY <1>1, <1>2, <1>3, <1>4, <1>5, <1>6, <1>7, <1>9, <1>10, <1>11, <1>12, <1>13, <1>14, <1>15, <1>16,
     <1>17, <1>18, <1>19 DEF Next

LEMMA SpecKeepsPipelineInv == Spec => []PipelineInv
BY InitPipelineInv, NextPipelineInv, PTL DEF Spec

-----------------------------------------------------------------------------
(* What the invariant says of the exchange.                                *)

(* Every variable keeps its type.                                          *)
THEOREM TypeCorrect == Spec => []TypeOK
<1>1. PipelineInv => TypeOK
  BY DEF PipelineInv
<1> QED
  BY <1>1, SpecKeepsPipelineInv, PTL

(* The access log has the status and the size that were sent.              *)
THEOREM LogIsTrue == Spec => []LogTellsTheTruth
<1>1. PipelineInv => LogTellsTheTruth
  BY DEF PipelineInv, RecorderInv, LogTellsTheTruth
<1> QED
  BY <1>1, SpecKeepsPipelineInv, PTL

(* Nothing but a successful health check goes without an entry.            *)
THEOREM AllAreLogged == Spec => []EveryRequestIsLogged
<1>1. PipelineInv => EveryRequestIsLogged
  BY DEF PipelineInv, RecorderInv, EveryRequestIsLogged
<1> QED
  BY <1>1, SpecKeepsPipelineInv, PTL

(* Every response has the identifier and the security headers.             *)
THEOREM AllAreMarked == Spec => []ResponsesAreMarked
<1>1. PipelineInv => ResponsesAreMarked
  BY DEF PipelineInv, HeaderInv
<1> QED
  BY <1>1, SpecKeepsPipelineInv, PTL

(* No answer of the parse endpoint, and no answer to a panic, is cached.   *)
THEOREM NoCSRIsStored == Spec => []CSRAnswersAreNotStored
<1>1. PipelineInv => CSRAnswersAreNotStored
  BY DEF PipelineInv, HeaderInv
<1> QED
  BY <1>1, SpecKeepsPipelineInv, PTL

(* ParsePEM sees whole bodies within the limit and no others.              *)
THEOREM BodiesAreWhole == Spec => []OnlyWholeBodiesAreParsed
<1>1. PipelineInv => OnlyWholeBodiesAreParsed
  BY DEF PipelineInv, BodyInv
<1> QED
  BY <1>1, SpecKeepsPipelineInv, PTL

(* Every request is answered as decided, or with the error of Recover.     *)
THEOREM AllAreAnswered == Spec => []EveryRequestIsAnswered
<1>1. PipelineInv => EveryRequestIsAnswered
  BY DEF PipelineInv, AnswerInv, EveryRequestIsAnswered
<1> QED
  BY <1>1, SpecKeepsPipelineInv, PTL

=============================================================================
