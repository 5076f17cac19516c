--------------------------- MODULE EndToEnd_proofs ---------------------------
(***************************************************************************)
(* What EndToEnd guarantees whatever the sizes, the limits and the length  *)
(* of the timeouts are, as long as they are in the order of config.go.     *)
(***************************************************************************)
EXTENDS EndToEnd, TLAPS

(* A deadline that is not waited for yet is not over before the one that   *)
(* is: no timer passes zero.                                               *)
TimersAreInOrder ==
  \A e \in Exchanges :
    /\ phase[e] = "headers" => headerLeft[e] <= readLeft[e]
    /\ phase[e] = "body" => readLeft[e] <= writeLeft[e]

(* How long the page has waited for what is not `away'.                    *)
InTheServer == RequestTimeout - pageLeft - away

(* The time in the server is what is gone of the WriteTimeout.             *)
WaitIsAccounted ==
  waiting # NoExchange =>
    /\ phase[waiting] # "free"
    /\ phase[waiting] \in {"connecting", "headers"} => InTheServer = 0
    /\ phase[waiting] \in {"body", "writing"} => InTheServer = WriteTimeout - writeLeft[waiting]
    /\ phase[waiting] \in {"replying", "lost"} => InTheServer >= 0 /\ InTheServer <= WriteTimeout

(* An exchange is about a text, and its answer is possible for that text.  *)
AnswersArePossible ==
  \A e \in Exchanges :
    /\ phase[e] # "free" => text[e] \in Texts
    /\ phase[e] \in {"writing", "replying"} <=> answer[e] # "none"
    /\ answer[e] \in {"report", "refused"} => text[e] \in Texts /\ Size[text[e]] <= MaxRequestSize
    /\ answer[e] = "report" => text[e] \in WellFormed
    /\ answer[e] = "refused" => text[e] \notin WellFormed
    /\ answer[e] = "tooLarge" => text[e] \in Texts /\ Size[text[e]] > MaxRequestSize

(* Requests that are older than the signal are due before the shutdown is. *)
EarlyIsDueFirst ==
  \A e \in early :
    /\ phase[e] \in {"body", "writing"}
    /\ process = "stopping" => writeLeft[e] <= stopLeft

EndToEndInv ==
  /\ TypeOK
  /\ TimersAreInOrder
  /\ WaitIsAccounted
  /\ AnswersArePossible
  /\ EarlyIsDueFirst

LEMMA InitEndToEndInv == Init => EndToEndInv
<1> SUFFICES ASSUME Init PROVE EndToEndInv
  OBVIOUS
<1> USE EndToEndAssumption DEF Init
<1>1. TypeOK
  BY DEF TypeOK, Phases, Answers, Word
<1>2. TimersAreInOrder /\ WaitIsAccounted /\ AnswersArePossible /\ EarlyIsDueFirst
  BY DEF TimersAreInOrder, WaitIsAccounted, AnswersArePossible, EarlyIsDueFirst
<1> QED
  BY <1>1, <1>2 DEF EndToEndInv

(* The server loses a connection.                                          *)
LEMMA LoseStep ==
  ASSUME EndToEndInv, NEW e \in Exchanges, phase[e] # "free", Lose(e)
  PROVE  EndToEndInv'
<1> USE EndToEndAssumption DEF EndToEndInv, Lose, Release, pageVars, processVars
<1>1. TypeOK'
  BY DEF TypeOK, Phases, Answers
<1>2. TimersAreInOrder'
  BY DEF TypeOK, TimersAreInOrder
<1>3. WaitIsAccounted'
  BY DEF TypeOK, WaitIsAccounted, InTheServer, Phases
<1>4. AnswersArePossible'
  BY DEF TypeOK, AnswersArePossible
<1>5. EarlyIsDueFirst'
  BY DEF TypeOK, EarlyIsDueFirst
<1> QED
  BY <1>1, <1>2, <1>3, <1>4, <1>5

(* The handler decides on an answer.                                       *)
LEMMA AnswerStep ==
  ASSUME EndToEndInv, NEW e \in Exchanges, NEW what \in Answers \ {"none"}, Answer(e, what),
         what \in {"report", "refused"} => Size[text[e]] <= MaxRequestSize,
         what = "report" => text[e] \in WellFormed,
         what = "refused" => text[e] \notin WellFormed,
         what = "tooLarge" => Size[text[e]] > MaxRequestSize
  PROVE  EndToEndInv'
<1> USE EndToEndAssumption DEF EndToEndInv, Answer, pageVars, processVars, historyVars
<1>1. TypeOK'
  BY DEF TypeOK, Phases, Answers
<1>2. TimersAreInOrder'
  BY DEF TypeOK, TimersAreInOrder
<1>3. WaitIsAccounted'
  BY DEF TypeOK, WaitIsAccounted, InTheServer
<1>4. AnswersArePossible'
  BY DEF TypeOK, AnswersArePossible
<1>5. EarlyIsDueFirst'
  BY DEF TypeOK, EarlyIsDueFirst
<1> QED
  BY <1>1, <1>2, <1>3, <1>4, <1>5

(* An exchange is over, and the page does not wait for it any more.        *)
LEMMA FreeStep ==
  ASSUME EndToEndInv, NEW e \in Exchanges, Free(e), UNCHANGED processVars,
         \/ UNCHANGED <<pageVars, away>> /\ waiting # e
         \/ \E what \in {"timeout", "unavailable"} \union Answers : waiting = e /\ Tell(e, what)
  PROVE  EndToEndInv'
<1> USE EndToEndAssumption DEF EndToEndInv, Free, Tell, pageVars, processVars
<1>1. TypeOK'
  BY DEF TypeOK, Phases, Answers, Word
<1>2. TimersAreInOrder'
  BY DEF TypeOK, TimersAreInOrder
<1>3. WaitIsAccounted'
  BY DEF TypeOK, WaitIsAccounted, InTheServer
<1>4. AnswersArePossible'
  BY DEF TypeOK, AnswersArePossible
<1>5. EarlyIsDueFirst'
  BY DEF TypeOK, EarlyIsDueFirst
<1> QED
  BY <1>1, <1>2, <1>3, <1>4, <1>5

(* Time passes.                                                            *)
LEMMA TickStep == EndToEndInv /\ Tick => EndToEndInv'
<1> SUFFICES ASSUME EndToEndInv, Tick PROVE EndToEndInv'
  OBVIOUS
<1> USE EndToEndAssumption DEF EndToEndInv, Tick, TimeMayPass, NothingIsDue
<1>1. ASSUME waiting # NoExchange PROVE away + 1 \in 0..RequestTimeout \/ phase[waiting] \in {"body", "writing"}
  BY <1>1 DEF TypeOK, WaitIsAccounted, InTheServer, Phases
<1>2. headerLeft' \in [Exchanges -> 0..ReadHeaderTimeout]
  BY DEF TypeOK
<1>3. readLeft' \in [Exchanges -> 0..ReadTimeout]
  BY DEF TypeOK, TimersAreInOrder
<1>4. writeLeft' \in [Exchanges -> 0..WriteTimeout]
  BY DEF TypeOK, TimersAreInOrder
<1>5. TypeOK'
  BY <1>1, <1>2, <1>3, <1>4 DEF TypeOK
<1>6. TimersAreInOrder'
  BY DEF TypeOK, TimersAreInOrder
<1>7. WaitIsAccounted'
  BY DEF TypeOK, WaitIsAccounted, InTheServer
<1>8. AnswersArePossible'
  BY DEF AnswersArePossible
<1>9. EarlyIsDueFirst'
  BY DEF TypeOK, EarlyIsDueFirst
<1> QED
  BY <1>5, <1>6, <1>7, <1>8, <1>9

LEMMA NextEndToEndInv == EndToEndInv /\ [Next]_vars => EndToEndInv'
<1> SUFFICES ASSUME EndToEndInv, [Next]_vars PROVE EndToEndInv'
  OBVIOUS
<1> USE EndToEndAssumption
<1>1. CASE UNCHANGED vars
  BY <1>1 DEF EndToEndInv, vars, pageVars, exchangeVars, processVars, historyVars, TypeOK,
              TimersAreInOrder, WaitIsAccounted, InTheServer, AnswersArePossible, EarlyIsDueFirst
<1>2. ASSUME NEW t \in Texts, RefuseFile(t) PROVE EndToEndInv'
  <2> USE <1>2 DEF RefuseFile, exchangeVars, processVars, historyVars, EndToEndInv
  <2>1. TypeOK'
    BY DEF TypeOK, Word
  <2>2. TimersAreInOrder' /\ WaitIsAccounted' /\ AnswersArePossible' /\ EarlyIsDueFirst'
    BY DEF TimersAreInOrder, WaitIsAccounted, InTheServer, AnswersArePossible, EarlyIsDueFirst
  <2> QED
    BY <2>1, <2>2
<1>3. ASSUME NEW t \in Texts, NEW e \in Exchanges, Ask(t, e) PROVE EndToEndInv'
  <2> USE <1>3 DEF Ask, AfterHideError, processVars, EndToEndInv
  <2>1. TypeOK'
    BY DEF TypeOK, Word, Phases
  <2>2. TimersAreInOrder'
    BY DEF TypeOK, TimersAreInOrder
  <2>3. WaitIsAccounted'
    BY DEF TypeOK, WaitIsAccounted, InTheServer
  <2>4. AnswersArePossible' /\ EarlyIsDueFirst'
    BY DEF TypeOK, AnswersArePossible, EarlyIsDueFirst
  <2> QED
    BY <2>1, <2>2, <2>3, <2>4
<1>4. ASSUME NEW e \in Exchanges, ReplyArrives(e) PROVE EndToEndInv'
  <2>1. answer[e] \in Answers
    BY DEF EndToEndInv, TypeOK
  <2> QED
    BY <1>4, <2>1, FreeStep DEF ReplyArrives, Tell
<1>5. ASSUME NEW e \in Exchanges, LossIsNoticed(e) PROVE EndToEndInv'
  BY <1>5, FreeStep DEF LossIsNoticed, Tell
<1>6. ASSUME NEW e \in Exchanges, PageGivesUp(e) PROVE EndToEndInv'
  <2>1. CASE Free(e)
    BY <1>6, <2>1, FreeStep DEF PageGivesUp, Tell
  <2>2. CASE UNCHANGED <<exchangeVars, early>>
    <3> USE <1>6, <2>2 DEF PageGivesUp, Tell, exchangeVars, processVars, EndToEndInv
    <3>1. TypeOK'
      BY DEF TypeOK, Word
    <3>2. TimersAreInOrder' /\ WaitIsAccounted' /\ AnswersArePossible' /\ EarlyIsDueFirst'
      BY DEF TimersAreInOrder, WaitIsAccounted, AnswersArePossible, EarlyIsDueFirst
    <3> QED
      BY <3>1, <3>2
  <2> QED
    BY <1>6, <2>1, <2>2 DEF PageGivesUp
<1>7. ASSUME NEW e \in Exchanges, OrphanEnds(e) PROVE EndToEndInv'
  BY <1>7, FreeStep DEF OrphanEnds
<1>8. ASSUME NEW e \in Exchanges, Accept(e) PROVE EndToEndInv'
  <2> USE <1>8 DEF Accept, pageVars, processVars, historyVars, EndToEndInv
  <2>1. TypeOK'
    BY DEF TypeOK, Phases
  <2>2. TimersAreInOrder'
    BY DEF TypeOK, TimersAreInOrder
  <2>3. WaitIsAccounted'
    BY DEF TypeOK, WaitIsAccounted, InTheServer
  <2>4. AnswersArePossible' /\ EarlyIsDueFirst'
    BY DEF TypeOK, AnswersArePossible, EarlyIsDueFirst
  <2> QED
    BY <2>1, <2>2, <2>3, <2>4
<1>9. ASSUME NEW e \in Exchanges, HeadersArrive(e) PROVE EndToEndInv'
  <2> USE <1>9 DEF HeadersArrive, pageVars, processVars, EndToEndInv
  <2>1. TypeOK'
    BY DEF TypeOK, Phases
  <2>2. TimersAreInOrder'
    BY DEF TypeOK, TimersAreInOrder
  <2>3. WaitIsAccounted'
    BY DEF TypeOK, WaitIsAccounted, InTheServer
  <2>4. AnswersArePossible'
    BY DEF TypeOK, AnswersArePossible
  <2>5. EarlyIsDueFirst'
    BY DEF TypeOK, EarlyIsDueFirst
  <2> QED
    BY <2>1, <2>2, <2>3, <2>4, <2>5
<1>10. ASSUME NEW e \in Exchanges,
              HeaderExpires(e) \/ ConnectionFails(e) \/ WriteExpires(e) \/ ShutdownClosesIdle(e)
       PROVE  EndToEndInv'
  BY <1>10, LoseStep DEF HeaderExpires, ConnectionFails, WriteExpires, ShutdownClosesIdle
<1>11. ASSUME NEW e \in Exchanges, BodyArrives(e) \/ BodyTooLarge(e) \/ ReadExpires(e)
       PROVE  EndToEndInv'
  <2>1. CASE BodyArrives(e) /\ text[e] \in WellFormed
    BY <2>1, AnswerStep DEF BodyArrives, Answers
  <2>2. CASE BodyArrives(e) /\ text[e] \notin WellFormed
    BY <2>2, AnswerStep DEF BodyArrives, Answers
  <2>3. CASE BodyTooLarge(e) \/ ReadExpires(e)
    BY <2>3, AnswerStep DEF BodyTooLarge, ReadExpires, Answers
  <2> QED
    BY <1>11, <2>1, <2>2, <2>3
<1>12. ASSUME NEW e \in Exchanges, AnswerIsSent(e) PROVE EndToEndInv'
  <2> USE <1>12 DEF AnswerIsSent, Release, pageVars, processVars, EndToEndInv
  <2>1. TypeOK'
    BY DEF TypeOK, Phases
  <2>2. TimersAreInOrder'
    BY DEF TypeOK, TimersAreInOrder
  <2>3. WaitIsAccounted'
    BY DEF TypeOK, WaitIsAccounted, InTheServer
  <2>4. AnswersArePossible' /\ EarlyIsDueFirst'
    BY DEF TypeOK, AnswersArePossible, EarlyIsDueFirst
  <2> QED
    BY <2>1, <2>2, <2>3, <2>4
<1>13. CASE SignalArrives
  <2> USE <1>13 DEF SignalArrives, pageVars, exchangeVars, historyVars, EndToEndInv
  <2>1. TypeOK'
    BY DEF TypeOK
  <2>2. TimersAreInOrder' /\ WaitIsAccounted' /\ AnswersArePossible'
    BY DEF TimersAreInOrder, WaitIsAccounted, InTheServer, AnswersArePossible
  <2>3. EarlyIsDueFirst'
    BY DEF TypeOK, EarlyIsDueFirst
  <2> QED
    BY <2>1, <2>2, <2>3
<1>14. CASE ShutdownReturns
  <2> USE <1>14 DEF ShutdownReturns, pageVars, exchangeVars, historyVars, EndToEndInv
  <2>1. TypeOK'
    BY DEF TypeOK
  <2>2. TimersAreInOrder' /\ WaitIsAccounted' /\ AnswersArePossible' /\ EarlyIsDueFirst'
    BY DEF TimersAreInOrder, WaitIsAccounted, InTheServer, AnswersArePossible, EarlyIsDueFirst
  <2> QED
    BY <2>1, <2>2
<1>15. CASE ShutdownExpires
  <2> USE <1>15 DEF ShutdownExpires, InServer, pageVars, EndToEndInv
  <2>1. TypeOK'
    BY DEF TypeOK, Phases, Answers
  <2>2. TimersAreInOrder'
    BY DEF TypeOK, TimersAreInOrder
  <2>3. WaitIsAccounted'
    BY DEF TypeOK, WaitIsAccounted, InTheServer
  <2>4. AnswersArePossible' /\ EarlyIsDueFirst'
    BY DEF TypeOK, AnswersArePossible, EarlyIsDueFirst
  <2> QED
    BY <2>1, <2>2, <2>3, <2>4
<1>16. CASE Tick
  BY <1>16, TickStep
<1>17. CASE HideAll
  <2> USE <1>17 DEF HideAll, exchangeVars, processVars, historyVars, EndToEndInv
  <2>1. TypeOK'
    BY DEF TypeOK, Word
  <2>2. TimersAreInOrder' /\ WaitIsAccounted' /\ AnswersArePossible' /\ EarlyIsDueFirst'
    BY DEF TimersAreInOrder, WaitIsAccounted, InTheServer, AnswersArePossible, EarlyIsDueFirst
  <2> QED
    BY <2>1, <2>2
<1> QED
  BY <1>1, <1>2, <1>3, <1>4, <1>5, <1>6, <1>7, <1>8, <1>9, <1>10, <1>11, <1>12, <1>13, <1>14,
     <1>15, <1>16, <1>17 DEF Next

LEMMA AlwaysEndToEndInv == Spec => []EndToEndInv
BY InitEndToEndInv, NextEndToEndInv, PTL DEF Spec

-----------------------------------------------------------------------------
(* Every variable has its type; in particular no timer runs past zero.     *)
THEOREM TypeCorrect == Spec => []TypeOK
BY AlwaysEndToEndInv, PTL DEF EndToEndInv

(* However long the timeouts of the page and the server are: the page      *)
(* gives up only when all but WriteTimeout of its wait was spent on the    *)
(* way to the server or back.                                              *)
THEOREM ServerAloneNeverTimesOut == Spec => []TimeoutMeansTheNetwork
<1>1. EndToEndInv => TimeoutMeansTheNetwork
  BY EndToEndAssumption
     DEF EndToEndInv, TypeOK, WaitIsAccounted, InTheServer, TimeoutMeansTheNetwork, Phases
<1> QED
  BY <1>1, AlwaysEndToEndInv, PTL

(* Shutdown's deadline cuts off no request that was there before the       *)
(* signal and has time left to be answered.                                *)
THEOREM ShutdownSparesEarlyRequests == Spec => EarlyRequestsAreNotCutOff
<1>1. ASSUME EndToEndInv, [Next]_vars, process' = "failed", process # "failed"
      PROVE  \A e \in early : phase[e] \in {"body", "writing"} => writeLeft[e] = 0
  <2>1. ShutdownExpires
    BY <1>1
       DEF Next, vars, pageVars, exchangeVars, processVars, historyVars, RefuseFile, HideAll, Ask, ReplyArrives,
           LossIsNoticed, PageGivesUp, Tell, OrphanEnds, Accept, HeadersArrive, HeaderExpires,
           ConnectionFails, Lose, Release, BodyArrives, BodyTooLarge, ReadExpires, Answer,
           AnswerIsSent, WriteExpires, SignalArrives, ShutdownClosesIdle, ShutdownReturns, Tick
  <2> QED
    BY <1>1, <2>1, EndToEndAssumption DEF EndToEndInv, TypeOK, EarlyIsDueFirst, ShutdownExpires
<1> QED
  BY <1>1, AlwaysEndToEndInv, PTL DEF Spec, EarlyRequestsAreNotCutOff

-----------------------------------------------------------------------------
(* The system implements InspectionService, fairness aside.                *)

(* A word that ends the wait for e is one that the service may say.        *)
LEMMA TellStep ==
  ASSUME EndToEndInv, NEW e \in Exchanges, waiting = e, phase[e] # "free",
         NEW what \in Service!Possible(text[e]), Tell(e, what), what = "timeout" => pageLeft = 0
  PROVE  Service!Tell
<1>1. waiting # NoExchange /\ text[e] \in Texts /\ text[e] # NoText
  BY EndToEndAssumption DEF EndToEndInv, AnswersArePossible
<1> QED
  BY <1>1 DEF Service!Tell, Service!Word, Tell, Word

LEMMA ServiceStep ==
  ASSUME EndToEndInv, [Next]_vars
  PROVE  [Service!Next]_(Service!vars)
<1> USE EndToEndAssumption DEF Service!vars
<1>a. waiting # NoExchange =>
        waiting \in Exchanges /\ phase[waiting] # "free" /\ text[waiting] \in Texts /\ text[waiting] # NoText
  BY DEF EndToEndInv, TypeOK, WaitIsAccounted, AnswersArePossible
<1>1. CASE UNCHANGED <<waiting, pageLeft, told, text>>
  BY <1>1
<1>2. ASSUME NEW t \in Texts, RefuseFile(t) PROVE Service!Refuse(t)
  BY <1>2 DEF RefuseFile, exchangeVars, Service!Refuse, Service!Word, Word, EndToEndInv, TypeOK
<1>3. ASSUME NEW t \in Texts, NEW e \in Exchanges, Ask(t, e) PROVE Service!Ask(t)
  <2>1. text'[e] = t /\ waiting' = e /\ e # NoExchange
    BY <1>3 DEF Ask, EndToEndInv, TypeOK
  <2> QED
    BY <1>3, <2>1 DEF Ask, AfterHideError, Service!Ask, Service!Word, Word
<1>4. ASSUME NEW e \in Exchanges, ReplyArrives(e) PROVE Service!Tell
  <2>1. answer[e] \in Service!Possible(text[e]) /\ answer[e] # "timeout"
    BY <1>4 DEF ReplyArrives, EndToEndInv, TypeOK, AnswersArePossible, Answers,
                  Service!Possible, Service!Truth
  <2> QED
    BY <1>4, <2>1, TellStep DEF ReplyArrives
<1>5. ASSUME NEW e \in Exchanges, LossIsNoticed(e) PROVE Service!Tell
  BY <1>5, TellStep DEF LossIsNoticed, Service!Possible
<1>6. ASSUME NEW e \in Exchanges, PageGivesUp(e) PROVE Service!Tell
  BY <1>6, <1>a, TellStep DEF PageGivesUp, Service!Possible
<1>7. ASSUME NEW e \in Exchanges, OrphanEnds(e) PROVE UNCHANGED Service!vars
  <2>1. waiting # NoExchange => text'[waiting] = text[waiting]
    BY <1>7, <1>a DEF OrphanEnds, Free, EndToEndInv, TypeOK
  <2> QED
    BY <1>7, <2>1 DEF OrphanEnds, pageVars
<1>8. CASE Tick
  <2>1. CASE waiting = NoExchange
    BY <1>8, <2>1 DEF Tick
  <2>2. CASE waiting # NoExchange
    BY <1>8, <2>2, <1>a DEF Tick, TimeMayPass, Service!Next, Service!Wait
  <2> QED
    BY <2>1, <2>2
<1>9. CASE HideAll
  BY <1>9 DEF HideAll, exchangeVars, Service!Clear, Service!Word, Word, Service!Next
<1> QED
  BY <1>1, <1>2, <1>3, <1>4, <1>5, <1>6, <1>7, <1>8, <1>9
     DEF Next, vars, pageVars, exchangeVars, Service!Next, Accept, HeadersArrive, HeaderExpires,
         ConnectionFails, Lose, Release, BodyArrives, BodyTooLarge, ReadExpires, Answer,
         AnswerIsSent, WriteExpires, SignalArrives, ShutdownClosesIdle, ShutdownReturns,
         ShutdownExpires

(* Whatever the network does, and however the timeouts are set: what the   *)
(* user is told is about his own text, possible for it, and in time: a     *)
(* report only of a well-formed text within the limit, and no error is on  *)
(* display any more once the next question is asked.                       *)
THEOREM ImplementsService == Spec => Service!Init /\ [][Service!Next]_(Service!vars)
<1>1. Init => Service!Init
  BY DEF Init, Service!Init, Service!Word, Word
<1>2. EndToEndInv /\ [Next]_vars => [Service!Next]_(Service!vars)
  BY ServiceStep
<1> QED
  BY <1>1, <1>2, AlwaysEndToEndInv, PTL DEF Spec

=============================================================================
