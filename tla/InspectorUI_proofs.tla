------------------------- MODULE InspectorUI_proofs -------------------------
(***************************************************************************)
(* Proofs about the page, for any number of texts, files and activations.  *)
(*                                                                         *)
(* The properties depend on what the user does (Habits), so each theorem   *)
(* names the habit that would break it and assumes only its absence.       *)
(***************************************************************************)
EXTENDS InspectorUI, FiniteSetTheorems, TLAPS

(* What one step may be, listeners unfolded: the guard of the listener and *)
(* the task that it runs.  ClickInspect is a case of CtrlEnter, and        *)
(* ChooseFile of DropFile.                                                 *)
LEMMA StepCases ==
  ASSUME Next
  PROVE  \/ /\ UserActs
            /\ loading => "ctrlEnter" \in Habits
            /\ RefuseInput \/ \E c \in Calls : SendRequest(c)
         \/ /\ UserActs
            /\ loading => "dropWhileLoading" \in Habits
            /\ \E f \in Files : \/ RefuseFile(f)
                                \/ \E r \in Readers : StartReading(r, f)
         \/ ClearForm
         \/ \E t \in Texts : Type(t)
         \/ \E k \in Copiers : StartCopy(k)
         \/ \E c \in Calls : ResponseStarts(c)
         \/ \E c \in Calls : ResultArrives(c)
         \/ \E c \in Calls : ErrorArrives(c)
         \/ \E c \in Calls : ConnectionFails(c)
         \/ \E c \in Calls : TimeoutFires(c)
         \/ \E r \in Readers : TextLoads(r)
         \/ \E r \in Readers : BlankTextLoads(r) \/ ReadFails(r)
         \/ \E k \in Copiers : CopySucceeds(k)
         \/ \E k \in Copiers : CopyFails(k)
         \/ \E k \in Copiers : RestoreLabel(k)
<1>1. CASE UserStep
  BY <1>1 DEF UserStep, ClickInspect, CtrlEnter, ParseCSR, ChooseFile, DropFile, LoadCSRFile
<1>2. CASE \E c \in Calls : CallStep(c)
  BY <1>2 DEF CallStep
<1>3. CASE \E r \in Readers : ReadStep(r)
  BY <1>3 DEF ReadStep
<1>4. CASE \E k \in Copiers : CopyStep(k)
  BY <1>4 DEF CopyStep
<1> QED
  BY <1>1, <1>2, <1>3, <1>4 DEF Next

-----------------------------------------------------------------------------
(* The invariant of every user.  TypeOK alone is not inductive: that a     *)
(* result is a text of GoodTexts rests on what its activation sent.        *)

SentIsGood == \A c \in Calls : phase[c] = "idle" \/ asked[c] \in GoodTexts

(* A timer is set for exactly the activations that are running.            *)
TimersMatchRequests == armed = InFlight

PageInv ==
  /\ TypeOK
  /\ SentIsGood
  /\ DisabledOnlyInFlight
  /\ ParsingStatusIsLive
  /\ TimersMatchRequests

LEMMA InitPageInv == Init => PageInv
<1> SUFFICES ASSUME Init PROVE PageInv
  OBVIOUS
<1>1. TypeOK
  BY DEF Init, TypeOK, Texts, Statuses, Errors, Phases, Labels
<1> QED
  BY <1>1 DEF Init, PageInv, SentIsGood, DisabledOnlyInFlight, ParsingStatusIsLive,
              TimersMatchRequests, InFlight

(* A step that touches no activation of parseCSR, and neither the controls *)
(* nor (but to replace it by another text) the status line.                *)
LEMMA QuietStep ==
  ASSUME PageInv, TypeOK', UNCHANGED <<callVars, loading>>,
         status' \in {status, "", "loaded", "copyFailed"}
  PROVE  PageInv'
BY DEF PageInv, SentIsGood, DisabledOnlyInFlight, ParsingStatusIsLive,
       TimersMatchRequests, InFlight, callVars

(* A step that ends activation c.                                          *)
LEMMA FinishStep ==
  ASSUME PageInv, TypeOK', NEW c \in Calls, phase[c] # "idle", Finish(c), status' # "parsing"
  PROVE  PageInv'
<1> USE DEF PageInv, TypeOK, Finish
<1>1. SentIsGood'
  BY DEF SentIsGood
<1>2. TimersMatchRequests'
  BY DEF TimersMatchRequests, InFlight
<1> QED
  BY <1>1, <1>2 DEF DisabledOnlyInFlight, ParsingStatusIsLive

LEMMA NextPageInv == PageInv /\ [Next]_vars => PageInv'
<1> SUFFICES ASSUME PageInv, [Next]_vars PROVE PageInv'
  OBVIOUS
<1> USE DEF TypeOK
<1>a. TypeOK
  BY DEF PageInv
<1>1. CASE UNCHANGED vars
  BY <1>1, <1>a, QuietStep DEF vars, pageVars, callVars, copyVars
<1>2. CASE RefuseInput
  BY <1>2, <1>a, QuietStep
     DEF RefuseInput, ShowError, HideResult, callVars, copyVars, Statuses, Errors
<1>3. ASSUME NEW c \in Calls, SendRequest(c) PROVE PageInv'
  <2>1. TypeOK'
    BY <1>3, <1>a DEF SendRequest, HideError, copyVars, Statuses, Errors, Phases
  <2>2. SentIsGood'
    BY <1>3, <1>a DEF PageInv, SendRequest, SentIsGood
  <2>3. c \in InFlight'
    BY <1>3, <1>a DEF SendRequest, InFlight
  <2>4. TimersMatchRequests'
    BY <1>3, <1>a DEF PageInv, SendRequest, TimersMatchRequests, InFlight
  <2>5. loading'
    BY <1>3 DEF SendRequest
  <2> QED
    BY <2>1, <2>2, <2>3, <2>4, <2>5 DEF PageInv, DisabledOnlyInFlight, ParsingStatusIsLive
<1>4. ASSUME NEW f \in Files, RefuseFile(f) PROVE PageInv'
  BY <1>4, <1>a, QuietStep
     DEF RefuseFile, ShowError, HideResult, callVars, copyVars, Statuses, Errors
<1>5. ASSUME NEW f \in Files, NEW r \in Readers, StartReading(r, f) PROVE PageInv'
  BY <1>5, <1>a, QuietStep DEF StartReading, HideResult, HideError, callVars, copyVars, Errors, TextFiles
<1>6. CASE ClearForm
  BY <1>6, <1>a, QuietStep
     DEF ClearForm, HideResult, HideError, callVars, copyVars, Statuses, Errors, Texts
<1>7. ASSUME NEW t \in Texts, Type(t) PROVE PageInv'
  BY <1>7, <1>a, QuietStep DEF Type, callVars, copyVars
<1>8. ASSUME NEW k \in Copiers, StartCopy(k) PROVE PageInv'
  BY <1>8, <1>a, QuietStep DEF StartCopy, pageVars, callVars
<1>9. ASSUME NEW c \in Calls, ResponseStarts(c) PROVE PageInv'
  <2>1. PICK next \in {"okBody", "errorBody"} :
          phase[c] = "fetching" /\ phase' = [phase EXCEPT ![c] = next]
    BY <1>9 DEF ResponseStarts
  <2>2. TypeOK'
    BY <1>9, <1>a, <2>1 DEF ResponseStarts, pageVars, copyVars, Phases
  <2>3. SentIsGood'
    BY <1>9, <1>a, <2>1 DEF PageInv, ResponseStarts, SentIsGood
  <2>4. InFlight' = InFlight
    BY <1>a, <2>1 DEF InFlight
  <2> QED
    BY <1>9, <2>2, <2>3, <2>4
       DEF ResponseStarts, pageVars, PageInv, DisabledOnlyInFlight, ParsingStatusIsLive,
           TimersMatchRequests
<1>10. ASSUME NEW c \in Calls, ResultArrives(c) PROVE PageInv'
  <2>1. asked[c] \in GoodTexts
    BY <1>10 DEF ResultArrives, PageInv, SentIsGood
  <2>2. TypeOK'
    BY <1>10, <1>a, <2>1
       DEF ResultArrives, RenderResult, Finish, copyVars, Statuses, Errors, Phases
  <2> QED
    BY <1>10, <2>2, FinishStep DEF ResultArrives
<1>11. ASSUME NEW c \in Calls,
              ErrorArrives(c) \/ ConnectionFails(c) \/ TimeoutFires(c)
       PROVE  PageInv'
  <2>1. TypeOK'
    BY <1>11, <1>a
       DEF ErrorArrives, ConnectionFails, TimeoutFires, ShowError, HideResult, Finish, copyVars,
           Statuses, Errors, Phases
  <2> QED
    BY <1>11, <2>1, FinishStep DEF ErrorArrives, ConnectionFails, TimeoutFires, ShowError
<1>12. ASSUME NEW r \in Readers, ReadStep(r) PROVE PageInv'
  <2>1. TypeOK'
    BY <1>12, <1>a, ConstantsAssumption
       DEF ReadStep, TextLoads, BlankTextLoads, ReadFails, ShowError, HideResult, EndReading,
           callVars, copyVars, Statuses, Errors, Texts, TextFiles
  <2> QED
    BY <1>12, <2>1, QuietStep
       DEF ReadStep, TextLoads, BlankTextLoads, ReadFails, ShowError, EndReading
<1>13. ASSUME NEW k \in Copiers, CopyStep(k) PROVE PageInv'
  <2>1. TypeOK'
    BY <1>13, <1>a
       DEF CopyStep, CopySucceeds, CopyFails, RestoreLabel, pageVars, callVars, Statuses, Labels
  <2> QED
    BY <1>13, <2>1, QuietStep DEF CopyStep, CopySucceeds, CopyFails, RestoreLabel, pageVars
<1> QED
  BY <1>1, <1>2, <1>3, <1>4, <1>5, <1>6, <1>7, <1>8, <1>9, <1>10, <1>11, <1>12, <1>13, StepCases
     DEF ReadStep, CopyStep

LEMMA AlwaysPageInv == Spec => []PageInv
BY InitPageInv, NextPageInv, PTL DEF Spec

(* The page's state stays within the values its elements can show.         *)
THEOREM TypeCorrect == Spec => []TypeOK
BY AlwaysPageInv, PTL DEF PageInv

(* However requests overlap: the controls are never left disabled, and a   *)
(* timer is set for exactly the activations that are running.              *)
THEOREM ControlsAreLive == Spec => [](DisabledOnlyInFlight /\ TimersMatchRequests)
BY AlwaysPageInv, PTL DEF PageInv

(* For any user: no path through the handlers leaves "Parsing..." behind   *)
(* when the controls are enabled again.                                    *)
THEOREM ParsingIsLive == Spec => []ParsingStatusIsLive
BY AlwaysPageInv, PTL DEF PageInv

LEMMA ResultStep ==
  ASSUME PageInv, [Next]_vars, lastResult' \notin {lastResult, NoResult}
  PROVE  \E c \in Calls : phase'[c] = "idle" /\ asked[c] = lastResult'
<1>1. PICK c \in Calls : ResultArrives(c)
  BY StepCases
     DEF vars, pageVars, callVars, copyVars, RefuseInput, SendRequest, RefuseFile, StartReading,
         ClearForm, Type, StartCopy, ResponseStarts, ErrorArrives, ConnectionFails,
         TimeoutFires, TextLoads, BlankTextLoads, ReadFails, CopySucceeds, CopyFails,
         RestoreLabel, ShowError, HideResult
<1> QED
  BY <1>1 DEF PageInv, TypeOK, ResultArrives, RenderResult, Finish

(* A result that appears answers the text that the activation which just   *)
(* finished had sent, not what the input field says by then.               *)
THEOREM ResultsAreAnswers == Spec => ResultAnswersItsRequest
<1>1. PageInv /\ [Next]_vars
        => [lastResult' \notin {lastResult, NoResult} =>
              \E c \in Calls : phase'[c] = "idle" /\ asked[c] = lastResult']_vars
  BY ResultStep
<1> QED
  BY <1>1, AlwaysPageInv, PTL DEF Spec, ResultAnswersItsRequest

-----------------------------------------------------------------------------
(* Without Ctrl+Enter during a request, there is one request at a time.    *)

OneRequestInv ==
  /\ IF loading THEN \E c \in Calls : InFlight = {c} ELSE InFlight = {}
  /\ \A c \in InFlight : asked[c] = lastAsked
  /\ ResultIsLatest

LEMMA InitOneRequestInv == Init => OneRequestInv
BY DEF Init, OneRequestInv, ResultIsLatest, InFlight

(* A step that touches no request, and shows no other result.              *)
LEMMA NoRequestStep ==
  ASSUME OneRequestInv, UNCHANGED <<callVars, loading>>, lastResult' \in {lastResult, NoResult}
  PROVE  OneRequestInv'
BY DEF OneRequestInv, ResultIsLatest, InFlight, callVars

(* A step that ends the request: no other one is under way.                *)
LEMMA EndOfRequest ==
  ASSUME PageInv, OneRequestInv, NEW c \in Calls, phase[c] # "idle", Finish(c),
         lastResult' \in {NoResult, asked[c]}
  PROVE  OneRequestInv'
<1>1. InFlight = {c} /\ asked[c] = lastAsked
  BY DEF OneRequestInv, InFlight
<1>2. InFlight' = {}
  BY <1>1 DEF PageInv, TypeOK, Finish, InFlight
<1> QED
  BY <1>1, <1>2 DEF OneRequestInv, ResultIsLatest, Finish

LEMMA NextOneRequestInv ==
  ASSUME "ctrlEnter" \notin Habits
  PROVE  PageInv /\ OneRequestInv /\ [Next]_vars => OneRequestInv'
<1> SUFFICES ASSUME PageInv, OneRequestInv, [Next]_vars PROVE OneRequestInv'
  OBVIOUS
<1>1. CASE UNCHANGED vars
  BY <1>1, NoRequestStep DEF vars, pageVars, callVars
<1>2. ASSUME ~loading, RefuseInput \/ \E c \in Calls : SendRequest(c)
      PROVE  OneRequestInv'
  <2>1. CASE RefuseInput
    BY <2>1, NoRequestStep DEF RefuseInput, ShowError, HideResult
  <2>2. ASSUME NEW c \in Calls, SendRequest(c) PROVE OneRequestInv'
    <3>1. InFlight = {}
      BY <1>2 DEF OneRequestInv
    <3>2. InFlight' = {c}
      BY <2>2, <3>1 DEF SendRequest, InFlight, PageInv, TypeOK
    <3>3. asked'[c] = lastAsked'
      BY <2>2 DEF SendRequest, PageInv, TypeOK
    <3> QED
      BY <2>2, <3>2, <3>3 DEF SendRequest, OneRequestInv, ResultIsLatest
  <2> QED
    BY <1>2, <2>1, <2>2
<1>3. ASSUME NEW c \in Calls, ResponseStarts(c) PROVE OneRequestInv'
  <2>1. InFlight' = InFlight
    BY <1>3 DEF ResponseStarts, InFlight, PageInv, TypeOK
  <2> QED
    BY <1>3, <2>1 DEF ResponseStarts, pageVars, OneRequestInv, ResultIsLatest
<1>4. ASSUME NEW c \in Calls, ResultArrives(c) PROVE OneRequestInv'
  BY <1>4, EndOfRequest DEF ResultArrives, RenderResult
<1>5. ASSUME NEW c \in Calls, ErrorArrives(c) \/ ConnectionFails(c) \/ TimeoutFires(c)
      PROVE  OneRequestInv'
  BY <1>5, EndOfRequest DEF ErrorArrives, ConnectionFails, TimeoutFires, ShowError, HideResult
<1>6. ASSUME NEW f \in Files, RefuseFile(f) \/ \E r \in Readers : StartReading(r, f)
      PROVE  OneRequestInv'
  BY <1>6, NoRequestStep DEF RefuseFile, StartReading, ShowError, HideResult
<1>7. CASE ClearForm \/ \E t \in Texts : Type(t)
  BY <1>7, NoRequestStep DEF ClearForm, Type, HideResult
<1>8. ASSUME NEW r \in Readers, TextLoads(r) \/ BlankTextLoads(r) \/ ReadFails(r)
      PROVE  OneRequestInv'
  BY <1>8, NoRequestStep
     DEF TextLoads, BlankTextLoads, ReadFails, ShowError, HideResult, EndReading
<1>9. ASSUME NEW k \in Copiers,
             StartCopy(k) \/ CopySucceeds(k) \/ CopyFails(k) \/ RestoreLabel(k)
      PROVE  OneRequestInv'
  BY <1>9, NoRequestStep DEF StartCopy, CopySucceeds, CopyFails, RestoreLabel, pageVars
<1> QED
  BY <1>1, <1>2, <1>3, <1>4, <1>5, <1>6, <1>7, <1>8, <1>9, StepCases

LEMMA AlwaysOneRequestInv ==
  ASSUME "ctrlEnter" \notin Habits
  PROVE  Spec => []OneRequestInv
BY AlwaysPageInv, InitOneRequestInv, NextOneRequestInv, PTL DEF Spec

(* Unless Ctrl+Enter is pressed during a request, at most one request is   *)
(* under way and the controls are disabled exactly while it is.            *)
THEOREM OneRequestAtATime ==
  ASSUME "ctrlEnter" \notin Habits
  PROVE  Spec => []OneAtATime
<1>1. OneRequestInv => OneAtATime
  <2> SUFFICES ASSUME OneRequestInv PROVE OneAtATime
    OBVIOUS
  <2>1. CASE loading
    <3>1. PICK c \in Calls : InFlight = {c}
      BY <2>1 DEF OneRequestInv
    <3>2. Cardinality({c}) = 1
      BY FS_Singleton, Zenon
    <3> QED
      BY <2>1, <3>1, <3>2 DEF OneAtATime
  <2>2. CASE ~loading
    BY <2>2, FS_EmptySet DEF OneRequestInv, OneAtATime
  <2> QED
    BY <2>1, <2>2
<1> QED
  BY <1>1, AlwaysOneRequestInv, PTL

(* Unless Ctrl+Enter is pressed during a request, a result that is shown   *)
(* beside enabled controls is the answer to the latest request.            *)
THEOREM ResultIsAlwaysLatest ==
  ASSUME "ctrlEnter" \notin Habits
  PROVE  Spec => []ResultIsLatest
BY AlwaysOneRequestInv, PTL DEF OneRequestInv

-----------------------------------------------------------------------------
(* A user who waits for requests and reads.                                *)

PatientInv ==
  /\ loading => error = "none" /\ FilesInReading = {}
  /\ FilesInReading # {} => error = "none" /\ lastResult = NoResult
  /\ \A r, q \in FilesInReading : r = q
  /\ NeverBoth
  /\ StatusMatchesPanels

LEMMA InitPatientInv == Init => PatientInv
BY DEF Init, PatientInv, FilesInReading, NeverBoth, StatusMatchesPanels

(* While a file is being read no request is under way.                     *)
LEMMA NoReadDuringRequest ==
  ASSUME OneRequestInv, PatientInv, NEW c \in Calls, phase[c] # "idle"
  PROVE  loading /\ error = "none" /\ FilesInReading = {}
BY DEF OneRequestInv, PatientInv, InFlight

LEMMA NextPatientInv ==
  ASSUME Habits = {}
  PROVE  PageInv /\ OneRequestInv /\ PatientInv /\ [Next]_vars => PatientInv'
<1> SUFFICES ASSUME PageInv, OneRequestInv, PatientInv, [Next]_vars PROVE PatientInv'
  OBVIOUS
<1> USE DEF PatientInv, FilesInReading, NeverBoth, StatusMatchesPanels
<1>1. CASE UNCHANGED vars
  BY <1>1 DEF vars, pageVars
<1>2. ASSUME UserActs, ~loading, RefuseInput \/ \E c \in Calls : SendRequest(c)
      PROVE  PatientInv'
  <2>1. FilesInReading = {}
    BY <1>2 DEF UserActs
  <2>2. CASE RefuseInput
    BY <1>2, <2>1, <2>2 DEF RefuseInput, ShowError, HideResult
  <2>3. ASSUME NEW c \in Calls, SendRequest(c) PROVE PatientInv'
    BY <2>1, <2>3 DEF SendRequest, HideError
  <2> QED
    BY <1>2, <2>2, <2>3
<1>3. ASSUME UserActs, ~loading, NEW f \in Files, RefuseFile(f)
      PROVE  PatientInv'
  BY <1>3 DEF RefuseFile, ShowError, HideResult, UserActs
<1>4. ASSUME UserActs, ~loading, NEW f \in Files, NEW r \in Readers, StartReading(r, f)
      PROVE  PatientInv'
  <2>1. FilesInReading' = {r}
    BY <1>4, ConstantsAssumption DEF StartReading, UserActs, PageInv, TypeOK, TextFiles
  <2> QED
    BY <1>4, <2>1 DEF StartReading, HideError, HideResult
<1>5. CASE ClearForm
  BY <1>5 DEF ClearForm, UserActs, HideError, HideResult
<1>6. ASSUME NEW t \in Texts, Type(t) PROVE PatientInv'
  BY <1>6 DEF Type
<1>7. ASSUME NEW c \in Calls, ResponseStarts(c) PROVE PatientInv'
  BY <1>7 DEF ResponseStarts, pageVars
<1>8. ASSUME NEW c \in Calls, ResultArrives(c) PROVE PatientInv'
  <2>1. asked[c] # NoResult /\ error = "none" /\ FilesInReading = {}
    BY <1>8, NoReadDuringRequest, ConstantsAssumption DEF ResultArrives, PageInv, SentIsGood
  <2> QED
    BY <1>8, <2>1 DEF ResultArrives, RenderResult, Finish
<1>9. ASSUME NEW c \in Calls, ErrorArrives(c) \/ ConnectionFails(c) \/ TimeoutFires(c)
      PROVE  PatientInv'
  <2>1. FilesInReading = {}
    BY <1>9, NoReadDuringRequest DEF ErrorArrives, ConnectionFails, TimeoutFires
  <2> QED
    BY <1>9, <2>1
       DEF ErrorArrives, ConnectionFails, TimeoutFires, ShowError, HideResult, Finish
<1>10. ASSUME NEW r \in Readers, TextLoads(r) \/ BlankTextLoads(r) \/ ReadFails(r)
       PROVE  PatientInv'
  <2>1. reading[r] # NoFile /\ EndReading(r)
    BY <1>10 DEF TextLoads, BlankTextLoads, ReadFails
  <2>2. ~loading /\ error = "none" /\ lastResult = NoResult
    BY <2>1
  <2>3. FilesInReading' = {}
    BY <2>1 DEF EndReading, PageInv, TypeOK
  <2>4. \/ status' = "loaded" /\ UNCHANGED <<error, lastResult>>
        \/ status' = "" /\ lastResult' = NoResult
    BY <1>10 DEF TextLoads, BlankTextLoads, ReadFails, ShowError, HideResult
  <2> QED
    BY <2>1, <2>2, <2>3, <2>4 DEF EndReading
<1>11. ASSUME NEW k \in Copiers,
              StartCopy(k) \/ CopySucceeds(k) \/ CopyFails(k) \/ RestoreLabel(k)
       PROVE  PatientInv'
  BY <1>11 DEF StartCopy, CopySucceeds, CopyFails, RestoreLabel, pageVars
<1> QED
  BY <1>1, <1>2, <1>3, <1>4, <1>5, <1>6, <1>7, <1>8, <1>9, <1>10, <1>11, StepCases

LEMMA AlwaysPatientInv ==
  ASSUME Habits = {}
  PROVE  Spec => [](OneRequestInv /\ PatientInv)
<1>1. "ctrlEnter" \notin Habits
  OBVIOUS
<1> QED
  BY <1>1, AlwaysPageInv, AlwaysOneRequestInv, InitPatientInv, NextPatientInv, PTL DEF Spec

(* For a user who waits, an error and a result are never on display        *)
(* together.                                                               *)
THEOREM PanelsAgree ==
  ASSUME Habits = {}
  PROVE  Spec => []NeverBoth
BY AlwaysPatientInv, PTL DEF PatientInv

(* For a user who waits, the status lines "File loaded..." and "CSR        *)
(* inspected successfully." are never shown beside the wrong panel.        *)
THEOREM StatusAgrees ==
  ASSUME Habits = {}
  PROVE  Spec => []StatusMatchesPanels
BY AlwaysPatientInv, PTL DEF PatientInv

-----------------------------------------------------------------------------
(* For a user who waits, the page implements InspectionPanel: its initial  *)
(* state is one of the panel's, and every step maps to a step of the panel *)
(* or to a stutter.  (Its fairness stays with TLC.)                        *)

LEMMA PanelStep ==
  ASSUME Habits = {}, PageInv, OneRequestInv, PatientInv, [Next]_vars
  PROVE  [Panel!Next]_(Panel!vars)
<1> USE DEF Panel!vars
<1>1. CASE UNCHANGED vars
  BY <1>1 DEF vars, pageVars, callVars
<1>2. ASSUME ~loading, RefuseInput PROVE Panel!Refuse
  BY <1>2 DEF Panel!Refuse, RefuseInput, ShowError, HideResult, callVars
<1>3. ASSUME ~loading, NEW c \in Calls, SendRequest(c) PROVE Panel!Ask(input)
  BY <1>3 DEF Panel!Ask, SendRequest, HideError
<1>4. ASSUME ~loading, NEW f \in Files, RefuseFile(f) PROVE Panel!Refuse
  BY <1>4 DEF Panel!Refuse, RefuseFile, ShowError, HideResult, callVars
<1>5. ASSUME ~loading, NEW f \in Files, NEW r \in Readers, StartReading(r, f) PROVE Panel!Reset
  BY <1>5 DEF Panel!Reset, StartReading, HideError, HideResult, callVars
<1>6. CASE ClearForm
  BY <1>6 DEF Panel!Next, Panel!Reset, ClearForm, HideError, HideResult, callVars
<1>7. CASE \E t \in Texts : Type(t)
  BY <1>7 DEF Type, callVars
<1>8. ASSUME NEW c \in Calls, ResponseStarts(c) PROVE UNCHANGED Panel!vars
  BY <1>8 DEF ResponseStarts, pageVars
<1>9. ASSUME NEW c \in Calls, ResultArrives(c) PROVE Panel!Answer
  <2>1. phase[c] # "idle"
    BY <1>9 DEF ResultArrives
  <2>2. loading /\ error = "none" /\ asked[c] = lastAsked
    BY <2>1, NoReadDuringRequest DEF OneRequestInv, InFlight
  <2> QED
    BY <1>9, <2>2 DEF Panel!Answer, ResultArrives, RenderResult, Finish
<1>10. ASSUME NEW c \in Calls, ErrorArrives(c) \/ ConnectionFails(c) \/ TimeoutFires(c)
       PROVE  Panel!Fail
  <2>1. phase[c] # "idle"
    BY <1>10 DEF ErrorArrives, ConnectionFails, TimeoutFires
  <2>2. loading
    BY <2>1, NoReadDuringRequest
  <2> QED
    BY <1>10, <2>2
       DEF Panel!Fail, ErrorArrives, ConnectionFails, TimeoutFires, ShowError, HideResult, Finish
<1>11. ASSUME NEW r \in Readers, TextLoads(r) PROVE UNCHANGED Panel!vars
  BY <1>11 DEF TextLoads, EndReading, callVars
<1>12. ASSUME NEW r \in Readers, BlankTextLoads(r) \/ ReadFails(r) PROVE Panel!Refuse
  <2>1. reading[r] # NoFile /\ EndReading(r) /\ ShowError("file")
    BY <1>12 DEF BlankTextLoads, ReadFails
  <2>2. ~loading
    BY <2>1 DEF PatientInv, FilesInReading
  <2> QED
    BY <2>1, <2>2 DEF Panel!Refuse, ShowError, HideResult, EndReading, callVars
<1>13. ASSUME NEW k \in Copiers,
              StartCopy(k) \/ CopySucceeds(k) \/ CopyFails(k) \/ RestoreLabel(k)
       PROVE  UNCHANGED Panel!vars
  BY <1>13 DEF StartCopy, CopySucceeds, CopyFails, RestoreLabel, pageVars, callVars
<1>14. ASSUME NEW c \in Calls, SendRequest(c) PROVE input \in GoodTexts
  BY <1>14 DEF SendRequest
<1> QED
  BY <1>1, <1>2, <1>3, <1>4, <1>5, <1>6, <1>7, <1>8, <1>9, <1>10, <1>11, <1>12, <1>13, <1>14,
     StepCases DEF Panel!Next

THEOREM ImplementsPanel ==
  ASSUME Habits = {}
  PROVE  Spec => Panel!Init /\ [][Panel!Next]_(Panel!vars)
<1>1. Init => Panel!Init
  BY DEF Init, Panel!Init
<1> QED
  BY <1>1, AlwaysPageInv, AlwaysPatientInv, PanelStep, PTL DEF Spec

-----------------------------------------------------------------------------
(* The label of the copy button.                                           *)

LabelInv ==
  /\ \A k, m \in CopiesInProgress : k = m
  /\ \A k \in Copiers : copy[k] = "restoring" => saved[k] = "Copy JSON"
  /\ label = "Copy JSON" \/ \E k \in Copiers : copy[k] = "restoring"

LEMMA NextLabelInv ==
  ASSUME "copyAgain" \notin Habits
  PROVE  PageInv /\ LabelInv /\ [Next]_vars => LabelInv'
<1> SUFFICES ASSUME PageInv, LabelInv, [Next]_vars PROVE LabelInv'
  OBVIOUS
<1> USE DEF LabelInv, CopiesInProgress
<1>1. CASE UNCHANGED copyVars
  BY <1>1 DEF copyVars
<1>2. ASSUME NEW k \in Copiers, StartCopy(k) PROVE LabelInv'
  BY <1>2 DEF StartCopy, PageInv, TypeOK
<1>3. ASSUME NEW k \in Copiers, CopySucceeds(k) PROVE LabelInv'
  <2>1. \A m \in Copiers \ {k} : copy[m] = "idle"
    BY <1>3 DEF CopySucceeds
  <2>2. label = "Copy JSON"
    BY <1>3, <2>1 DEF CopySucceeds
  <2> QED
    BY <1>3, <2>1, <2>2 DEF CopySucceeds, PageInv, TypeOK
<1>4. ASSUME NEW k \in Copiers, CopyFails(k) PROVE LabelInv'
  BY <1>4 DEF CopyFails, PageInv, TypeOK
<1>5. ASSUME NEW k \in Copiers, RestoreLabel(k) PROVE LabelInv'
  BY <1>5 DEF RestoreLabel, PageInv, TypeOK
<1> QED
  BY <1>1, <1>2, <1>3, <1>4, <1>5, StepCases
     DEF vars, RefuseInput, SendRequest, RefuseFile, StartReading, ClearForm, Type,
         ResponseStarts, ResultArrives, ErrorArrives, ConnectionFails, TimeoutFires, Finish,
         TextLoads, BlankTextLoads, ReadFails, EndReading

(* Unless the copy button is clicked again before its label is back, the   *)
(* button says "Copy JSON" whenever no copy is in progress.                *)
THEOREM CopyLabelReturns ==
  ASSUME "copyAgain" \notin Habits
  PROVE  Spec => []LabelRestored
<1>1. Init => LabelInv
  BY DEF Init, LabelInv, CopiesInProgress
<1>2. LabelInv => LabelRestored
  BY DEF LabelInv, LabelRestored, CopiesInProgress
<1> QED
  BY <1>1, <1>2, AlwaysPageInv, NextLabelInv, PTL DEF Spec

=============================================================================
