-------------------------- MODULE InspectionPanel --------------------------
(***************************************************************************)
(* What the page of CSR Inspector promises to a user who waits for it: a   *)
(* question (a text sent for inspection) is answered or fails before the   *)
(* next one is asked, and what is on display is the answer to the latest   *)
(* question that was not refused or dropped, or an error, never both.      *)
(***************************************************************************)
CONSTANTS
  Questions,    \* the texts that may be sent
  Nothing       \* no answer on display; not a question

VARIABLES
  shown,        \* the question whose answer is on display, or Nothing
  failed,       \* an error is on display
  pending       \* the questions asked and not answered: none or one

vars == <<shown, failed, pending>>

Init ==
  /\ shown = Nothing
  /\ failed = FALSE
  /\ pending = {}

(* The previous answer stays on display while the next one is awaited.     *)
Ask(q) ==
  /\ pending = {}
  /\ pending' = {q}
  /\ failed' = FALSE
  /\ UNCHANGED shown

Answer ==
  /\ pending # {}
  /\ shown' \in pending
  /\ failed' = FALSE
  /\ pending' = {}

Fail ==
  /\ pending # {}
  /\ shown' = Nothing
  /\ failed' = TRUE
  /\ pending' = {}

(* An input that is not sent at all, or a file that cannot be used.        *)
Refuse ==
  /\ pending = {}
  /\ shown' = Nothing
  /\ failed' = TRUE
  /\ UNCHANGED pending

Reset ==
  /\ pending = {}
  /\ shown' = Nothing
  /\ failed' = FALSE
  /\ UNCHANGED pending

Next ==
  \/ \E q \in Questions : Ask(q)
  \/ Answer
  \/ Fail
  \/ Refuse
  \/ Reset

Spec == Init /\ [][Next]_vars /\ WF_vars(Answer \/ Fail)

=============================================================================
