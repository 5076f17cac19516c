------------------------- MODULE InspectionService -------------------------
(***************************************************************************)
(* What CSR Inspector promises to its user, page, network and server       *)
(* together: whoever asks about a text is told something about that very   *)
(* text within the time the page is willing to wait: a report only of a    *)
(* text that deserves one, an error only for a cause that it can have.     *)
(* Only a report outlives the next question.                               *)
(***************************************************************************)
EXTENDS Naturals

CONSTANTS
  Texts,        \* what may be asked about
  Inspectable,  \* the texts that are not too large for the server
  WellFormed,   \* the texts that are a request, whatever their size
  Loadable,     \* the texts that are not too large for the page to load
  Patience,     \* how long the page waits
  Nothing       \* no text

VARIABLES
  question,   \* the text asked about, or Nothing
  left,       \* the time that the page will still wait
  told        \* the last thing the user was told, and of which text

vars == <<question, left, told>>

Word(t, what) == [of |-> t, what |-> what]

(* What the server finds out about a text that reaches it.                 *)
Truth(t) ==
  CASE t \notin Inspectable -> "tooLarge"
    [] t \in Inspectable /\ t \in WellFormed -> "report"
    [] t \in Inspectable /\ t \notin WellFormed -> "refused"

Possible(t) == {"timeout", "unavailable", "unreadable", Truth(t)}

Init ==
  /\ question = Nothing
  /\ left = 0
  /\ told = Word(Nothing, "nothing")

(* An earlier report stays on display while the next answer is awaited; an *)
(* earlier error, whoever it came from, does not.                          *)
Ask(t) ==
  /\ question = Nothing
  /\ question' = t
  /\ left' = Patience
  /\ told' = IF told.what = "report" THEN told ELSE Word(Nothing, "nothing")

(* The user clears the form or loads a file: there is nothing on display.  *)
Clear ==
  /\ question = Nothing
  /\ told' = Word(Nothing, "nothing")
  /\ UNCHANGED <<question, left>>

(* A file that the page does not load.                                     *)
Refuse(t) ==
  /\ question = Nothing
  /\ t \notin Loadable
  /\ told' = Word(t, "fileTooLarge")
  /\ UNCHANGED <<question, left>>

Tell ==
  /\ question # Nothing
  /\ \E what \in Possible(question) :
       /\ what = "timeout" => left = 0
       /\ told' = Word(question, what)
  /\ question' = Nothing
  /\ left' = 0

Wait ==
  /\ question # Nothing
  /\ left > 0
  /\ left' = left - 1
  /\ UNCHANGED <<question, told>>

Next ==
  \/ \E t \in Texts : Ask(t) \/ Refuse(t)
  \/ Clear
  \/ Tell
  \/ Wait

Spec == Init /\ [][Next]_vars /\ WF_vars(Tell)

=============================================================================
