---------------------------- MODULE GracefulStop ----------------------------
(***************************************************************************)
(* What the server process promises to whoever starts and stops it.  It    *)
(* serves until it is asked to stop or cannot go on.  It reports success   *)
(* only if it was asked to stop and no client was cut off; asked to stop,  *)
(* or unable to go on, it does end.                                        *)
(***************************************************************************)
CONSTANTS
  Clients

VARIABLES
  asked,        \* somebody asked the process to stop
  broken,       \* the process cannot go on
  busy,         \* the clients with a request in progress
  outcome       \* "none" while the process runs, then "ok" or "error"

vars == <<asked, broken, busy, outcome>>

Init ==
  /\ asked = FALSE
  /\ broken = FALSE
  /\ busy = {}
  /\ outcome = "none"

Running == outcome = "none"

AskToStop ==
  /\ Running
  /\ asked' = TRUE
  /\ UNCHANGED <<broken, busy, outcome>>

Break ==
  /\ Running
  /\ broken' = TRUE
  /\ UNCHANGED <<asked, busy, outcome>>

(* A request in progress ends, or, whether or not it was asked to stop,    *)
(* one begins.                                                             *)
Serve(c) ==
  /\ Running
  /\ busy' \in {busy \union {c}, busy \ {c}}
  /\ UNCHANGED <<asked, broken, outcome>>

EndWell ==
  /\ Running
  /\ asked
  /\ busy = {}
  /\ outcome' = "ok"
  /\ UNCHANGED <<asked, broken, busy>>

EndBadly ==
  /\ Running
  /\ outcome' = "error"
  /\ UNCHANGED <<asked, broken, busy>>

Next ==
  \/ AskToStop
  \/ Break
  \/ \E c \in Clients : Serve(c)
  \/ EndWell
  \/ EndBadly

Spec == Init /\ [][Next]_vars /\ WF_vars((asked \/ broken) /\ (EndWell \/ EndBadly))

=============================================================================
