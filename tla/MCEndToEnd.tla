----------------------------- MODULE MCEndToEnd -----------------------------
(* A small instance of EndToEnd: a request and a text that is none, both   *)
(* within the limits, a text that is too large for the server, and one     *)
(* that the page would not load either.                                    *)
EXTENDS EndToEnd

CONSTANTS small, faulty, medium, large, e1, e2

MCSize == [t \in Texts |-> IF t \in {small, faulty} THEN 1 ELSE IF t = medium THEN 2 ELSE 3]

=============================================================================
