----------------------- MODULE ServerLifecycle_proofs -----------------------
(***************************************************************************)
(* Proofs about the server process, for any number of connections and any  *)
(* value of HTTP_MAX_REQUEST_SIZE.                                         *)
(***************************************************************************)
EXTENDS ServerLifecycle, TLAPS

(* CleanExitCutsNothing is not inductive: that main never takes "closed"   *)
(* out of the channel rests on who calls Shutdown, and so on what the      *)
(* serving goroutine can have been told.                                   *)
LifecycleInv ==
  /\ TypeOK
  /\ exit = "none" <=> main # "returned"
  /\ main = "loading" => serve = "notStarted" /\ serveError = "none" /\ serverErrors = <<>>
  /\ main = "shuttingDown" => signalled
  /\ serve = "sending" => serveError # "none"
  /\ main = "selecting" => serveError # "closed"
  /\ ClosedIsNeverSelected
  /\ CleanExitCutsNothing

LEMMA InitLifecycleInv == Init => LifecycleInv
<1> SUFFICES ASSUME Init PROVE LifecycleInv
  OBVIOUS
<1>1. TypeOK
  BY DEF Init, TypeOK, MainStates, ServeStates, ServeErrors, ConnStates
<1>2. serverErrors # <<"closed">>
  BY DEF Init
<1> QED
  BY <1>1, <1>2 DEF Init, LifecycleInv, ClosedIsNeverSelected,
                    CleanExitCutsNothing

(* A step of a connection, taken while the process runs.                   *)
LEMMA ConnStep ==
  ASSUME LifecycleInv, NEW c \in Conns, NEW from, NEW to \in ConnStates, ConnMoves(c, from, to)
  PROVE  LifecycleInv'
BY DEF LifecycleInv, TypeOK, ConnMoves, Running, mainVars, serveVars, ClosedIsNeverSelected,
       CleanExitCutsNothing

LEMMA NextLifecycleInv == LifecycleInv /\ [Next]_vars => LifecycleInv'
<1> SUFFICES ASSUME LifecycleInv, [Next]_vars PROVE LifecycleInv'
  OBVIOUS
<1> USE DEF LifecycleInv, TypeOK, ClosedIsNeverSelected,
            CleanExitCutsNothing
<1>1. CASE UNCHANGED vars
  BY <1>1 DEF vars, mainVars, serveVars, Active
<1>2. CASE RejectConfig
  BY <1>2 DEF RejectConfig, Return, serveVars, MainStates
<1>3. CASE AcceptConfig
  <2>1. maxRequestSize' \in Nat /\ maxRequestSize' > 0
    BY <1>3, SizesAssumption DEF AcceptConfig
  <2>2. serverErrors' # <<"closed">>
    BY <1>3 DEF AcceptConfig
  <2> QED
    BY <1>3, <2>1, <2>2 DEF AcceptConfig, MainStates, ServeStates
<1>4. CASE SelectError
  <2>1. serverErrors = <<"failed">>
    BY <1>4 DEF SelectError
  <2>2. exit' = "error" /\ serverErrors' = <<>>
    BY <1>4, <2>1 DEF SelectError, Return
  <2> QED
    BY <1>4, <2>2 DEF SelectError, Return, MainStates
<1>5. CASE SelectSignal
  BY <1>5 DEF SelectSignal, serveVars, MainStates
<1>6. CASE ShutdownReturns
  BY <1>6 DEF ShutdownReturns, Return, serveVars, MainStates, Active
<1>7. CASE DeadlineExpires
  BY <1>7 DEF DeadlineExpires, Return, serveVars, MainStates
<1>8. CASE Signal
  BY <1>8 DEF Signal, mainVars, serveVars
<1>9. CASE Listen
  BY <1>9 DEF Listen, Running, mainVars, ServeStates
<1>10. CASE ListenerFails \/ ServerCloses
  BY <1>10 DEF ListenerFails, ServerCloses, ListenAndServeReturns, Running, InShutdown, mainVars,
               ServeStates, ServeErrors
<1>11. CASE SendError
  <2>1. serverErrors' = <<serveError>> /\ serveError \in {"failed", "closed"}
    BY <1>11 DEF SendError, ServeErrors
  <2> QED
    BY <1>11, <2>1 DEF SendError, Running, mainVars, ServeStates
<1>12. ASSUME NEW c \in Conns,
              Accept(c) \/ RequestBegins(c) \/ RequestEnds(c) \/ ConnDrops(c)
       PROVE  LifecycleInv'
  BY <1>12, ConnStep DEF Accept, RequestBegins, RequestEnds, ConnDrops, ConnStates
<1> QED
  BY <1>1, <1>2, <1>3, <1>4, <1>5, <1>6, <1>7, <1>8, <1>9, <1>10, <1>11, <1>12 DEF Next

LEMMA AlwaysLifecycleInv == Spec => []LifecycleInv
BY InitLifecycleInv, NextLifecycleInv, PTL DEF Spec

(* Type correctness of the process.                                        *)
THEOREM TypeCorrect == Spec => []TypeOK
BY AlwaysLifecycleInv, PTL DEF LifecycleInv

(* An exit status of 0 means that a signal asked for it and that no        *)
(* request was cut off.                                                    *)
THEOREM CleanExit == Spec => []CleanExitCutsNothing
BY AlwaysLifecycleInv, PTL DEF LifecycleInv

(* The nil return for ErrServerClosed in the select is dead code.          *)
THEOREM SelectSeesNoClosed == Spec => []ClosedIsNeverSelected
BY AlwaysLifecycleInv, PTL DEF LifecycleInv

-----------------------------------------------------------------------------
(* The process implements GracefulStop, fairness aside.                    *)

LEMMA StopStep ==
  ASSUME LifecycleInv, [Next]_vars
  PROVE  [Stop!Next]_(Stop!vars)
<1> USE DEF Stop!vars, Active
<1>1. CASE UNCHANGED vars
  BY <1>1 DEF vars, mainVars, serveVars
<1>2. CASE RejectConfig \/ DeadlineExpires
  BY <1>2 DEF LifecycleInv, RejectConfig, DeadlineExpires, Return, serveVars, Stop!Next,
              Stop!EndBadly, Stop!Running
<1>3. CASE AcceptConfig
  BY <1>3 DEF LifecycleInv, AcceptConfig
<1>4. CASE SelectError
  <2>1. serverErrors = <<"failed">>
    BY <1>4 DEF SelectError, LifecycleInv, TypeOK, ClosedIsNeverSelected
  <2>2. exit' = "error" /\ exit = "none"
    BY <1>4, <2>1 DEF SelectError, Return, LifecycleInv
  <2> QED
    BY <1>4, <2>2 DEF SelectError, Stop!Next, Stop!EndBadly, Stop!Running
<1>5. CASE SelectSignal
  BY <1>5 DEF SelectSignal, serveVars
<1>6. CASE ShutdownReturns
  BY <1>6 DEF ShutdownReturns, Return, serveVars, LifecycleInv, Stop!Next, Stop!EndWell,
              Stop!Running
<1>7. CASE Signal
  BY <1>7 DEF Signal, mainVars, serveVars, LifecycleInv, Stop!Next, Stop!AskToStop, Stop!Running
<1>8. CASE Listen
  BY <1>8 DEF Listen, mainVars
<1>9. CASE ListenerFails \/ ServerCloses
  BY <1>9 DEF ListenerFails, ServerCloses, ListenAndServeReturns, Running, mainVars, LifecycleInv,
              Stop!Next, Stop!Break, Stop!Running
<1>10. CASE SendError
  BY <1>10 DEF SendError, mainVars
<1>11. ASSUME NEW c \in Conns,
              Accept(c) \/ RequestBegins(c) \/ RequestEnds(c) \/ ConnDrops(c)
       PROVE  Stop!Serve(c)
  <2>1. PICK to : /\ Running
                  /\ conn' = [conn EXCEPT ![c] = to]
                  /\ UNCHANGED <<mainVars, serveVars, signalled>>
    BY <1>11 DEF Accept, RequestBegins, RequestEnds, ConnDrops, ConnMoves
  <2>2. Active' \in {Active \union {c}, Active \ {c}}
    BY <2>1 DEF LifecycleInv, TypeOK
  <2> QED
    BY <2>1, <2>2 DEF Running, mainVars, serveVars, LifecycleInv, Stop!Serve, Stop!Running
<1> QED
  BY <1>1, <1>2, <1>3, <1>4, <1>5, <1>6, <1>7, <1>8, <1>9, <1>10, <1>11 DEF Next, Stop!Next

(* The process implements the safety part of GracefulStop.                 *)
THEOREM ImplementsGracefulStop ==
  Spec => Stop!Init /\ [][Stop!Next]_(Stop!vars)
<1>1. Init => Stop!Init
  BY DEF Init, Stop!Init, Active
<1> QED
  BY <1>1, AlwaysLifecycleInv, StopStep, PTL DEF Spec

=============================================================================
