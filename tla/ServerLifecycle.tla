-------------------------- MODULE ServerLifecycle --------------------------
(***************************************************************************)
(* The server process: cmd/server/main.go and internal/config.             *)
(*                                                                         *)
(* Two goroutines run beside the connections: main (load the              *)
(* configuration, wait for a signal or a server error, shut down) and the  *)
(* one that runs ListenAndServe and sends its error to serverErrors.       *)
(* What net/http does with listeners and connections is modelled as the    *)
(* library documents it: Shutdown closes the listeners at once, so that    *)
(* ListenAndServe returns ErrServerClosed long before Shutdown is done,    *)
(* closes idle connections, waits for the active ones, and gives up when   *)
(* its context expires.  When main returns, everything stops as it is.     *)
(***************************************************************************)
EXTENDS Integers, Sequences

CONSTANTS
  Conns,          \* slots for connections
  DefaultSize,    \* defaultMaxRequestSize
  EnvSizes        \* the integers that HTTP_MAX_REQUEST_SIZE may hold

ASSUME SizesAssumption ==
  /\ DefaultSize \in Nat \ {0}
  /\ EnvSizes \subseteq Int

VARIABLES
  main,           \* where main is: see MainStates
  exit,           \* the status of the process: "none" while it runs
  maxRequestSize, \* cfg.HTTP.MaxRequestSize
  serve,          \* where the goroutine that serves is: see ServeStates
  serveError,     \* what ListenAndServe returned
  serverErrors,   \* the channel, buffered for one error
  signalled,      \* shutdownSignal is done
  conn            \* conn[c]: the http.ConnState of connection c

mainVars == <<main, exit, maxRequestSize>>
serveVars == <<serve, serveError, serverErrors>>
vars == <<mainVars, serveVars, signalled, conn>>

MainStates  == {"loading", "selecting", "shuttingDown", "returned"}
ServeStates == {"notStarted", "starting", "listening", "sending", "sent"}
ServeErrors == {"none", "failed", "closed"}
ConnStates  == {"closed", "new", "active", "idle"}

Active == {c \in Conns : conn[c] = "active"}

(* An operator named A_b is A with the plausible mistake b: no action uses *)
(* it, it is what the properties are tried against.                        *)
InShutdown_fromGoroutine == signalled

(* server.Shutdown has been called (by main itself).                       *)
InShutdown == main = "shuttingDown"

Init ==
  /\ main = "loading"
  /\ exit = "none"
  /\ maxRequestSize = 0
  /\ serve = "notStarted"
  /\ serveError = "none"
  /\ serverErrors = <<>>
  /\ signalled = FALSE
  /\ conn = [c \in Conns |-> "closed"]

-----------------------------------------------------------------------------
(* main                                                                    *)

Return(status) ==
  /\ main' = "returned"
  /\ exit' = status

(* getEnvInt64 and the check in config.Load: HTTP_MAX_REQUEST_SIZE is not  *)
(* an integer, or not greater than zero.                                   *)
RejectConfig ==
  /\ main = "loading"
  /\ Return("error")
  /\ UNCHANGED <<maxRequestSize, serveVars, signalled, conn>>

AcceptConfig_anySize ==
  /\ main = "loading"
  /\ maxRequestSize' \in {DefaultSize} \union EnvSizes
  /\ main' = "selecting"
  /\ serve' = "starting"
  /\ UNCHANGED <<exit, serveError, serverErrors, signalled, conn>>

(* A variable that is not set means the default.  Then, up to the select,  *)
(* the handler, the server, the signal context and the channel are made,   *)
(* and the goroutine is started.                                           *)
AcceptConfig ==
  /\ main = "loading"
  /\ maxRequestSize' \in {DefaultSize} \union {size \in EnvSizes : size > 0}
  /\ main' = "selecting"
  /\ serve' = "starting"
  /\ UNCHANGED <<exit, serveError, serverErrors, signalled, conn>>

SelectError_anyTime ==
  /\ main \in {"selecting", "shuttingDown"}
  /\ serverErrors # <<>>
  /\ Return(IF Head(serverErrors) = "closed" THEN "ok" ELSE "error")
  /\ serverErrors' = Tail(serverErrors)
  /\ UNCHANGED <<maxRequestSize, serve, serveError, signalled, conn>>

(* The first case of the select.  run returns nil for ErrServerClosed.     *)
SelectError ==
  /\ main = "selecting"
  /\ serverErrors # <<>>
  /\ Return(IF Head(serverErrors) = "closed" THEN "ok" ELSE "error")
  /\ serverErrors' = Tail(serverErrors)
  /\ UNCHANGED <<maxRequestSize, serve, serveError, signalled, conn>>

(* The second case.  When both are ready, either may be taken, and an      *)
(* error that is in the channel then is never read.                        *)
SelectSignal ==
  /\ main = "selecting"
  /\ signalled
  /\ main' = "shuttingDown"
  /\ UNCHANGED <<exit, maxRequestSize, serveVars, signalled, conn>>

(* Shutdown returns nil once it finds every connection closed.             *)
ShutdownReturns ==
  /\ main = "shuttingDown"
  /\ \A c \in Conns : conn[c] = "closed"
  /\ Return("ok")
  /\ UNCHANGED <<maxRequestSize, serveVars, signalled, conn>>

DeadlineExpires_success ==
  /\ main = "shuttingDown"
  /\ Return("ok")
  /\ UNCHANGED <<maxRequestSize, serveVars, signalled, conn>>

(* The context of WriteTimeout expires first: run returns its error.       *)
DeadlineExpires ==
  /\ main = "shuttingDown"
  /\ Return("error")
  /\ UNCHANGED <<maxRequestSize, serveVars, signalled, conn>>

(* SIGINT or SIGTERM, caught from NotifyContext on; a later one changes    *)
(* nothing.                                                                *)
Signal ==
  /\ main \in {"selecting", "shuttingDown"}
  /\ signalled' = TRUE
  /\ UNCHANGED <<mainVars, serveVars, conn>>

-----------------------------------------------------------------------------
(* The goroutine that serves.                                              *)

Running == main # "returned"

ListenAndServeReturns(err) ==
  /\ serve' = "sending"
  /\ serveError' = err
  /\ UNCHANGED <<mainVars, serverErrors, signalled, conn>>

Listen ==
  /\ Running
  /\ serve = "starting"
  /\ ~InShutdown
  /\ serve' = "listening"
  /\ UNCHANGED <<mainVars, serveError, serverErrors, signalled, conn>>

(* The address cannot be listened on, or, later, Accept fails for good,    *)
(* other than because of a shutdown.                                       *)
ListenerFails ==
  /\ Running
  /\ serve = "starting" \/ (serve = "listening" /\ ~InShutdown)
  /\ ListenAndServeReturns("failed")

ServerCloses ==
  /\ Running
  /\ serve \in {"starting", "listening"}
  /\ InShutdown
  /\ ListenAndServeReturns("closed")

(* The channel has room for the one error ever sent.                       *)
SendError ==
  /\ Running
  /\ serve = "sending"
  /\ serverErrors = <<>>
  /\ serverErrors' = Append(serverErrors, serveError)
  /\ serve' = "sent"
  /\ UNCHANGED <<mainVars, serveError, signalled, conn>>

-----------------------------------------------------------------------------
(* The connections, as net/http drives them.                               *)

ConnMoves(c, from, to) ==
  /\ Running
  /\ conn[c] \in from
  /\ conn' = [conn EXCEPT ![c] = to]
  /\ UNCHANGED <<mainVars, serveVars, signalled>>

Accept(c) ==
  /\ serve = "listening"
  /\ ~InShutdown
  /\ ConnMoves(c, {"closed"}, "new")

(* The first byte of a request, on a new connection or a kept one.         *)
RequestBegins(c) == ConnMoves(c, {"new", "idle"}, "active")

(* The handler has answered; a connection is kept alive unless the server  *)
(* is shutting down.                                                       *)
RequestEnds(c) == ConnMoves(c, {"active"}, IF InShutdown THEN "closed" ELSE "idle")

(* The client leaves, or one of the configured timeouts closes it.         *)
ConnDrops(c) == ConnMoves(c, {"new", "active", "idle"}, "closed")

Next ==
  \/ RejectConfig
  \/ AcceptConfig
  \/ SelectError
  \/ SelectSignal
  \/ ShutdownReturns
  \/ DeadlineExpires
  \/ Signal
  \/ Listen
  \/ ListenerFails
  \/ ServerCloses
  \/ SendError
  \/ \E c \in Conns : Accept(c) \/ RequestBegins(c) \/ RequestEnds(c) \/ ConnDrops(c)

(* Goroutines that can run do, and the context of Shutdown expires.        *)
(* Nothing is assumed of the clients, nor that anybody sends a signal.     *)
Fairness ==
  /\ WF_vars(RejectConfig \/ AcceptConfig)
  /\ WF_vars(SelectError \/ SelectSignal)
  /\ WF_vars(ShutdownReturns \/ DeadlineExpires)
  /\ WF_vars(SendError)

Spec == Init /\ [][Next]_vars /\ Fairness

-----------------------------------------------------------------------------
(* Properties.                                                             *)

(* Every variable has its type; a server that was started has a limit.     *)
TypeOK ==
  /\ main \in MainStates
  /\ exit \in {"none", "ok", "error"}
  /\ maxRequestSize \in Nat
  /\ serve # "notStarted" => maxRequestSize # 0
  /\ serve \in ServeStates
  /\ serveError \in ServeErrors
  /\ serverErrors \in {<<>>, <<"failed">>, <<"closed">>}
  /\ signalled \in BOOLEAN
  /\ conn \in [Conns -> ConnStates]

(* run: an exit status of 0 means that a signal asked for it and that no   *)
(* request was cut off, although ListenAndServe returns ErrServerClosed    *)
(* while requests are in progress.                                         *)
CleanExitCutsNothing == exit = "ok" => signalled /\ Active = {}

(* The branch of the select that returns nil for ErrServerClosed is never  *)
(* taken: while main waits in the select, nobody has called Shutdown.      *)
ClosedIsNeverSelected == main = "selecting" => serverErrors # <<"closed">>

(* The process keeps the promise of GracefulStop.                          *)
Stop == INSTANCE GracefulStop WITH
  Clients <- Conns,
  asked   <- signalled,
  broken  <- serve \in {"sending", "sent"},
  busy    <- Active,
  outcome <- exit

KeepsStopPromise == Stop!Spec

=============================================================================
