----------------------------- MODULE HttpServer -----------------------------
(***************************************************************************)
(* ifrit/http_server: the member of the process group that serves the API, *)
(* and how it stops.  net/http runs a goroutine per connection and reports *)
(* its states to ConnState, which counts connections in a WaitGroup and    *)
(* keeps those without a request in inactiveConnections; a signal closes   *)
(* these and waits for the count to reach zero.                            *)
(*                                                                         *)
(* net/http is external: Serve accepts one connection at a time and calls  *)
(* ConnState(StateNew) itself; StateActive comes after the request was     *)
(* read, StateClosed after the socket was closed (Go 1.6).                 *)
(***************************************************************************)
CONSTANT Conns   \* connections clients may open

VARIABLES
  server,     \* where Run is
  result,     \* what Run returned, "none" before
  failed,     \* Serve returned, with an error, before the listener was closed
  conn,       \* where the goroutine of each connection is
  open,       \* connections whose socket the server has not closed
  counted,    \* connections in connectionWaitGroup
  inactive    \* inactiveConnections

httpVars == <<server, result, failed, conn, open, counted, inactive>>
connVars == <<conn, open, counted, inactive>>
runVars == <<server, result, failed>>

HttpInit ==
  /\ server = "off"
  /\ result = "none"
  /\ failed = FALSE
  /\ conn = [c \in Conns |-> "none"]
  /\ open = {}
  /\ counted = {}
  /\ inactive = {}

\* stoppingChan is closed.
Stopping == server \in {"stopping", "closed", "blocked", "woken", "exited"}
            /\ result # "error"

ListenerOpen == server \in {"listening", "stopping"} /\ ~failed

ConnGoto(c, next) == conn' = [conn EXCEPT ![c] = next]

-----------------------------------------------------------------------------
(***************************************************************************)
(* net/http: Serve, and the goroutine of a connection.                     *)
(***************************************************************************)

Connect(c) ==
  /\ ListenerOpen
  /\ conn[c] = "none"
  /\ ConnGoto(c, "queued")
  /\ open' = open \cup {c}
  /\ UNCHANGED <<runVars, counted, inactive>>

\* Serve is busy with one connection until ConnState(StateNew) returns.
Accept(c) ==
  /\ ListenerOpen
  /\ conn[c] = "queued"
  /\ \A d \in Conns : conn[d] \notin {"accepted", "new", "newInsert"}
  /\ ConnGoto(c, "accepted")
  /\ UNCHANGED <<runVars, open, counted, inactive>>

\* Accept fails for good.
ServeFails ==
  /\ server = "listening"
  /\ ~failed
  /\ \A d \in Conns : conn[d] \notin {"accepted", "new", "newInsert"}
  /\ failed' = TRUE
  /\ UNCHANGED <<server, result, connVars>>

\* A request is read from a socket that is open.
ReadRequest(c) ==
  /\ conn[c] = "reading"
  /\ c \in open
  /\ ConnGoto(c, "read")
  /\ UNCHANGED <<runVars, open, counted, inactive>>

\* The client hangs up, or the socket was closed: the goroutine ends.
ReadFails(c) ==
  /\ conn[c] = "reading"
  /\ ConnGoto(c, "closing")
  /\ open' = open \ {c}
  /\ UNCHANGED <<runVars, counted, inactive>>

\* The handler returns, and its answer is sent; the connection may be kept.
\* When the handler panics, net/http recovers and closes it.
HandlerReturns(c) ==
  /\ conn[c] = "handling"
  /\ \/ ConnGoto(c, "answered") /\ UNCHANGED open
     \/ ConnGoto(c, "closing") /\ open' = open \ {c}
  /\ UNCHANGED <<runVars, counted, inactive>>

-----------------------------------------------------------------------------
(***************************************************************************)
(* ConnState.                                                              *)
(***************************************************************************)

\* Mutant: a connection counts once it has sent a request.
StateNewUncounted(c) ==
  /\ conn[c] = "accepted"
  /\ ConnGoto(c, "new")
  /\ UNCHANGED <<runVars, open, counted, inactive>>

StateNew(c) ==
  /\ conn[c] = "accepted"
  /\ counted' = counted \cup {c}
  /\ ConnGoto(c, "new")
  /\ UNCHANGED <<runVars, open, inactive>>

\* The select of addInactiveConnection, for StateNew and for StateIdle.
CheckStopping(c, from, then) ==
  /\ conn[c] = from
  /\ IF Stopping THEN ConnGoto(c, "reading") /\ open' = open \ {c}
                 ELSE ConnGoto(c, then) /\ UNCHANGED open
  /\ UNCHANGED <<runVars, counted, inactive>>

\* Its default case, after that.
Insert(c, from) ==
  /\ conn[c] = from
  /\ inactive' = inactive \cup {c}
  /\ ConnGoto(c, "reading")
  /\ UNCHANGED <<runVars, open, counted>>

addInactiveConnection(c) ==
  \/ CheckStopping(c, "new", "newInsert")
  \/ CheckStopping(c, "answered", "idleInsert")
  \/ Insert(c, "newInsert")
  \/ Insert(c, "idleInsert")

\* Mutant: the connection stays among the inactive ones.
StateActiveKept(c) ==
  /\ conn[c] = "read"
  /\ ConnGoto(c, "handling")
  /\ UNCHANGED <<runVars, open, counted, inactive>>

StateActive(c) ==
  /\ conn[c] = "read"
  /\ inactive' = inactive \ {c}
  /\ ConnGoto(c, "handling")
  /\ UNCHANGED <<runVars, open, counted>>

\* Mutant: Done is forgotten.
StateClosedUncounted(c) ==
  /\ conn[c] = "closing"
  /\ inactive' = inactive \ {c}
  /\ ConnGoto(c, "closed")
  /\ UNCHANGED <<runVars, open, counted>>

\* The last Done releases the Wait that is blocked.
StateClosed(c) ==
  /\ conn[c] = "closing"
  /\ inactive' = inactive \ {c}
  /\ counted' = counted \ {c}
  /\ server' = IF server = "blocked" /\ counted' = {} THEN "woken" ELSE server
  /\ ConnGoto(c, "closed")
  /\ UNCHANGED <<result, failed, open>>

-----------------------------------------------------------------------------
(***************************************************************************)
(* Run.                                                                    *)
(***************************************************************************)

Return(err) ==
  /\ server' = "exited"
  /\ result' = err

\* Mutant: the error of the listener is lost.
ListenErrorLost ==
  /\ server = "starting"
  /\ \/ server' = "listening" /\ UNCHANGED result
     \/ Return("nil")
  /\ UNCHANGED <<failed, connVars>>

\* getListener; ready is closed next.
Listen ==
  /\ server = "starting"
  /\ \/ server' = "listening" /\ UNCHANGED result
     \/ Return("error")
  /\ UNCHANGED <<failed, connVars>>

\* serverErrChan.
ServeReturned ==
  /\ server = "listening"
  /\ failed
  /\ Return("error")
  /\ UNCHANGED <<failed, connVars>>

\* A signal: stoppingChan is closed.
ServerSignalled ==
  /\ server = "listening"
  /\ server' = "stopping"
  /\ UNCHANGED <<result, failed, connVars>>

CloseListener ==
  /\ server = "stopping"
  /\ server' = "closed"
  /\ UNCHANGED <<result, failed, connVars>>

\* Under the mutex; then Wait, which returns at once, or blocks.
CloseInactive ==
  /\ server = "closed"
  /\ open' = open \ inactive
  /\ IF counted = {} THEN Return("nil")
                     ELSE server' = "blocked" /\ UNCHANGED result
  /\ UNCHANGED <<failed, conn, counted, inactive>>

\* A Wait that was released panics when Add was called since.
WaitReturns ==
  /\ server = "woken"
  /\ Return(IF counted = {} THEN "nil" ELSE "panic")
  /\ UNCHANGED <<failed, connVars>>

\* Steps of the stager, but for the handlers; clients and handlers.
ConnStep(c) ==
  \/ Accept(c)
  \/ StateNew(c)
  \/ addInactiveConnection(c)
  \/ StateActive(c)
  \/ StateClosed(c)
  \/ c \notin open /\ ReadFails(c)

RunStep ==
  \/ Listen
  \/ ServeReturned
  \/ CloseListener
  \/ CloseInactive
  \/ WaitReturns

ClientStep(c) == Connect(c) \/ ReadRequest(c) \/ (c \in open /\ ReadFails(c))

HttpStep ==
  \/ \E c \in Conns : ConnStep(c) \/ HandlerReturns(c) \/ ClientStep(c)
  \/ RunStep
  \/ ServeFails

-----------------------------------------------------------------------------
(***************************************************************************)
(* The server alone: it is started, and signalled at any moment.           *)
(***************************************************************************)

Start ==
  /\ server = "off"
  /\ server' = "starting"
  /\ UNCHANGED <<result, failed, connVars>>

HttpNext ==
  \/ Start
  \/ ServerSignalled
  \/ HttpStep

HttpSpec == HttpInit /\ [][HttpNext]_httpVars

-----------------------------------------------------------------------------

HttpTypeOK ==
  /\ server \in {"off", "starting", "listening", "stopping", "closed",
                 "blocked", "woken", "exited"}
  /\ result \in {"none", "nil", "error", "panic"}
  /\ failed \in BOOLEAN
  /\ conn \in [Conns -> {"none", "queued", "accepted", "new", "newInsert",
                         "reading", "read", "handling", "answered",
                         "idleInsert", "closing", "closed"}]
  /\ open \subseteq Conns
  /\ counted \subseteq Conns
  /\ inactive \subseteq Conns

\* A graceful stop cuts no handler off: when Run has returned nil, no
\* request is being handled, and none will be, although connections were
\* accepted and handed over while it stopped (ConnState against the wait at
\* the end of Run).
NoHandlerLeft ==
  result = "nil" =>
    \A c \in Conns :
      /\ conn[c] \notin {"read", "handling", "answered", "idleInsert"}
      /\ conn[c] = "reading" => c \notin open

\* The server does not close a connection under a running handler: what a
\* stop closes is not marked active (removeInactiveConnection against the
\* sweep over inactiveConnections).
HandlersKeepConnection ==
  [][\A c \in Conns :
       conn[c] = "handling" /\ conn'[c] = "handling" /\ c \in open
         => c \in open']_httpVars

\* Run never waits for nobody: while it is blocked in Wait there is a counted
\* connection whose goroutine has yet to call Done, and the last such call
\* releases it (Add and Done in ConnState are paired, whatever path a
\* connection takes through it while the server stops).
WaitIsReleased ==
  server = "blocked" => \E c \in counted : conn[c] # "closed"

\* A stop ends when clients do not hold on to idle connections: it waits for
\* every connection that was accepted, whatever it is doing when the listener
\* and the inactive ones are closed (Add and Done in ConnState against Wait).
StopEnds == server = "stopping" ~> server = "exited"

=============================================================================
