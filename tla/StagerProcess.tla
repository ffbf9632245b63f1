---------------------------- MODULE StagerProcess ----------------------------
(***************************************************************************)
(* The process of cmd/run.go: boot, then a monitor (ifrit/sigmon) over an  *)
(* ordered group (ifrit/grouper) of two members, HttpServer and            *)
(* RegistrationRunner, until a signal or the end of a member ends it all.  *)
(*                                                                         *)
(* process.Signal leaves a goroutine behind that offers the signal until   *)
(* the process takes it or has exited, so signals are neither lost nor     *)
(* ordered.  Nobody looks at which signal it is: they are only counted.    *)
(***************************************************************************)
EXTENDS HttpServer, RegistrationRunner

CONSTANT MaxSignals   \* SIGINT and SIGTERM the process is sent

ASSUME SignalsAssumption == MaxSignals \in Nat

VARIABLES
  main,       \* "connect", "boot", "up", "returning", or an end: see Ends
  sent,       \* signals sent to the process
  osSignals,  \* the channel of the monitor
  toGroup,    \* signals offered to the group
  signalled,  \* members that are offered a signal
  group,      \* where the ordered group is
  ended,      \* members that stop may skip, by errTrace
  errOccurred \* the group has seen a member fail

groupVars == <<group, ended, errOccurred>>
signalVars == <<sent, osSignals, toGroup, signalled>>
processVars ==
  <<httpVars, registrationVars, main, signalVars, groupVars>>

\* In the order of grouper.Members.
Members == {"server", "registration-runner"}

\* Exit status 0 and 1; a panic in any goroutine; a signal nobody handles.
Ends == {"exit 0", "exit 1", "panic", "killed"}

ProcessInit ==
  /\ HttpInit
  /\ RegistrationInit
  /\ main = "connect"
  /\ sent = 0
  /\ osSignals = 0
  /\ toGroup = 0
  /\ signalled = {}
  /\ group = "off"
  /\ ended = {}
  /\ errOccurred = FALSE

\* A panic of the server, in a goroutine of its own, stops everything.
Running == main = "up" /\ result # "panic"

\* The channels a member gives the group.
ServerReady == server \in {"listening", "stopping", "closed", "blocked", "woken"}
ExitOf(m) == IF m = "server" THEN result ELSE runnerErr
Exited(m) == ExitOf(m) # "none"

-----------------------------------------------------------------------------
(***************************************************************************)
(* runCmd, up to ifrit.Invoke; and its end.                                *)
(***************************************************************************)

\* NewStager asks the API server for its version, once: Fatal panics when it
\* does not answer.
ConnectKubernetes ==
  /\ main = "connect"
  /\ main' \in {"boot", "panic"}
  /\ UNCHANGED <<httpVars, registrationVars, signalVars, groupVars>>

\* Nor is there a stager without Swagger document and consul client.  Else the
\* monitor and the group run, and the group starts its first member.
Boot ==
  /\ main = "boot"
  /\ \/ main' = "panic" /\ UNCHANGED <<server, group>>
     \/ main' = "up" /\ group' = "startServer" /\ server' = "starting"
  /\ UNCHANGED <<result, failed, connVars, registrationVars, signalVars,
                 ended, errOccurred>>

ServerPanics ==
  /\ main = "up"
  /\ result = "panic"
  /\ main' = "panic"
  /\ UNCHANGED <<httpVars, registrationVars, signalVars, groupVars>>

\* A signal for which there is no channel, before or after the monitor ran.
Kill ==
  /\ main \in {"connect", "boot", "returning"}
  /\ sent < MaxSignals
  /\ sent' = sent + 1
  /\ main' = "killed"
  /\ UNCHANGED <<httpVars, registrationVars, osSignals, toGroup, signalled,
                 groupVars>>

-----------------------------------------------------------------------------
(***************************************************************************)
(* sigmon.                                                                 *)
(***************************************************************************)

Notify ==
  /\ Running
  /\ sent < MaxSignals
  /\ sent' = sent + 1
  /\ osSignals' = osSignals + 1
  /\ UNCHANGED <<httpVars, registrationVars, main, toGroup, signalled,
                 groupVars>>

Forward ==
  /\ Running
  /\ osSignals > 0
  /\ osSignals' = osSignals - 1
  /\ toGroup' = toGroup + 1
  /\ UNCHANGED <<httpVars, registrationVars, main, sent, signalled, groupVars>>

\* The group has returned: the monitor stops listening to signals, and
\* returns what the group did.
MonitorReturns ==
  /\ Running
  /\ group = "done"
  /\ main' = "returning"
  /\ UNCHANGED <<httpVars, registrationVars, signalVars, groupVars>>

ExitProcess ==
  /\ main = "returning"
  /\ main' = IF errOccurred THEN "exit 1" ELSE "exit 0"
  /\ UNCHANGED <<httpVars, registrationVars, signalVars, groupVars>>

-----------------------------------------------------------------------------
(***************************************************************************)
(* The ordered group: orderedStart and waitForSignal.                      *)
(***************************************************************************)

TakeSignal == toGroup > 0 /\ toGroup' = toGroup - 1

\* Stop works backwards; it starts at the last member that was started.
StopFrom(m) == IF m = "server" THEN "stopServer" ELSE "stopRunner"

\* A member has ended: it enters errTrace.
Trace(m) ==
  /\ ended' = ended \cup {m}
  /\ errOccurred' = (errOccurred \/ ExitOf(m) = "error")

\* Mutant: a signal that comes while members start is taken and forgotten.
StartSignalledForgotten(m, state) ==
  /\ group = state
  /\ TakeSignal
  /\ group' = IF state = "wait" THEN "stopRunner" ELSE state
  /\ UNCHANGED <<httpVars, registrationVars, main, sent, osSignals, signalled,
                 ended, errOccurred>>

\* The members started so far are m and those before it.
StartSignalled(m, state) ==
  /\ group = state
  /\ TakeSignal
  /\ group' = StopFrom(m)
  /\ UNCHANGED <<httpVars, registrationVars, main, sent, osSignals, signalled,
                 ended, errOccurred>>

\* The member that is being started ends instead: recv.Interface().(error)
\* panics when there is no error.
StartFailed(m, state) ==
  /\ Running
  /\ group = state
  /\ Exited(m)
  /\ IF ExitOf(m) = "nil"
     THEN main' = "panic" /\ UNCHANGED groupVars
     ELSE /\ Trace(m)
          /\ group' = StopFrom(m)
          /\ UNCHANGED main
  /\ UNCHANGED <<httpVars, registrationVars, signalVars>>

\* Mutant: the runner is started with the server, not after it.
ServerStartedEarly ==
  /\ Running
  /\ group = "startServer"
  /\ group' = "startRunner"
  /\ StartRunner
  /\ UNCHANGED <<httpVars, main, signalVars, ended, errOccurred>>

ServerStarted ==
  /\ Running
  /\ group = "startServer"
  /\ ServerReady
  /\ group' = "startRunner"
  /\ StartRunner
  /\ UNCHANGED <<httpVars, main, signalVars, ended, errOccurred>>

RunnerStarted ==
  /\ Running
  /\ group = "startRunner"
  /\ ready
  /\ group' = "wait"
  /\ UNCHANGED <<httpVars, registrationVars, main, signalVars, ended,
                 errOccurred>>

\* A member that was started before ends, with or without an error.
MemberEnded(m) ==
  /\ Running
  /\ group = "wait" \/ (group = "startRunner" /\ m = "server")
  /\ Exited(m)
  /\ Trace(m)
  /\ group' = "stopRunner"
  /\ UNCHANGED <<httpVars, registrationVars, main, signalVars>>

GroupSignalled ==
  /\ Running
  /\ \/ StartSignalled("server", "startServer")
     \/ StartSignalled("registration-runner", "startRunner")
     \/ StartSignalled("registration-runner", "wait")

-----------------------------------------------------------------------------
(***************************************************************************)
(* The ordered group: stop.                                                *)
(***************************************************************************)

StoppingMember(m) ==
  group = IF m = "server" THEN "stopServer" ELSE "stopRunner"

AfterStop(m) == IF m = "server" THEN "done" ELSE "stopServer"

\* Mutant: all members are signalled at once.
SignalMemberAll(m) ==
  /\ Running
  /\ StoppingMember(m)
  /\ m \notin signalled \cup ended
  /\ signalled' = Members
  /\ UNCHANGED <<httpVars, registrationVars, main, sent, osSignals, toGroup,
                 groupVars>>

SignalMember(m) ==
  /\ Running
  /\ StoppingMember(m)
  /\ m \notin signalled \cup ended
  /\ signalled' = signalled \cup {m}
  /\ UNCHANGED <<httpVars, registrationVars, main, sent, osSignals, toGroup,
                 groupVars>>

\* Another signal while a member ends: it is passed on when it differs, to a
\* member that was offered one already.
SignalWhileStopping ==
  /\ Running
  /\ \E m \in signalled \ ended : StoppingMember(m)
  /\ TakeSignal
  /\ UNCHANGED <<httpVars, registrationVars, main, sent, osSignals, signalled,
                 groupVars>>

\* Mutant: what a member returns when it is stopped is not looked at.
MemberStoppedUnchecked(m) ==
  /\ Running
  /\ StoppingMember(m)
  /\ m \in ended \/ (m \in signalled /\ Exited(m))
  /\ group' = AfterStop(m)
  /\ UNCHANGED <<httpVars, registrationVars, main, signalVars, ended,
                 errOccurred>>

MemberStopped(m) ==
  /\ Running
  /\ StoppingMember(m)
  /\ IF m \in ended THEN UNCHANGED <<ended, errOccurred>>
                    ELSE m \in signalled /\ Exited(m) /\ Trace(m)
  /\ group' = AfterStop(m)
  /\ UNCHANGED <<httpVars, registrationVars, main, signalVars>>

-----------------------------------------------------------------------------
(***************************************************************************)
(* The members, and what is around the process.                            *)
(***************************************************************************)

\* The goroutine of process.Signal meets the select of the member.
MemberSignalled ==
  /\ Running
  /\ \/ /\ "server" \in signalled
        /\ ServerSignalled
        /\ UNCHANGED registrationVars
     \/ /\ "registration-runner" \in signalled
        /\ RunnerSignalled
        /\ UNCHANGED httpVars
  /\ UNCHANGED <<main, signalVars, groupVars>>

ServerProgress(Step) ==
  /\ Running
  /\ Step
  /\ UNCHANGED <<registrationVars, main, signalVars, groupVars>>

RunnerProgress(Step) ==
  /\ Running
  /\ Step
  /\ UNCHANGED <<httpVars, main, signalVars, groupVars>>

\* consul outlives the process.
Consul ==
  /\ ConsulStep
  /\ UNCHANGED <<httpVars, main, signalVars, groupVars>>

GroupStep ==
  \/ GroupSignalled
  \/ \E m \in Members : MemberEnded(m) \/ SignalMember(m) \/ MemberStopped(m)
  \/ StartFailed("server", "startServer")
  \/ StartFailed("registration-runner", "startRunner")
  \/ ServerStarted
  \/ RunnerStarted

ProcessNext ==
  \/ ConnectKubernetes \/ Boot \/ Kill \/ ServerPanics
  \/ Notify \/ Forward \/ MonitorReturns \/ ExitProcess
  \/ GroupStep \/ SignalWhileStopping
  \/ MemberSignalled
  \/ ServerProgress(HttpStep)
  \/ RunnerProgress(RunnerStep)
  \/ Consul

ProcessSpec == ProcessInit /\ [][ProcessNext]_processVars

\* Every goroutine is scheduled, timers fire, the consul agent answers every
\* call, handlers return, and clients do not hold on to idle connections.
ProcessFairness ==
  /\ WF_processVars(GroupStep)
  /\ WF_processVars(ConnectKubernetes \/ Boot)
  /\ WF_processVars(ServerPanics)
  /\ WF_processVars(Forward)
  /\ WF_processVars(MonitorReturns)
  /\ WF_processVars(ExitProcess)
  /\ WF_processVars(MemberSignalled)
  /\ WF_processVars(RunnerProgress(RetryTimerFires))
  /\ WF_processVars(RunnerProgress(Receiving))
  /\ WF_processVars(RunnerProgress(Heartbeat))
  /\ WF_processVars(RunnerProgress(Register))
  /\ WF_processVars(ServerProgress(RunStep))
  /\ \A c \in Conns :
       WF_processVars(ServerProgress(ConnStep(c) \/ HandlerReturns(c)
                                       \/ ReadFails(c)))

ProcessFairSpec == ProcessSpec /\ ProcessFairness

-----------------------------------------------------------------------------

\* Whom consul sends clients to answers: while the check this stager passed
\* is passing, the process runs and its listener is open, through start,
\* heartbeats, late registrations and shutdown, unless the server failed, the
\* deregistration failed, or the process died (the order of the members in
\* run.go, and the reverse order of stop).
AdvertisedIsServed ==
  /\ check = "passing"
  /\ ~failed
  /\ runnerErr # "error"
  /\ main \notin {"panic", "killed"}
  => Running /\ ListenerOpen

\* The group never meets a member that ends its start without an error, which
\* it takes for one: only a failed boot, and the server, panic
\* (recv.Interface().(error) in orderedStart).
NoNilAssertion == main = "panic" => group = "off" \/ result = "panic"

\* The exit status is the truth: 0 is left to a process that was told to end
\* and whose members ended well, with no request under way; 1 to one with a
\* member that failed, at whichever moment (errTrace of the group, through
\* the monitor, to os.Exit).
ExitStatusIsTrue ==
  LET failures == {m \in Members : ExitOf(m) = "error"}
  IN  /\ main = "exit 0" => /\ sent > 0
                            /\ failures = {}
                            /\ \A c \in Conns : conn[c] # "handling"
      /\ main = "exit 1" => failures # {}

\* Where the server is, and with it the process, to those outside.
ServerLife ==
  CASE server \in {"off", "starting"} -> "starting"
    [] ListenerOpen -> "serving"
    [] server \in {"listening", "stopping"} /\ failed -> "broken"
    [] result = "nil" -> "drained"
    [] OTHER -> "closed"

Life ==
  CASE main \in {"panic", "killed"} -> "dead"
    [] main \in {"exit 0", "exit 1"} -> main
    [] OTHER -> ServerLife

Promise == INSTANCE ProcessContract
  WITH life       <- Life,
       advertised <- check = "passing",
       busy       <- {c \in Conns : conn[c] = "handling"},
       failure    <- \E m \in Members : ExitOf(m) = "error"

\* The process keeps the promise of ProcessContract, through boot, failures of
\* either member and signals at any moment: clients are led to it only after
\* it listens, and led away before it closes the listener, it does not die
\* while it serves, and exits 0 only when its requests have ended (the order
\* of the members in run.go, the group that stops them in reverse, and the
\* waits of each).
ImplementsProcessContract == Promise!Spec

\* A signal the monitor has taken is never forgotten, and never leaves the
\* group waiting for a member that was not started: it is on its way, or the
\* group stops a member that runs or has ended, or has returned (the selects
\* of orderedStart, whose members so far are stopped, against those of stop).
SignalTakesEffect ==
  sent > 0 /\ Running =>
    \/ osSignals + toGroup > 0
    \/ group = "stopRunner" /\ runner # "off"
    \/ group = "stopServer" /\ server # "off"
    \/ group = "done"

\* A signal ends the process, whenever it comes: during boot, while a member
\* starts, while another signal is being handled.
SignalEndsProcess == sent > 0 ~> main \in Ends

\* The stager is found again whatever the agent lost and whichever calls
\* failed: from any point of the runner's life, the check gets to pass, or the
\* process ends (the retry timer, the first PassTTL whose result is ignored,
\* and the registration after a failed heartbeat).
AdvertisedAgain ==
  runner \in {"registering", "polling"} ~>
    check = "passing" \/ runner = "exited" \/ main = "panic"

=============================================================================
