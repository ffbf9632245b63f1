------------------------- MODULE StagerProcessProofs -------------------------
(***************************************************************************)
(* The stager is advertised only while it serves, the group does not       *)
(* panic, and the exit status is the truth: for any number of connections, *)
(* signals, faults of consul and registrations under way.                  *)
(***************************************************************************)
EXTENDS StagerProcess, TLAPS

\* A connection net/http has handed over is counted until it is closed, and
\* no other is.
HandedOver ==
  {"new", "newInsert", "reading", "read", "handling", "answered",
   "idleInsert", "closing"}

AllCounted == \A c \in Conns : conn[c] \in HandedOver <=> c \in counted

\* An inactive connection has no running handler.
InactiveRest == \A c \in inactive : conn[c] \in {"reading", "read", "closing"}

ReturnedExited == result # "none" => server = "exited"

\* Nothing fails or connects before the server listens.
NothingYet ==
  server \in {"off", "starting"} => ~failed /\ \A c \in Conns : conn[c] = "none"

\* Wait blocks only while something is counted.
WaitsForSome == server = "blocked" => counted # {}

\* Once Run has returned, what comes late is closed before it is read.
LateClosed ==
  result = "nil" =>
    \A c \in Conns :
      /\ conn[c] \in {"none", "queued", "accepted", "new", "reading",
                      "closing", "closed"}
      /\ conn[c] = "reading" => c \notin open

HttpInv ==
  /\ HttpTypeOK
  /\ AllCounted
  /\ InactiveRest
  /\ ReturnedExited
  /\ NothingYet
  /\ WaitsForSome
  /\ LateClosed

-----------------------------------------------------------------------------

\* Nothing has happened yet: the invariant of HttpServer holds at the start.
LEMMA InitHttpInv == HttpInit => HttpInv
  BY DEF HttpInit, HttpInv, HttpTypeOK, AllCounted, HandedOver, InactiveRest,
         ReturnedExited, NothingYet, WaitsForSome, LateClosed

\* The steps of one connection, of net/http and in ConnState, keep it.
LEMMA ConnKeepsInv ==
  ASSUME HttpInv, NEW c \in Conns,
         ConnStep(c) \/ HandlerReturns(c) \/ ClientStep(c)
  PROVE  HttpInv'
<1> USE DEF HttpInv, HttpTypeOK, AllCounted, HandedOver, InactiveRest,
            ReturnedExited, NothingYet, WaitsForSome, LateClosed, ConnGoto,
            runVars, connVars
<1>1. CASE Connect(c)
  BY <1>1 DEF Connect, ListenerOpen
<1>2. CASE Accept(c)
  BY <1>2 DEF Accept, ListenerOpen
<1>3. CASE ReadRequest(c)
  BY <1>3 DEF ReadRequest
<1>4. CASE ReadFails(c)
  BY <1>4 DEF ReadFails
<1>5. CASE HandlerReturns(c)
  BY <1>5 DEF HandlerReturns
<1>6. CASE StateNew(c)
  BY <1>6 DEF StateNew
<1>7. CASE addInactiveConnection(c)
  <2>1. CASE CheckStopping(c, "new", "newInsert")
    BY <2>1 DEF CheckStopping, Stopping
  <2>2. CASE CheckStopping(c, "answered", "idleInsert")
    BY <2>2 DEF CheckStopping, Stopping
  <2>3. CASE Insert(c, "newInsert")
    BY <2>3 DEF Insert
  <2>4. CASE Insert(c, "idleInsert")
    BY <2>4 DEF Insert
  <2> QED BY <1>7, <2>1, <2>2, <2>3, <2>4 DEF addInactiveConnection
<1>8. CASE StateActive(c)
  BY <1>8 DEF StateActive
<1>9. CASE StateClosed(c)
  BY <1>9 DEF StateClosed
<1> QED
  BY <1>1, <1>2, <1>3, <1>4, <1>5, <1>6, <1>7, <1>8, <1>9
  DEF ConnStep, ClientStep

\* The steps of Run keep it: Run returns nil only when nothing is counted.
LEMMA RunKeepsInv ==
  ASSUME HttpInv, RunStep \/ ServeFails \/ Start \/ ServerSignalled
  PROVE  HttpInv'
<1> USE DEF HttpInv, HttpTypeOK, AllCounted, HandedOver, InactiveRest,
            ReturnedExited, NothingYet, WaitsForSome, LateClosed, runVars,
            connVars, Return
<1>1. CASE Listen
  BY <1>1 DEF Listen
<1>2. CASE ServeReturned
  BY <1>2 DEF ServeReturned
<1>3. CASE CloseListener
  BY <1>3 DEF CloseListener
<1>4. CASE CloseInactive
  BY <1>4 DEF CloseInactive
<1>5. CASE WaitReturns
  BY <1>5 DEF WaitReturns
<1>6. CASE ServeFails
  BY <1>6 DEF ServeFails
<1>7. CASE Start
  BY <1>7 DEF Start
<1>8. CASE ServerSignalled
  BY <1>8 DEF ServerSignalled
<1> QED
  BY <1>1, <1>2, <1>3, <1>4, <1>5, <1>6, <1>7, <1>8 DEF RunStep

\* Every step of the server keeps its invariant.
LEMMA HttpKeepsInv == HttpInv /\ [HttpNext]_httpVars => HttpInv'
<1> SUFFICES ASSUME HttpInv, [HttpNext]_httpVars
             PROVE  HttpInv'
  OBVIOUS
<1>1. CASE UNCHANGED httpVars
  BY <1>1 DEF httpVars, HttpInv, HttpTypeOK, AllCounted, HandedOver,
              InactiveRest, ReturnedExited, NothingYet, WaitsForSome,
              LateClosed
<1>2. CASE HttpNext
  BY <1>2, ConnKeepsInv, RunKeepsInv DEF HttpNext, HttpStep
<1> QED BY <1>1, <1>2

\* The invariant holds throughout.
THEOREM HttpInvariant == HttpSpec => []HttpInv
<1>1. HttpInv /\ [HttpNext]_httpVars => HttpInv'
  BY HttpKeepsInv
<1> QED BY <1>1, InitHttpInv, PTL DEF HttpSpec

-----------------------------------------------------------------------------

\* A graceful stop cuts no handler off, however many connections are open,
\* handed over or idle when the signal comes.
THEOREM NoHandlerLeftAlways == HttpSpec => []NoHandlerLeft
<1>1. HttpInv => NoHandlerLeft
  BY DEF HttpInv, LateClosed, NoHandlerLeft
<1> QED BY <1>1, HttpInvariant, PTL

\* Run never waits for nobody, however connections come, end and are closed
\* while it stops: what is counted has a goroutine that has yet to end.
THEOREM WaitIsReleasedAlways == HttpSpec => []WaitIsReleased
<1>1. HttpInv => WaitIsReleased
  <2> SUFFICES ASSUME HttpInv, server = "blocked"
               PROVE  \E c \in counted : conn[c] # "closed"
    BY DEF WaitIsReleased
  <2>1. PICK c : c \in counted
    BY DEF HttpInv, WaitsForSome
  <2>2. conn[c] \in HandedOver
    BY <2>1 DEF HttpInv, HttpTypeOK, AllCounted
  <2> QED BY <2>1, <2>2 DEF HandedOver
<1> QED BY <1>1, HttpInvariant, PTL

\* No step closes the socket of a connection under its handler.
THEOREM HandlersKeepConnectionAlways == HttpSpec => HandlersKeepConnection
<1>1. HttpInv /\ [HttpNext]_httpVars =>
        [\A c \in Conns :
           conn[c] = "handling" /\ conn'[c] = "handling" /\ c \in open
             => c \in open']_httpVars
  <2> SUFFICES ASSUME HttpInv, HttpNext, NEW c \in Conns,
                      conn[c] = "handling", conn'[c] = "handling", c \in open
               PROVE  c \in open'
    OBVIOUS
  <2> USE DEF HttpInv, HttpTypeOK, InactiveRest
  <2>1. ASSUME NEW d \in Conns, ConnStep(d) \/ HandlerReturns(d) \/ ClientStep(d)
        PROVE  c \in open'
    BY <2>1
    DEF ConnStep, ClientStep, Connect, Accept, ReadRequest,
        ReadFails, HandlerReturns, StateNew,
        addInactiveConnection, CheckStopping, Insert, StateActive,
        StateClosed, ConnGoto, runVars, connVars
  <2>2. CASE RunStep \/ ServeFails \/ Start \/ ServerSignalled
    BY <2>2
    DEF RunStep, Listen, ServeReturned, CloseListener, CloseInactive,
        WaitReturns, ServeFails, Start, ServerSignalled, Return, connVars
  <2> QED BY <2>1, <2>2 DEF HttpNext, HttpStep
<1> QED BY <1>1, HttpInvariant, PTL DEF HttpSpec, HandlersKeepConnection

-----------------------------------------------------------------------------

\* The runner: what it returned, and what it left with consul.
RunnerReturned == runnerErr # "none" <=> runner = "exited"

PassingSince == check = "passing" => runner \in {"polling", "exited"}

NothingBefore ==
  runner = "off" =>
    ~retryTimer /\ calls = 0 /\ answers["nil"] = 0 /\ answers["error"] = 0

RegistrationInv ==
  /\ Flags
  /\ Values
  /\ OneAttempt
  /\ RunnerReturned
  /\ PassingSince
  /\ NothingBefore
  /\ NotAdvertisedAfterExit

-----------------------------------------------------------------------------

\* Signals come from outside.
Told == sent > 0

Counters ==
  /\ sent \in Nat
  /\ osSignals \in Nat
  /\ toGroup \in Nat
  /\ osSignals > 0 => Told
  /\ toGroup > 0 => Told

Kinds ==
  /\ main \in {"connect", "boot", "up", "returning"} \cup Ends
  /\ signalled \subseteq Members
  /\ group \in {"off", "startServer", "startRunner", "wait",
                "stopRunner", "stopServer", "done"}
  /\ ended \subseteq Members
  /\ errOccurred \in BOOLEAN

\* How far main, the group and its members are.
Phases ==
  /\ main \in {"connect", "boot"} => group = "off"
  /\ main \in {"returning", "exit 0", "exit 1"} => group = "done"
  /\ group = "off" => server = "off" /\ main \in {"connect", "boot", "panic", "killed"}
  /\ group \in {"off", "startServer"} => runner = "off"
  /\ group \in {"startRunner", "wait", "stopRunner"} => server \notin {"off", "starting"}
  /\ group \in {"stopServer", "done"} => runner \in {"off", "exited"}

\* Members are signalled backwards, and return without being signalled only
\* when they fail.
SignalledLast ==
  /\ signalled # {} => group \in {"stopRunner", "stopServer", "done"}
  /\ "server" \in signalled => group \in {"stopServer", "done"}
  /\ "server" \notin signalled =>
       /\ server \in {"off", "starting", "listening"} \/ result = "error"
       /\ runner # "off" /\ ~failed => server = "listening"
  /\ "registration-runner" \notin signalled => runner # "exited"

\* What the group knows of the members that ended.
EndedKnown ==
  /\ \A m \in ended : Exited(m) /\ ExitOf(m) # "panic"
  /\ group \in {"stopServer", "done"} /\ runner = "exited" =>
       "registration-runner" \in ended
  /\ group = "done" => "server" \in ended
  /\ errOccurred <=> \E m \in ended : ExitOf(m) = "error"

\* The group stops for a signal, or for a failure.
StopsForReason ==
  group \in {"stopRunner", "stopServer", "done"} => errOccurred \/ Told

\* How the process ended.
EndsTrue ==
  /\ main = "exit 0" => ~errOccurred
  /\ main = "exit 1" => errOccurred
  /\ main = "exit 0" => result = "nil"
  /\ NoNilAssertion

GroupInv ==
  /\ Kinds
  /\ Phases
  /\ SignalledLast
  /\ EndedKnown
  /\ StopsForReason
  /\ EndsTrue

ProcessInv == HttpInv /\ RegistrationInv /\ Counters /\ GroupInv

-----------------------------------------------------------------------------
(***************************************************************************)
(* The runner.                                                             *)
(***************************************************************************)

\* Nothing was passed or returned yet: the invariant of the runner holds at
\* the start, whatever an earlier process left with consul.
LEMMA InitRegistrationInv == RegistrationInit => RegistrationInv
<1> SUFFICES ASSUME RegistrationInit PROVE RegistrationInv
  OBVIOUS
<1> USE DEF RegistrationInit, Err
<1>1. Flags
  BY DEF Flags
<1>2. Values
  BY DEF Values
<1>3. OneAttempt /\ RunnerReturned /\ PassingSince /\ NothingBefore
      /\ NotAdvertisedAfterExit
  BY DEF OneAttempt, RunnerReturned, PassingSince, NothingBefore,
         NotAdvertisedAfterExit
<1> QED BY <1>1, <1>2, <1>3 DEF RegistrationInv

\* What consul does by itself, and a registration that lands at any time,
\* keep it.
LEMMA ConsulKeepsInv ==
  ASSUME RegistrationInv, ConsulStep
  PROVE  RegistrationInv'
<1> USE DEF RegistrationInv, Flags, Values, OneAttempt, RunnerReturned,
            PassingSince, NothingBefore, NotAdvertisedAfterExit, Err,
            runnerVars, callVars, Fault
<1>1. CASE Expire
  BY <1>1 DEF Expire
<1>2. CASE Forget
  <2>1. Flags'
    BY <1>2 DEF Forget
  <2>2. Values' /\ OneAttempt' /\ RunnerReturned' /\ PassingSince'
        /\ NothingBefore' /\ NotAdvertisedAfterExit'
    BY <1>2 DEF Forget
  <2> QED BY <2>1, <2>2 DEF RegistrationInv
<1>3. CASE Register
  <2>1. Flags'
    BY <1>3 DEF Register, ServiceRegister, TakesEffect, Fails, Unaffected
  <2>2. Values' /\ OneAttempt' /\ RunnerReturned' /\ PassingSince'
        /\ NothingBefore' /\ NotAdvertisedAfterExit'
    BY <1>3 DEF Register, ServiceRegister, TakesEffect, Fails, Unaffected
  <2> QED BY <2>1, <2>2 DEF RegistrationInv
<1> QED BY <1>1, <1>2, <1>3 DEF ConsulStep

\* The steps of Run keep it: a check is passed while polling only, and an
\* attempt ends with its answer.
LEMMA RunnerKeepsInv ==
  ASSUME RegistrationInv, StartRunner \/ RunnerStep \/ RunnerSignalled
  PROVE  RegistrationInv'
<1> USE DEF RegistrationInv, Flags, Values, OneAttempt, RunnerReturned,
            PassingSince, NothingBefore, NotAdvertisedAfterExit, Err,
            runnerVars, callVars, consulVars
<1>1. CASE StartRunner
  BY <1>1 DEF StartRunner
<1>2. CASE RetryTimerFires
  <2>1. Flags'
    BY <1>2 DEF RetryTimerFires, GoRegister
  <2>2. Values' /\ OneAttempt' /\ RunnerReturned' /\ PassingSince'
        /\ NothingBefore' /\ NotAdvertisedAfterExit'
    BY <1>2 DEF RetryTimerFires, GoRegister
  <2> QED BY <2>1, <2>2 DEF RegistrationInv
<1>3. CASE NotRegistered
  BY <1>3 DEF NotRegistered, Receive
<1>4. CASE Registered
  <2>1. Flags'
    BY <1>4 DEF Registered, Receive, PassTTL, TakesEffect, Fails, Fault,
                Unaffected
  <2>2. Values' /\ OneAttempt' /\ RunnerReturned' /\ PassingSince'
        /\ NothingBefore' /\ NotAdvertisedAfterExit'
    BY <1>4 DEF Registered, Receive, PassTTL, TakesEffect, Fails, Fault,
                Unaffected
  <2> QED BY <2>1, <2>2 DEF RegistrationInv
<1>5. CASE RegisteredAgain
  BY <1>5 DEF RegisteredAgain, Receive
<1>6. CASE Heartbeat
  BY <1>6 DEF Heartbeat, PassTTL, TakesEffect, Fails, Fault, Unaffected,
              GoRegister
<1>7. CASE SignalledEarly
  BY <1>7 DEF SignalledEarly, Exit
<1>8. CASE Deregister
  <2>1. Flags'
    BY <1>8 DEF Deregister, ServiceDeregister, TakesEffect, Fails, Fault,
                Unaffected, Exit
  <2>2. Values' /\ OneAttempt' /\ RunnerReturned' /\ PassingSince'
        /\ NothingBefore' /\ NotAdvertisedAfterExit'
    BY <1>8 DEF Deregister, ServiceDeregister, TakesEffect, Fails, Fault,
                Unaffected, Exit
  <2> QED BY <2>1, <2>2 DEF RegistrationInv
<1> QED
  BY <1>1, <1>2, <1>3, <1>4, <1>5, <1>6, <1>7, <1>8
  DEF RunnerStep, Receiving, RunnerSignalled

\* Every step of the runner and of consul keeps the invariant of the runner.
LEMMA RegistrationKeepsInv ==
  RegistrationInv /\ [RegistrationNext]_registrationVars => RegistrationInv'
<1>1. ASSUME RegistrationInv, UNCHANGED registrationVars
      PROVE  RegistrationInv'
  BY <1>1
  DEF registrationVars, runnerVars, callVars, consulVars, RegistrationInv,
      Flags, Values, OneAttempt, RunnerReturned, PassingSince,
      NothingBefore, NotAdvertisedAfterExit
<1> QED BY <1>1, ConsulKeepsInv, RunnerKeepsInv DEF RegistrationNext

\* The invariant of the runner holds throughout.
THEOREM RegistrationInvariant == RegistrationSpec => []RegistrationInv
<1>1. RegistrationInv /\ [RegistrationNext]_registrationVars => RegistrationInv'
  BY RegistrationKeepsInv
<1> QED BY <1>1, InitRegistrationInv, PTL DEF RegistrationSpec

\* There is one registration attempt, never two and never none, until the
\* service is registered, whatever consul answers.
THEOREM OneAttemptAlways == RegistrationSpec => []OneAttempt
<1>1. RegistrationInv => OneAttempt
  BY DEF RegistrationInv
<1> QED BY <1>1, RegistrationInvariant, PTL

\* Once Run has returned without an error, no check it passed is passing,
\* however many registrations were under way.
THEOREM NotAdvertisedAfterExitAlways ==
  RegistrationSpec => []NotAdvertisedAfterExit
<1>1. RegistrationInv => NotAdvertisedAfterExit
  BY DEF RegistrationInv
<1> QED BY <1>1, RegistrationInvariant, PTL

-----------------------------------------------------------------------------
(***************************************************************************)
(* The process.                                                            *)
(***************************************************************************)

\* No boot, no signal, no member yet: the invariant holds at the start.
LEMMA InitProcessInv == ProcessInit => ProcessInv
<1> SUFFICES ASSUME ProcessInit PROVE ProcessInv
  OBVIOUS
<1>1. HttpInv /\ RegistrationInv
  BY InitHttpInv, InitRegistrationInv DEF ProcessInit
<1>2. Counters
  BY DEF ProcessInit, Counters
<1>3. Kinds /\ StopsForReason /\ EndsTrue
  BY DEF ProcessInit, Kinds, StopsForReason, EndsTrue, NoNilAssertion
<1>4. Phases /\ SignalledLast /\ EndedKnown
  BY DEF ProcessInit, Phases, SignalledLast, EndedKnown, HttpInit,
         RegistrationInit
<1> QED BY <1>1, <1>2, <1>3, <1>4 DEF ProcessInv, GroupInv

\* What the goroutines of the server may do to what the group sees of it.
LEMMA HttpStepEffect ==
  ASSUME HttpInv, HttpStep
  PROVE  \/ UNCHANGED runVars
         \/ /\ server = "starting"
            /\ failed' = failed
            /\ \/ server' = "listening" /\ result' = result
               \/ server' = "exited" /\ result' = "error"
         \/ /\ server = "listening"
            /\ \/ server' = server /\ result' = result /\ failed' = TRUE
               \/ failed /\ failed' /\ server' = "exited" /\ result' = "error"
         \/ /\ server \in {"stopping", "closed", "blocked", "woken"}
            /\ failed' = failed
            /\ \/ /\ server' \in {"closed", "blocked", "woken"}
                  /\ result' = result
               \/ server' = "exited" /\ result' \in {"nil", "panic"}
<1> USE DEF runVars, connVars, Return
<1>1. ASSUME NEW c \in Conns, ConnStep(c) \/ HandlerReturns(c) \/ ClientStep(c)
      PROVE  UNCHANGED runVars
             \/ (server = "blocked" /\ server' = "woken"
                 /\ UNCHANGED <<result, failed>>)
  BY <1>1
  DEF ConnStep, ClientStep, Connect, Accept, ReadRequest,
      ReadFails, HandlerReturns, StateNew,
      addInactiveConnection, CheckStopping, Insert, StateActive, StateClosed
<1>2. CASE RunStep \/ ServeFails
  BY <1>2 DEF RunStep, Listen, ServeReturned, CloseListener, CloseInactive,
              WaitReturns, ServeFails
<1> QED BY <1>1, <1>2 DEF HttpStep

\* Server and runner at rest keep their invariants.
LEMMA AtRest ==
  /\ HttpInv /\ UNCHANGED httpVars => HttpInv'
  /\ RegistrationInv /\ UNCHANGED registrationVars => RegistrationInv'
<1>1. HttpInv /\ UNCHANGED httpVars => HttpInv'
  BY HttpKeepsInv
<1>2. RegistrationInv /\ UNCHANGED registrationVars => RegistrationInv'
  BY RegistrationKeepsInv
<1> QED BY <1>1, <1>2

\* Signals are counted right: none is offered that was not sent.
LEMMA CountersKept ==
  ASSUME Counters, [ProcessNext]_processVars
  PROVE  Counters' /\ (Told => Told')
<1> USE DEF Counters, Told, TakeSignal
<1>1. CASE UNCHANGED <<sent, osSignals, toGroup>>
  BY <1>1
<1>2. CASE Kill \/ Notify \/ Forward
  BY <1>2 DEF Kill, Notify, Forward
<1>3. CASE GroupSignalled \/ SignalWhileStopping
  BY <1>3 DEF GroupSignalled, StartSignalled, SignalWhileStopping
<1>4. CASE UNCHANGED processVars \/ UNCHANGED signalVars
  BY <1>1, <1>4 DEF processVars, signalVars
<1>5. ASSUME NEW m \in Members, SignalMember(m)
      PROVE  UNCHANGED <<sent, osSignals, toGroup>>
  BY <1>5 DEF SignalMember
<1>6. CASE ConnectKubernetes \/ Boot \/ ServerPanics \/ MonitorReturns
           \/ ExitProcess \/ MemberSignalled \/ Consul
           \/ ServerProgress(HttpStep) \/ RunnerProgress(RunnerStep)
  BY <1>4, <1>6 DEF ConnectKubernetes, Boot, ServerPanics, MonitorReturns,
        ExitProcess, MemberSignalled, Consul, ServerProgress, RunnerProgress
<1>7. CASE GroupStep
  BY <1>1, <1>3, <1>4, <1>5, <1>7
  DEF GroupStep, MemberEnded, MemberStopped, StartFailed, ServerStarted,
      RunnerStarted, signalVars
<1> QED BY <1>2, <1>3, <1>4, <1>6, <1>7 DEF ProcessNext

\* What consul and the heartbeats do is nothing to the group.
LEMMA GroupAtRest ==
  ASSUME GroupInv, UNCHANGED <<server, result, failed, runner, runnerErr>>,
         Told => Told', UNCHANGED <<main, signalled, groupVars>>
  PROVE  GroupInv'
  BY DEF GroupInv, Kinds, Phases, SignalledLast, EndedKnown, StopsForReason,
         EndsTrue, NoNilAssertion, groupVars, Exited, ExitOf

\* The steps of main, and of the operating system.
LEMMA MainKeepsInv ==
  ASSUME ProcessInv, Told => Told',
         ConnectKubernetes \/ Boot \/ Kill \/ ServerPanics \/ ExitProcess
  PROVE  HttpInv' /\ RegistrationInv' /\ GroupInv'
<1> USE DEF ProcessInv, GroupInv, Kinds, Phases, SignalledLast, EndedKnown,
            StopsForReason, EndsTrue, NoNilAssertion, Exited, ExitOf, Ends,
            httpVars, runVars, registrationVars, runnerVars, groupVars
<1>1. CASE ConnectKubernetes
  BY <1>1, AtRest DEF ConnectKubernetes, signalVars
<1>2. CASE Boot
  BY <1>2, AtRest, RunKeepsInv DEF Boot, Start, connVars, signalVars
<1>3. CASE Kill
  BY <1>3, AtRest DEF Kill
<1>4. CASE ServerPanics
  BY <1>4, AtRest DEF ServerPanics, signalVars
<1>5. CASE ExitProcess
  <2>1. CASE errOccurred
    BY <1>5, <2>1, AtRest DEF ExitProcess, signalVars
  <2>2. CASE ~errOccurred
    <3>1. result = "nil"
      BY <1>5, <2>2 DEF ExitProcess, HttpInv, HttpTypeOK
    <3> QED BY <1>5, <2>2, <3>1, AtRest DEF ExitProcess, signalVars
  <2> QED BY <2>1, <2>2
<1> QED BY <1>1, <1>2, <1>3, <1>4, <1>5

\* The steps of the monitor, and of the group while its members start.
LEMMA StartKeepsInv ==
  ASSUME ProcessInv, Told => Told',
         \/ Notify \/ Forward \/ MonitorReturns \/ GroupSignalled
         \/ ServerStarted \/ RunnerStarted
         \/ StartFailed("server", "startServer")
         \/ StartFailed("registration-runner", "startRunner")
  PROVE  HttpInv' /\ RegistrationInv' /\ GroupInv'
<1>1. CASE Notify \/ Forward
  BY <1>1, AtRest, GroupAtRest
  DEF Notify, Forward, ProcessInv, httpVars, runVars, registrationVars,
      runnerVars
<1> USE DEF ProcessInv, GroupInv, Kinds, Phases, SignalledLast, EndedKnown,
            StopsForReason, EndsTrue, NoNilAssertion, Exited, ExitOf, Ends,
            Members, Running, signalVars, groupVars
<1>2. CASE MonitorReturns
  BY <1>2, AtRest
  DEF MonitorReturns, httpVars, runVars, registrationVars, runnerVars
<1>3. CASE GroupSignalled
  <2>1. Told
    BY <1>3 DEF GroupSignalled, StartSignalled, TakeSignal, Counters
  <2>2. \/ group = "startServer" /\ group' = "stopServer"
        \/ group \in {"startRunner", "wait"} /\ group' = "stopRunner"
    BY <1>3 DEF GroupSignalled, StartSignalled, StopFrom
  <2>3. UNCHANGED <<httpVars, registrationVars, main, signalled, ended,
                    errOccurred>>
    BY <1>3 DEF GroupSignalled, StartSignalled
  <2> QED
    BY <2>1, <2>2, <2>3, AtRest
    DEF httpVars, runVars, registrationVars, runnerVars
<1>4. CASE ServerStarted
  BY <1>4, AtRest, RunnerKeepsInv
  DEF ServerStarted, ServerReady, StartRunner, httpVars, runVars, HttpInv,
      ReturnedExited
<1>5. CASE RunnerStarted
  BY <1>5, AtRest
  DEF RunnerStarted, httpVars, runVars, registrationVars, runnerVars
<1>6. CASE StartFailed("server", "startServer")
  BY <1>6, AtRest
  DEF StartFailed, Trace, StopFrom, httpVars, runVars, registrationVars,
      runnerVars, HttpInv, ReturnedExited, HttpTypeOK
<1>7. CASE StartFailed("registration-runner", "startRunner")
  BY <1>7, AtRest
  DEF StartFailed, Trace, StopFrom, httpVars, runVars, registrationVars,
      runnerVars, RegistrationInv, RunnerReturned
<1> QED BY <1>1, <1>2, <1>3, <1>4, <1>5, <1>6, <1>7

\* The steps of the group when a member has ended, and while it stops them.
LEMMA StopKeepsInv ==
  ASSUME ProcessInv, Told => Told', NEW m \in Members,
         \/ MemberEnded(m) \/ SignalMember(m) \/ MemberStopped(m)
         \/ SignalWhileStopping
  PROVE  HttpInv' /\ RegistrationInv' /\ GroupInv'
<1>1. CASE SignalWhileStopping
  BY <1>1, AtRest, GroupAtRest
  DEF SignalWhileStopping, ProcessInv, httpVars, runVars, registrationVars,
      runnerVars
<1> USE DEF ProcessInv, GroupInv, Kinds, Phases, SignalledLast, EndedKnown,
            StopsForReason, EndsTrue, NoNilAssertion, Exited, ExitOf, Ends,
            Members, Running, signalVars, groupVars, httpVars, runVars,
            registrationVars, runnerVars
<1>2. CASE MemberEnded(m)
  <2>1. m = "server"
    BY <1>2 DEF MemberEnded, RegistrationInv, RunnerReturned
  <2>2. result = "error"
    BY <1>2, <2>1 DEF MemberEnded, HttpInv, ReturnedExited
  <2> QED BY <1>2, <2>1, <2>2, AtRest DEF MemberEnded, Trace
<1>3. CASE SignalMember(m)
  BY <1>3, AtRest DEF SignalMember, StoppingMember
<1>4. CASE MemberStopped(m)
  <2>1. CASE m = "server"
    BY <1>4, <2>1, AtRest DEF MemberStopped, StoppingMember, AfterStop, Trace
  <2>2. CASE m = "registration-runner"
    <3>1. group = "stopRunner" /\ group' = "stopServer"
      BY <1>4, <2>2 DEF MemberStopped, StoppingMember, AfterStop
    <3>2. UNCHANGED <<httpVars, registrationVars, main, signalVars>>
      BY <1>4 DEF MemberStopped
    <3>3. "registration-runner" \in ended' /\ runner = "exited"
      BY <1>4, <2>2
      DEF MemberStopped, Trace, RegistrationInv, RunnerReturned
    <3>4. CASE m \in ended
      <4>1. UNCHANGED <<ended, errOccurred>>
        BY <1>4, <3>4 DEF MemberStopped
      <4>2. Kinds' /\ EndedKnown' /\ StopsForReason' /\ EndsTrue'
        BY <3>1, <3>2, <3>3, <4>1
      <4>3. Phases' /\ SignalledLast'
        BY <3>1, <3>2, <3>3, <4>1
      <4> QED BY <3>2, <4>2, <4>3, AtRest
    <3>5. CASE m \notin ended
      <4>1. ended' = ended \cup {m}
            /\ errOccurred' = (errOccurred \/ runnerErr = "error")
        BY <1>4, <2>2, <3>5 DEF MemberStopped, Trace
      <4>2. runnerErr # "panic" /\ runnerErr # "none"
        BY <3>3 DEF RegistrationInv, RunnerReturned, Values, Err
      <4>3. Kinds' /\ EndedKnown' /\ (errOccurred => errOccurred')
        BY <2>2, <3>1, <3>2, <3>3, <4>1, <4>2
      <4> QED BY <3>1, <3>2, <3>3, <4>3, AtRest
    <3> QED BY <3>4, <3>5
  <2> QED BY <2>1, <2>2
<1> QED BY <1>1, <1>2, <1>3, <1>4

\* The steps of the members, and of consul.
LEMMA MembersKeepInv ==
  ASSUME ProcessInv, Told => Told',
         \/ MemberSignalled \/ Consul
         \/ ServerProgress(HttpStep) \/ RunnerProgress(RunnerStep)
  PROVE  HttpInv' /\ RegistrationInv' /\ GroupInv'
<1>1. CASE Consul
  BY <1>1, AtRest, ConsulKeepsInv, GroupAtRest
  DEF Consul, ConsulStep, Expire, Forget, Register, ProcessInv, httpVars,
      runVars, runnerVars, signalVars
<1> USE DEF ProcessInv, GroupInv, Kinds, Phases, SignalledLast, EndedKnown,
            StopsForReason, EndsTrue, NoNilAssertion, Exited, ExitOf, Ends,
            Members, Running, signalVars, groupVars
<1>2. CASE ServerProgress(HttpStep)
  <2>1. HttpInv' /\ RegistrationInv'
    BY <1>2, AtRest, HttpKeepsInv DEF ServerProgress, HttpNext
  <2>2. GroupInv'
    BY <1>2, HttpStepEffect
    DEF ServerProgress, HttpInv, HttpTypeOK, ReturnedExited,
        registrationVars, runnerVars, runVars
  <2> QED BY <2>1, <2>2
<1>3. CASE RunnerProgress(RunnerStep)
  BY <1>3, AtRest, RunnerKeepsInv
  DEF RunnerProgress, RunnerStep, Receiving, RetryTimerFires, NotRegistered,
      Registered, RegisteredAgain, Heartbeat, httpVars, runVars, runnerVars
<1>4. CASE MemberSignalled
  <2>1. CASE "server" \in signalled /\ ServerSignalled /\ UNCHANGED registrationVars
    BY <1>4, <2>1, AtRest, RunKeepsInv
    DEF MemberSignalled, ServerSignalled, registrationVars, runnerVars,
        HttpInv, ReturnedExited
  <2>2. CASE "registration-runner" \in signalled /\ RunnerSignalled /\ UNCHANGED httpVars
    BY <1>4, <2>2, AtRest, RunnerKeepsInv
    DEF MemberSignalled, RunnerSignalled, SignalledEarly, Deregister, Exit,
        httpVars, runVars, RegistrationInv, RunnerReturned
  <2> QED BY <1>4, <2>1, <2>2 DEF MemberSignalled
<1> QED BY <1>1, <1>2, <1>3, <1>4

\* Every step of the process keeps its invariant.
LEMMA ProcessKeepsInv ==
  ProcessInv /\ [ProcessNext]_processVars => ProcessInv'
<1> SUFFICES ASSUME ProcessInv, [ProcessNext]_processVars
             PROVE  ProcessInv'
  OBVIOUS
<1>1. Counters' /\ (Told => Told')
  BY CountersKept DEF ProcessInv
<1>2. CASE UNCHANGED processVars
  BY <1>1, <1>2, AtRest, GroupAtRest
  DEF ProcessInv, processVars, httpVars, runVars, registrationVars,
      runnerVars, signalVars
<1>3. CASE ProcessNext
  BY <1>1, <1>3, MainKeepsInv, StartKeepsInv, StopKeepsInv, MembersKeepInv
  DEF ProcessNext, GroupStep, ProcessInv, Members
<1> QED BY <1>2, <1>3

\* The invariant of the process holds throughout.
THEOREM ProcessInvariant == ProcessSpec => []ProcessInv
<1>1. ProcessInv /\ [ProcessNext]_processVars => ProcessInv'
  BY ProcessKeepsInv
<1> QED BY <1>1, InitProcessInv, PTL DEF ProcessSpec

-----------------------------------------------------------------------------

\* While the check passes the listener is open and the process runs, unless
\* the server or the deregistration failed, or the process died.
THEOREM AdvertisedIsServedAlways == ProcessSpec => []AdvertisedIsServed
<1>1. ProcessInv => AdvertisedIsServed
  <2> SUFFICES ASSUME ProcessInv, check = "passing", ~failed,
                      runnerErr # "error", main \notin {"panic", "killed"}
               PROVE  Running /\ ListenerOpen
    BY DEF AdvertisedIsServed
  <2> USE DEF ProcessInv, GroupInv
  <2>1. runner = "polling"
    BY DEF RegistrationInv, PassingSince, RunnerReturned, Values, Err,
           NotAdvertisedAfterExit
  <2>2. group \in {"startRunner", "wait", "stopRunner"}
    BY <2>1 DEF Kinds, Phases
  <2>3. server = "listening"
    BY <2>1, <2>2 DEF SignalledLast
  <2>4. main = "up" /\ result # "panic"
    BY <2>2, <2>3 DEF Kinds, Phases, Ends, HttpInv, ReturnedExited
  <2> QED BY <2>3, <2>4 DEF Running, ListenerOpen
<1> QED BY <1>1, ProcessInvariant, PTL

\* The group meets no member that ends its start without an error.
THEOREM NoNilAssertionAlways == ProcessSpec => []NoNilAssertion
<1>1. ProcessInv => NoNilAssertion
  BY DEF ProcessInv, GroupInv, EndsTrue
<1> QED BY <1>1, ProcessInvariant, PTL

\* The exit status is the truth about the members, the signals and the
\* requests under way.
THEOREM ExitStatusIsTrueAlways == ProcessSpec => []ExitStatusIsTrue
<1>1. ProcessInv => ExitStatusIsTrue
  <2> SUFFICES ASSUME ProcessInv
               PROVE  ExitStatusIsTrue
    OBVIOUS
  <2> USE DEF ProcessInv, GroupInv
  <2>1. ASSUME main = "exit 0"
        PROVE  /\ Told
               /\ \A m \in Members : ExitOf(m) # "error"
               /\ \A c \in Conns : conn[c] # "handling"
    <3>1. group = "done" /\ ~errOccurred /\ result = "nil"
      BY <2>1 DEF Phases, EndsTrue
    <3>2. runner = "off" \/ "registration-runner" \in ended
      BY <3>1 DEF Phases, EndedKnown
    <3>3. \A m \in Members : ExitOf(m) # "error"
      BY <3>1, <3>2
      DEF EndedKnown, Members, ExitOf, RegistrationInv, RunnerReturned
    <3> QED
      BY <3>1, <3>3 DEF StopsForReason, HttpInv, LateClosed
  <2>2. ASSUME main = "exit 1"
        PROVE  \E m \in Members : ExitOf(m) = "error"
    BY <2>2 DEF EndsTrue, EndedKnown, Kinds
  <2> QED BY <2>1, <2>2 DEF ExitStatusIsTrue, Told
<1> QED BY <1>1, ProcessInvariant, PTL

-----------------------------------------------------------------------------
(***************************************************************************)
(* The members in the process are the members alone.                       *)
(***************************************************************************)

\* A step of the process is for the server a step of its own, or none: the
\* group starts it once, and signals and crashes are all that stop it.
LEMMA StepOfServer ==
  ASSUME ProcessInv, ProcessNext
  PROVE  [HttpNext]_httpVars
<1>1. CASE Boot
  BY <1>1 DEF Boot, HttpNext, Start, ProcessInv, GroupInv, Phases, httpVars,
              connVars
<1>2. CASE MemberSignalled
  BY <1>2 DEF MemberSignalled, HttpNext
<1>3. CASE ServerProgress(HttpStep)
  BY <1>3 DEF ServerProgress, HttpNext
<1>4. CASE \/ ConnectKubernetes \/ Kill \/ ServerPanics \/ ExitProcess
           \/ Notify \/ Forward \/ MonitorReturns \/ SignalWhileStopping
           \/ RunnerProgress(RunnerStep) \/ Consul
  BY <1>4 DEF ConnectKubernetes, Kill, ServerPanics, ExitProcess, Notify,
              Forward, MonitorReturns, SignalWhileStopping, RunnerProgress,
              Consul
<1>5. CASE GroupStep
  BY <1>5 DEF GroupStep, GroupSignalled, StartSignalled, MemberEnded,
              SignalMember, MemberStopped, StartFailed, ServerStarted,
              RunnerStarted
<1> QED BY <1>1, <1>2, <1>3, <1>4, <1>5 DEF ProcessNext

\* So it is for the runner; consul's steps are steps of its environment.
LEMMA StepOfRunner ==
  ASSUME ProcessNext
  PROVE  [RegistrationNext]_registrationVars
<1>1. CASE ServerStarted
  BY <1>1 DEF ServerStarted, RegistrationNext
<1>2. CASE MemberSignalled
  BY <1>2 DEF MemberSignalled, RegistrationNext
<1>3. CASE RunnerProgress(RunnerStep) \/ Consul
  BY <1>3 DEF RunnerProgress, Consul, RegistrationNext
<1>4. CASE \/ ConnectKubernetes \/ Boot \/ Kill \/ ServerPanics
           \/ ExitProcess \/ Notify \/ Forward \/ MonitorReturns
           \/ SignalWhileStopping \/ ServerProgress(HttpStep)
  BY <1>4 DEF ConnectKubernetes, Boot, Kill, ServerPanics, ExitProcess,
              Notify, Forward, MonitorReturns, SignalWhileStopping,
              ServerProgress
<1>5. CASE GroupSignalled \/ RunnerStarted
  BY <1>5 DEF GroupSignalled, StartSignalled, RunnerStarted
<1>6. ASSUME NEW m \in Members, NEW state \in {"startServer", "startRunner"},
             \/ MemberEnded(m) \/ SignalMember(m) \/ MemberStopped(m)
             \/ StartFailed(m, state)
      PROVE  UNCHANGED registrationVars
  BY <1>6 DEF MemberEnded, SignalMember, MemberStopped, StartFailed
<1> QED
  BY <1>1, <1>2, <1>3, <1>4, <1>5, <1>6 DEF ProcessNext, GroupStep, Members

\* The process implements the server alone, and the runner alone: what is
\* proved of either under any start and any signal holds in it.
THEOREM ProcessImplementsMembers ==
  ProcessSpec => HttpSpec /\ RegistrationSpec
<1>1. ProcessInit => HttpInit /\ RegistrationInit
  BY DEF ProcessInit
<1>2. ProcessInv /\ [ProcessNext]_processVars =>
        [HttpNext]_httpVars /\ [RegistrationNext]_registrationVars
  BY StepOfServer, StepOfRunner DEF processVars
<1> QED
  BY <1>1, <1>2, ProcessInvariant, PTL
  DEF ProcessSpec, HttpSpec, RegistrationSpec

\* So a graceful stop of the process cuts no handler off, closes no connection
\* under one, waits for nobody that is gone, and consul is left with no check
\* that passes.
THEOREM ProcessStopsCleanly ==
  ProcessSpec => /\ []NoHandlerLeft
                 /\ []WaitIsReleased
                 /\ HandlersKeepConnection
                 /\ []OneAttempt
                 /\ []NotAdvertisedAfterExit
BY ProcessImplementsMembers, NoHandlerLeftAlways, WaitIsReleasedAlways,
   HandlersKeepConnectionAlways, OneAttemptAlways,
   NotAdvertisedAfterExitAlways

-----------------------------------------------------------------------------
(***************************************************************************)
(* A signal is not forgotten.                                              *)
(***************************************************************************)

\* A signal the monitor has taken is on its way, or the group stops, or has;
\* it stops no member it has not started.
SignalInv ==
  /\ main \in {"connect", "boot"} => ~Told
  /\ Told /\ main = "up" =>
       osSignals + toGroup > 0 \/ group \in {"stopRunner", "stopServer", "done"}
  /\ group # "off" => server # "off"
  /\ group \in {"startRunner", "wait", "stopRunner"} => runner # "off"

\* Members that were started stay so.
LEMMA StartedForGood ==
  ASSUME ProcessInv, ProcessNext
  PROVE  /\ server # "off" => server' # "off"
         /\ runner # "off" => runner' # "off"
<1>1. [HttpNext]_httpVars /\ [RegistrationNext]_registrationVars
  BY StepOfServer, StepOfRunner
<1>2. server # "off" => server' # "off"
  <2>1. CASE HttpStep
    BY <2>1, HttpStepEffect DEF ProcessInv, runVars
  <2>2. CASE Start \/ ServerSignalled \/ UNCHANGED httpVars
    BY <2>2 DEF Start, ServerSignalled, httpVars, runVars
  <2> QED BY <1>1, <2>1, <2>2 DEF HttpNext
<1>3. runner # "off" => runner' # "off"
  BY <1>1
  DEF RegistrationNext, StartRunner, RunnerStep, RunnerSignalled, ConsulStep,
      Receiving, RetryTimerFires, NotRegistered, Registered, RegisteredAgain,
      Heartbeat, SignalledEarly, Deregister, Exit, Expire, Forget, Register,
      registrationVars, runnerVars
<1> QED BY <1>2, <1>3

\* The steps of main, the monitor and the group keep it: a signal they take
\* is passed on, or ends what they do.
LEMMA SignalKept ==
  ASSUME ProcessInv, SignalInv, [ProcessNext]_processVars
  PROVE  SignalInv'
<1> USE DEF SignalInv, Told
<1>1. CASE UNCHANGED processVars
  BY <1>1 DEF processVars, httpVars, runVars, registrationVars, runnerVars,
              signalVars, groupVars
<1> SUFFICES ASSUME ProcessNext PROVE SignalInv'
  BY <1>1
<1> USE StartedForGood DEF ProcessInv, Counters, Running
<1>2. CASE ConnectKubernetes \/ Kill \/ ServerPanics \/ ExitProcess \/ MonitorReturns
  BY <1>2 DEF ConnectKubernetes, Kill, ServerPanics, ExitProcess,
              MonitorReturns, signalVars, groupVars, Ends
<1>3. CASE Boot
  BY <1>3 DEF Boot, signalVars, GroupInv, Phases, registrationVars, runnerVars
<1>4. CASE Notify \/ Forward
  BY <1>4 DEF Notify, Forward, groupVars
<1>5. CASE GroupSignalled
  BY <1>5 DEF GroupSignalled, StartSignalled, TakeSignal, StopFrom
<1>6. CASE SignalWhileStopping
  <2>1. group \in {"stopRunner", "stopServer"}
    BY <1>6 DEF SignalWhileStopping, StoppingMember
  <2> QED BY <1>6, <2>1 DEF SignalWhileStopping, groupVars
<1>7. CASE ServerStarted \/ RunnerStarted
  BY <1>7 DEF ServerStarted, RunnerStarted, StartRunner, signalVars
<1>8. ASSUME NEW m \in Members, MemberEnded(m) \/ MemberStopped(m)
      PROVE  SignalInv'
  BY <1>8 DEF MemberEnded, MemberStopped, StoppingMember, AfterStop,
              signalVars, Members
<1>9. ASSUME NEW m \in Members, SignalMember(m)
      PROVE  SignalInv'
  BY <1>9 DEF SignalMember, groupVars
<1>10. CASE StartFailed("server", "startServer")
            \/ StartFailed("registration-runner", "startRunner")
  BY <1>10 DEF StartFailed, StopFrom, groupVars, signalVars
<1>11. CASE MemberSignalled \/ Consul \/ ServerProgress(HttpStep)
            \/ RunnerProgress(RunnerStep)
  BY <1>11 DEF MemberSignalled, Consul, ServerProgress, RunnerProgress,
               signalVars, groupVars
<1> QED
  BY <1>2, <1>3, <1>4, <1>5, <1>6, <1>7, <1>8, <1>9, <1>10, <1>11
  DEF ProcessNext, GroupStep

\* A signal the monitor has taken is never forgotten, and the group waits for
\* no member that was not started, whatever else happens meanwhile.
THEOREM SignalTakesEffectAlways == ProcessSpec => []SignalTakesEffect
<1>1. ProcessInit => SignalInv
  BY DEF ProcessInit, SignalInv, Told
<1>2. ProcessInv /\ SignalInv /\ [ProcessNext]_processVars => SignalInv'
  BY SignalKept
<1>3. ProcessInv /\ SignalInv => SignalTakesEffect
  BY DEF SignalInv, SignalTakesEffect, Told, Running, ProcessInv, GroupInv,
         Kinds
<1> QED BY <1>1, <1>2, <1>3, ProcessInvariant, PTL DEF ProcessSpec

-----------------------------------------------------------------------------
(***************************************************************************)
(* The process keeps the promise of ProcessContract.                       *)
(***************************************************************************)

\* Where the process is to those outside, case by case.
LifeFacts ==
  /\ main \in {"panic", "killed"} => Life = "dead"
  /\ main \in {"exit 0", "exit 1"} => Life = main
  /\ main \notin Ends =>
       /\ server \in {"off", "starting"} => Life = "starting"
       /\ server \in {"listening", "stopping"} =>
            Life = IF failed THEN "broken" ELSE "serving"
       /\ server \in {"closed", "blocked", "woken", "exited"} =>
            Life = IF result = "nil" THEN "drained" ELSE "closed"

Busy == {c \in Conns : conn[c] = "handling"}
Advertised == check = "passing"
Failure == \E m \in Members : ExitOf(m) = "error"

outsideVars == <<Life, Advertised, Busy, Failure>>

\* The cases are those of the definition.
LEMMA LifeKnown ==
  /\ HttpInv => LifeFacts
  /\ HttpInv' => LifeFacts'
<1> USE DEF LifeFacts, Life, ServerLife, ListenerOpen, Ends, HttpInv, HttpTypeOK,
            ReturnedExited
<1>1. HttpInv => LifeFacts
  OBVIOUS
<1>2. HttpInv' => LifeFacts'
  OBVIOUS
<1> QED BY <1>1, <1>2

\* A step that changes none of it is one nobody outside sees.
LEMMA Unseen ==
  ASSUME UNCHANGED <<server, result, failed, conn, check, runnerErr>>,
         main' = main \/ (main \notin Ends /\ main' \notin Ends)
  PROVE  UNCHANGED outsideVars
<1>1. UNCHANGED ServerLife
  BY DEF ServerLife, ListenerOpen
<1>2. UNCHANGED Life
  BY <1>1 DEF Life, Ends
<1>3. UNCHANGED <<Advertised, Busy, Failure>>
  BY DEF Advertised, Busy, Failure, ExitOf
<1> QED BY <1>2, <1>3 DEF outsideVars

\* Inside the process, what the members are when the runner is at work, and
\* when the server closes its listener.
LEMMA MembersMeet ==
  ASSUME ProcessInv, main \notin Ends
  PROVE  /\ runner \in {"registering", "polling"} =>
              server = "listening" \/ result = "error"
         /\ server = "stopping" =>
              check # "passing" \/ runnerErr = "error"
<1> USE DEF ProcessInv, GroupInv
<1>1. ASSUME runner \in {"registering", "polling"}
      PROVE  server = "listening" \/ result = "error"
  <2>1. group \in {"startRunner", "wait", "stopRunner"}
    BY <1>1 DEF Kinds, Phases
  <2>2. "server" \notin signalled
    BY <2>1 DEF SignalledLast
  <2> QED BY <2>1, <2>2 DEF SignalledLast, Phases
<1>2. ASSUME server = "stopping"
      PROVE  check # "passing" \/ runnerErr = "error"
  <2>1. result = "none"
    BY <1>2 DEF HttpInv, ReturnedExited
  <2>2. "server" \in signalled
    BY <1>2, <2>1 DEF SignalledLast
  <2>3. runner \in {"off", "exited"}
    BY <2>2 DEF SignalledLast, Phases
  <2> QED BY <2>3 DEF RegistrationInv, PassingSince, RunnerReturned, Values,
                      Err, NotAdvertisedAfterExit
<1> QED BY <1>1, <1>2

\* The steps of main: the process dies only when it does not serve, and exits
\* with the status its members give it.
LEMMA MainKeepsPromise ==
  ASSUME ProcessInv, ProcessInv', ProcessNext,
         ConnectKubernetes \/ Boot \/ Kill \/ ServerPanics \/ ExitProcess
  PROVE  Promise!Next \/ UNCHANGED outsideVars
<1> USE DEF Promise!Next
<1>1. LifeFacts /\ LifeFacts'
  BY LifeKnown DEF ProcessInv
<1>2. ASSUME main' \in {"panic", "killed"},
             Life \in {"starting", "closed", "drained"},
             UNCHANGED <<conn, check, result, runnerErr>>
      PROVE  Promise!Die
  BY <1>1, <1>2 DEF Promise!Die, LifeFacts, ExitOf
<1>3. main \in {"connect", "boot"} => server = "off" /\ Life = "starting"
  BY <1>1 DEF ProcessInv, GroupInv, Phases, LifeFacts, Ends
<1>4. main = "returning" =>
        /\ server = "exited" /\ result \in {"nil", "error"}
        /\ Life = IF result = "nil" THEN "drained" ELSE "closed"
  BY <1>1
  DEF ProcessInv, GroupInv, Phases, EndedKnown, Exited, ExitOf, HttpInv,
      HttpTypeOK, ReturnedExited, LifeFacts, Ends
<1>5. CASE ConnectKubernetes
  BY <1>2, <1>3, <1>5, Unseen
  DEF ConnectKubernetes, httpVars, connVars, runVars, registrationVars,
      runnerVars, consulVars, Ends
<1>6. CASE Boot
  <2>1. CASE main' = "panic"
    BY <1>2, <1>3, <1>6, <2>1 DEF Boot, connVars, registrationVars, runnerVars,
                                  consulVars
  <2>2. CASE main' = "up"
    <3>1. Life = "starting" /\ Life' = "starting"
      BY <1>1, <1>3, <1>6, <2>2 DEF Boot, LifeFacts, Ends
    <3> QED BY <1>6, <2>2, <3>1
            DEF Boot, outsideVars, Advertised, Busy, Failure, ExitOf, connVars,
                registrationVars, runnerVars, consulVars
  <2> QED BY <1>6, <2>1, <2>2 DEF Boot
<1>7. CASE Kill
  BY <1>2, <1>3, <1>4, <1>7
  DEF Kill, httpVars, connVars, runVars, registrationVars, runnerVars,
      consulVars
<1>8. CASE ServerPanics
  <2>1. Life = "closed"
    BY <1>1, <1>8
    DEF ServerPanics, ProcessInv, HttpInv, ReturnedExited, LifeFacts, Ends
  <2> QED BY <1>2, <1>8, <2>1
          DEF ServerPanics, httpVars, connVars, runVars, registrationVars,
              runnerVars, consulVars
<1>9. CASE ExitProcess
  <2>1. UNCHANGED <<conn, check, result, runnerErr, runner, ended>>
    BY <1>9 DEF ExitProcess, httpVars, connVars, runVars, registrationVars,
                runnerVars, consulVars, groupVars
  <2>2. CASE errOccurred
    <3>1. Failure
      BY <2>2 DEF ProcessInv, GroupInv, EndedKnown, Kinds, Failure
    <3>2. Life' = "exit 1"
      BY <1>1, <1>9, <2>2 DEF ExitProcess, LifeFacts
    <3> QED BY <1>4, <1>9, <2>1, <3>1, <3>2
            DEF ExitProcess, Promise!ExitFailed, Failure, ExitOf
  <2>3. CASE ~errOccurred
    <3>1. main' = "exit 0" /\ Life' = "exit 0"
      BY <1>1, <1>9, <2>3 DEF ExitProcess, LifeFacts
    <3>2. group' = "done" /\ ~errOccurred' /\ result' = "nil"
      BY <3>1 DEF ProcessInv, GroupInv, Phases, EndsTrue
    <3>3. runner' = "off" \/ "registration-runner" \in ended'
      BY <3>2 DEF ProcessInv, GroupInv, Phases, EndedKnown
    <3>4. ~Failure'
      BY <3>2, <3>3 DEF ProcessInv, GroupInv, EndedKnown, Members, ExitOf,
                        RegistrationInv, RunnerReturned, Failure
    <3> QED BY <1>4, <1>9, <2>1, <3>1, <3>2, <3>4
            DEF ExitProcess, Promise!ExitWell, Failure, ExitOf
  <2> QED BY <2>2, <2>3
<1> QED BY <1>5, <1>6, <1>7, <1>8, <1>9

\* The steps of the monitor and of the group are not seen outside.
LEMMA GroupKeepsPromise ==
  ASSUME ProcessInv, ProcessInv',
         Notify \/ Forward \/ MonitorReturns \/ GroupStep \/ SignalWhileStopping
  PROVE  UNCHANGED outsideVars
<1> USE DEF httpVars, connVars, runVars, registrationVars, runnerVars, consulVars
<1>1. CASE Notify \/ Forward \/ MonitorReturns \/ SignalWhileStopping
  BY <1>1, Unseen DEF Notify, Forward, MonitorReturns, SignalWhileStopping,
                      Running, Ends
<1>2. CASE GroupSignalled \/ ServerStarted \/ RunnerStarted
  BY <1>2, Unseen
  DEF GroupSignalled, StartSignalled, ServerStarted, StartRunner,
      RunnerStarted
<1>3. ASSUME NEW m \in Members,
             MemberEnded(m) \/ SignalMember(m) \/ MemberStopped(m)
      PROVE  UNCHANGED outsideVars
  BY <1>3, Unseen DEF MemberEnded, SignalMember, MemberStopped
<1>4. ASSUME NEW m \in Members, NEW state \in {"startServer", "startRunner"},
             StartFailed(m, state)
      PROVE  UNCHANGED outsideVars
  <2>1. main' = main
    BY <1>4 DEF StartFailed, groupVars, ProcessInv, GroupInv, EndsTrue,
                NoNilAssertion, Running
  <2> QED BY <1>4, <2>1, Unseen DEF StartFailed
<1> QED BY <1>1, <1>2, <1>3, <1>4 DEF GroupStep, Members

\* Consul's own steps, and those of the runner: it is advertised only while
\* the server listens, or after it failed.
LEMMA RunnerKeepsPromise ==
  ASSUME ProcessInv, ProcessInv',
         \/ Consul \/ RunnerProgress(RunnerStep)
         \/ Running /\ RunnerSignalled /\ UNCHANGED <<httpVars, main>>
  PROVE  Promise!Next \/ UNCHANGED outsideVars
<1> USE DEF Promise!Next
<1>1. LifeFacts /\ LifeFacts'
  BY LifeKnown DEF ProcessInv
<1>2. UNCHANGED <<main, server, result, failed, conn>>
  BY DEF Consul, RunnerProgress, httpVars, connVars, runVars
<1>3. UNCHANGED <<Life, Busy>>
  BY <1>2 DEF Life, ServerLife, ListenerOpen, Busy
<1>4. ASSUME UNCHANGED runnerErr, ~Advertised'
      PROVE  Promise!Withdraw
  BY <1>2, <1>3, <1>4 DEF Promise!Withdraw, Advertised, Busy, ExitOf
<1>5. ASSUME runner \in {"registering", "polling"}, Running
      PROVE  \/ Life \in {"serving", "broken"}
             \/ Life = "closed" /\ Failure
  <2>1. server = "listening" \/ result = "error"
    BY <1>5, MembersMeet DEF Running, Ends
  <2>2. CASE server = "listening"
    BY <1>1, <1>5, <2>2 DEF LifeFacts, Running, Ends
  <2>3. CASE result = "error"
    BY <1>1, <1>5, <2>3
    DEF LifeFacts, Running, Ends, ProcessInv, HttpInv, ReturnedExited,
        Failure, Members, ExitOf
  <2> QED BY <2>1, <2>2, <2>3
<1>6. ASSUME UNCHANGED runnerErr, Advertised' = Advertised
      PROVE  UNCHANGED outsideVars
  BY <1>2, <1>3, <1>6 DEF outsideVars, Failure, ExitOf
<1>7. CASE Consul
  <2>1. UNCHANGED runnerErr /\ (check' = check \/ check' = "critical")
    BY <1>7 DEF Consul, ConsulStep, Expire, Forget, Register, ServiceRegister,
                Unaffected, runnerVars
  <2> QED BY <1>4, <1>6, <2>1 DEF Advertised
<1>8. CASE RunnerProgress(RunnerStep)
  <2>1. /\ UNCHANGED runnerErr
        /\ check' = check \/ check' = "passing"
        /\ runner \in {"registering", "polling"}
        /\ Running
    BY <1>8
    DEF RunnerProgress, RunnerStep, RetryTimerFires, Receiving, NotRegistered,
        Registered, RegisteredAgain, Heartbeat, PassTTL, Unaffected,
        runnerVars, consulVars
  <2>2. CASE check' = "passing"
    BY <1>2, <1>3, <1>5, <2>1, <2>2
    DEF Promise!Advertise, Advertised, Busy, Failure, ExitOf
  <2> QED BY <1>6, <2>1, <2>2 DEF Advertised
<1>9. CASE Running /\ RunnerSignalled
  <2>1. CASE SignalledEarly
    BY <1>2, <1>3, <2>1
    DEF SignalledEarly, Exit, consulVars, outsideVars, Advertised, Failure,
        ExitOf, ProcessInv, RegistrationInv, RunnerReturned
  <2>2. CASE Deregister
    <3>1. PICK err \in Err : ServiceDeregister(err) /\ Exit(err)
      BY <2>2 DEF Deregister
    <3>2. check' = check \/ check' = "critical"
      BY <3>1 DEF ServiceDeregister, Unaffected
    <3>3. runnerErr = "none" /\ runner = "polling" /\ runnerErr' = err
      BY <2>2, <3>1
      DEF Deregister, Exit, ProcessInv, RegistrationInv, RunnerReturned
    <3>4. CASE err = "nil"
      <4>1. Failure' <=> Failure
        BY <1>2, <3>3, <3>4 DEF Failure, Members, ExitOf
      <4> QED BY <1>2, <1>3, <3>2, <4>1
              DEF Promise!Withdraw, outsideVars, Advertised, Busy, Failure
    <3>5. CASE err = "error"
      <4>1. Failure'
        BY <3>3, <3>5 DEF Failure, Members, ExitOf
      <4>2. CASE Failure
        BY <1>2, <1>3, <3>2, <4>1, <4>2
        DEF Promise!Withdraw, outsideVars, Advertised, Busy, Failure
      <4>3. CASE ~Failure
        <5>1. Life \in {"serving", "broken"}
          BY <1>5, <1>9, <3>3, <4>3
        <5> QED BY <1>2, <1>3, <3>2, <4>1, <5>1
                DEF Promise!Fail, Advertised, Busy, Failure
      <4> QED BY <4>2, <4>3
    <3> QED BY <3>4, <3>5 DEF Err
  <2> QED BY <1>9, <2>1, <2>2 DEF RunnerSignalled
<1> QED BY <1>7, <1>8, <1>9

\* What a goroutine of net/http does to the requests under way.
LEMMA RequestsBeginAndEnd ==
  ASSUME HttpInv, NEW c \in Conns,
         ConnStep(c) \/ HandlerReturns(c) \/ ClientStep(c)
  PROVE  \/ Busy' = Busy
         \/ Busy' = Busy \cup {c} /\ conn[c] = "read" /\ UNCHANGED runVars
         \/ Busy' = Busy \ {c} /\ UNCHANGED runVars
<1> USE DEF HttpInv, HttpTypeOK, Busy, ConnGoto
<1>1. CASE StateActive(c)
  BY <1>1 DEF StateActive
<1>2. CASE HandlerReturns(c)
  BY <1>2 DEF HandlerReturns
<1>3. CASE \/ Connect(c) \/ Accept(c) \/ ReadRequest(c) \/ ReadFails(c)
           \/ StateNew(c) \/ addInactiveConnection(c) \/ StateClosed(c)
  BY <1>3
  DEF Connect, Accept, ReadRequest, ReadFails, StateNew,
      addInactiveConnection, CheckStopping, Insert, StateClosed
<1> QED BY <1>1, <1>2, <1>3 DEF ConnStep, ClientStep

\* The steps of the server: it closes its listener when clients are led away,
\* and is drained when the last request has ended.
LEMMA ServerKeepsPromise ==
  ASSUME ProcessInv, ProcessInv', Running, HttpStep \/ ServerSignalled,
         UNCHANGED <<registrationVars, main>>
  PROVE  Promise!Next \/ UNCHANGED outsideVars
<1> USE DEF Promise!Next, Running
<1>1. LifeFacts /\ LifeFacts'
  BY LifeKnown DEF ProcessInv
<1>2. main \notin Ends /\ UNCHANGED <<main, check, runnerErr, Advertised>>
  BY DEF Ends, registrationVars, runnerVars, consulVars, Advertised
<1>3. ASSUME NEW c \in Conns, ConnStep(c) \/ HandlerReturns(c) \/ ClientStep(c)
      PROVE  Promise!Next \/ UNCHANGED outsideVars
  <2>1. UNCHANGED <<result, failed>>
        /\ (server' = server \/ (server = "blocked" /\ server' = "woken"))
    BY <1>3
    DEF ConnStep, ClientStep, Connect, Accept, ReadRequest, ReadFails,
        HandlerReturns, StateNew, addInactiveConnection, CheckStopping,
        Insert, StateActive, StateClosed, runVars
  <2>2. UNCHANGED <<Life, Failure>>
    BY <1>1, <1>2, <2>1
    DEF LifeFacts, Failure, ExitOf, ProcessInv, HttpInv, HttpTypeOK
  <2>3. CASE Busy' = Busy
    BY <1>2, <2>2, <2>3 DEF outsideVars
  <2>4. CASE Busy' = Busy \cup {c} /\ conn[c] = "read"
    <3>1. Life \in {"serving", "broken", "closed"}
      BY <1>1, <1>2, <2>4
      DEF LifeFacts, ProcessInv, HttpInv, HttpTypeOK, NothingYet, LateClosed
    <3> QED BY <1>2, <2>2, <2>4, <3>1
            DEF Promise!Begin, Busy, Advertised, Failure
  <2>5. CASE Busy' = Busy \ {c}
    <3>1. Life \notin Promise!Ended
      BY <1>1, <1>2 DEF LifeFacts, ProcessInv, HttpInv, HttpTypeOK,
                        Promise!Ended
    <3> QED BY <1>2, <2>2, <2>5, <3>1
            DEF Promise!Finish, Busy, Advertised, Failure
  <2> QED BY <1>3, <2>3, <2>4, <2>5, RequestsBeginAndEnd DEF ProcessInv
<1>4. ASSUME UNCHANGED conn
      PROVE  UNCHANGED Busy
  BY <1>4 DEF Busy
<1>5. ASSUME result' # "error", result # "error"
      PROVE  UNCHANGED Failure
  BY <1>2, <1>5 DEF Failure, Members, ExitOf
<1>6. ASSUME server # "exited"
      PROVE  result = "none"
  BY <1>6 DEF ProcessInv, HttpInv, ReturnedExited
<1>7. ASSUME result' = "error" PROVE Failure'
  BY <1>7 DEF Failure, Members, ExitOf
<1> USE DEF connVars
<1>8. CASE Listen
  <2>1. Life = "starting" /\ ~failed /\ UNCHANGED Busy /\ result = "none"
    BY <1>1, <1>2, <1>4, <1>6, <1>8
    DEF Listen, LifeFacts, ProcessInv, HttpInv, NothingYet
  <2>2. CASE server' = "listening"
    <3>1. Life' = "serving" /\ UNCHANGED Failure
      BY <1>1, <1>2, <1>5, <1>8, <2>1, <2>2 DEF Listen, LifeFacts, Return
    <3> QED BY <1>2, <2>1, <3>1 DEF Promise!Open, Busy, Advertised, Failure
  <2>3. CASE Return("error")
    <3>1. Life' = "closed" /\ Failure'
      BY <1>1, <1>2, <1>7, <1>8, <2>3 DEF LifeFacts, Return
    <3> QED BY <1>2, <2>1, <3>1 DEF Promise!Fail, Busy, Advertised, Failure
  <2> QED BY <1>8, <2>2, <2>3 DEF Listen
<1>9. CASE ServeReturned
  <2>1. Life = "broken" /\ UNCHANGED Busy
    BY <1>1, <1>2, <1>4, <1>9 DEF ServeReturned, LifeFacts
  <2>2. Life' = "closed" /\ Failure'
    BY <1>1, <1>2, <1>7, <1>9 DEF ServeReturned, LifeFacts, Return
  <2> QED BY <1>2, <2>1, <2>2 DEF Promise!Fail, Busy, Advertised, Failure
<1>10. CASE ServeFails
  <2>1. Life = "serving" /\ Life' = "broken" /\ UNCHANGED Busy
    BY <1>1, <1>2, <1>4, <1>10 DEF ServeFails, LifeFacts
  <2>2. UNCHANGED Failure
    BY <1>2, <1>10 DEF ServeFails, Failure, ExitOf
  <2> QED BY <1>2, <2>1, <2>2 DEF Promise!Break, Busy, Advertised, Failure
<1>11. CASE ServerSignalled
  <2>1. UNCHANGED Life /\ UNCHANGED Busy
    BY <1>1, <1>2, <1>4, <1>11 DEF ServerSignalled, LifeFacts
  <2>2. UNCHANGED Failure
    BY <1>2, <1>11 DEF ServerSignalled, Failure, ExitOf
  <2> QED BY <1>2, <2>1, <2>2 DEF outsideVars
<1>12. CASE CloseListener
  <2>1. Life = (IF failed THEN "broken" ELSE "serving") /\ Life' = "closed"
        /\ UNCHANGED Busy
    BY <1>1, <1>2, <1>4, <1>6, <1>12 DEF CloseListener, LifeFacts
  <2>2. UNCHANGED Failure
    BY <1>2, <1>12 DEF CloseListener, Failure, ExitOf
  <2>3. Advertised => Failure
    BY <1>2, <1>12, MembersMeet
    DEF CloseListener, Advertised, Failure, Members, ExitOf
  <2> QED BY <1>2, <2>1, <2>2, <2>3
          DEF Promise!Close, Busy, Advertised, Failure
<1>13. CASE CloseInactive \/ WaitReturns
  <2>1. Life = "closed" /\ UNCHANGED Busy /\ result = "none"
    BY <1>1, <1>2, <1>4, <1>6, <1>13
    DEF CloseInactive, WaitReturns, LifeFacts
  <2>2. UNCHANGED Failure
    BY <1>5, <1>13, <2>1 DEF CloseInactive, WaitReturns, Return
  <2>3. CASE result' = "nil"
    <3>1. Life' = "drained"
      BY <1>1, <1>2, <1>13, <2>1, <2>3
      DEF CloseInactive, WaitReturns, Return, LifeFacts
    <3>2. Busy = {}
      BY <2>1, <2>3 DEF ProcessInv, HttpInv, LateClosed, Busy
    <3> QED BY <1>2, <2>1, <2>2, <3>1, <3>2
            DEF Promise!Drain, Busy, Advertised, Failure
  <2>4. CASE result' # "nil"
    <3>1. Life' = "closed"
      BY <1>1, <1>2, <1>13, <2>1, <2>4
      DEF CloseInactive, WaitReturns, Return, LifeFacts
    <3> QED BY <1>2, <2>1, <2>2, <3>1 DEF outsideVars
  <2> QED BY <2>3, <2>4
<1> QED
  BY <1>3, <1>8, <1>9, <1>10, <1>11, <1>12, <1>13 DEF HttpStep, RunStep

\* Every step of the process is one of the contract, or is not seen outside.
LEMMA StepKeepsPromise ==
  ASSUME ProcessInv, [ProcessNext]_processVars
  PROVE  [Promise!Next]_(Promise!contractVars)
<1>1. ProcessInv'
  BY ProcessKeepsInv
<1>2. UNCHANGED outsideVars => UNCHANGED Promise!contractVars
  BY DEF outsideVars, Promise!contractVars, Advertised, Busy, Failure
<1>3. CASE UNCHANGED processVars
  BY <1>2, <1>3, Unseen
  DEF processVars, httpVars, connVars, runVars, registrationVars, runnerVars,
      consulVars
<1>4. CASE MemberSignalled
  BY <1>1, <1>2, <1>4, ServerKeepsPromise, RunnerKeepsPromise
  DEF MemberSignalled
<1>5. CASE ServerProgress(HttpStep)
  BY <1>1, <1>2, <1>5, ServerKeepsPromise DEF ServerProgress
<1>6. CASE Consul \/ RunnerProgress(RunnerStep)
  BY <1>1, <1>2, <1>6, RunnerKeepsPromise
<1>7. CASE ConnectKubernetes \/ Boot \/ Kill \/ ServerPanics \/ ExitProcess
  BY <1>1, <1>2, <1>7, MainKeepsPromise DEF ProcessNext
<1>8. CASE \/ Notify \/ Forward \/ MonitorReturns \/ GroupStep
           \/ SignalWhileStopping
  BY <1>1, <1>2, <1>8, GroupKeepsPromise
<1> QED BY <1>3, <1>4, <1>5, <1>6, <1>7, <1>8 DEF ProcessNext

\* The process implements its contract, whatever fails, whenever it is
\* signalled, and however many connections are open: clients are led to it
\* only while it serves, or after a failure it reports, and it ends well only
\* when their requests have.
THEOREM ProcessImplementsContract == ProcessSpec => ImplementsProcessContract
<1>1. ProcessInit => Promise!Init
  <2> SUFFICES ASSUME ProcessInit PROVE Promise!Init
    OBVIOUS
  <2>1. Life = "starting"
    BY LifeKnown, InitProcessInv
    DEF ProcessInv, ProcessInit, HttpInit, LifeFacts, Ends
  <2> QED BY <2>1 DEF ProcessInit, HttpInit, RegistrationInit, Members, ExitOf,
                      Promise!Init
<1>2. ProcessInv /\ [ProcessNext]_processVars =>
        [Promise!Next]_(Promise!contractVars)
  BY StepKeepsPromise
<1> QED
  BY <1>1, <1>2, ProcessInvariant, PTL
  DEF ProcessSpec, ImplementsProcessContract, Promise!Spec

=============================================================================
