------------------------- MODULE RegistrationRunner -------------------------
(***************************************************************************)
(* locket.NewRegistrationRunner: the member of the process group that      *)
(* keeps the stager registered with the consul agent.                      *)
(*                                                                         *)
(* The service has one TTL check, which consul turns critical when it is   *)
(* not passed for three seconds; who asks consul for the stager gets it    *)
(* while the check is passing.  Service registrations run in goroutines of *)
(* their own: "calls" counts those consul has not answered, "answers" the  *)
(* ones that are in, or blocked at, errChan.                               *)
(***************************************************************************)
EXTENDS Naturals

CONSTANTS
  MaxFaults,  \* calls to the agent that fail, and losses of its state
  MaxCalls    \* registrations under way at once

ASSUME RunnerAssumption == MaxFaults \in Nat /\ MaxCalls \in Nat \ {0}

VARIABLES
  runner,      \* where Run is
  runnerErr,   \* what it returned, "none" before
  ready,       \* its ready channel is closed
  retryTimer,  \* the retry timer runs
  calls,       \* registrations under way
  answers,     \* [{"nil", "error"} -> Nat], results nobody has received
  registered,  \* the agent has the service
  check,       \* its check: "critical"; "passing", since this runner passed
               \* it; "left", passing since an earlier process did
  faults       \* faults so far

runnerVars == <<runner, runnerErr, ready, retryTimer>>
callVars == <<calls, answers>>
consulVars == <<registered, check, faults>>
registrationVars == <<runnerVars, callVars, consulVars>>

Err == {"nil", "error"}

RegistrationInit ==
  /\ runner = "off"
  /\ runnerErr = "none"
  /\ ready = FALSE
  /\ retryTimer = FALSE
  /\ calls = 0
  /\ answers = [e \in Err |-> 0]
  /\ registered \in BOOLEAN
  /\ check \in IF registered THEN {"critical", "left"} ELSE {"critical"}
  /\ faults = 0

-----------------------------------------------------------------------------
(***************************************************************************)
(* The consul agent.                                                       *)
(***************************************************************************)

Fault == faults < MaxFaults /\ faults' = faults + 1

\* A call fails before or after it took effect.
Fails(err) == err = "error" /\ Fault

TakesEffect(err) == (err = "nil" /\ UNCHANGED faults) \/ Fails(err)

Unaffected == UNCHANGED <<registered, check>>

\* Registering again makes the check critical, unless its state is kept.
ServiceRegister(err) ==
  \/ /\ registered' = TRUE
     /\ check' \in {check, "critical"}
     /\ TakesEffect(err)
  \/ Fails(err) /\ Unaffected

PassTTL(err) ==
  \/ /\ registered
     /\ check' = "passing"
     /\ TakesEffect(err)
     /\ UNCHANGED registered
  \/ Fails(err) /\ Unaffected
  \/ ~registered /\ err = "error" /\ UNCHANGED faults /\ Unaffected

ServiceDeregister(err) ==
  \/ /\ registered' = FALSE
     /\ check' = "critical"
     /\ TakesEffect(err)
  \/ Fails(err) /\ Unaffected

\* Three seconds without PassTTL.
Expire ==
  /\ check # "critical"
  /\ check' = "critical"
  /\ UNCHANGED <<runnerVars, callVars, registered, faults>>

\* The agent comes back without the service.
Forget ==
  /\ Fault
  /\ registered
  /\ registered' = FALSE
  /\ check' = "critical"
  /\ UNCHANGED <<runnerVars, callVars>>

\* A registration reaches the agent, at any time, even after Run returned.
Register ==
  /\ calls > 0
  /\ calls' = calls - 1
  /\ \E err \in Err :
       /\ ServiceRegister(err)
       /\ answers' = [answers EXCEPT ![err] = @ + 1]
  /\ UNCHANGED runnerVars

ConsulStep == Expire \/ Forget \/ Register

-----------------------------------------------------------------------------
(***************************************************************************)
(* Run, until the service is registered.                                   *)
(***************************************************************************)

Exit(err) == runner' = "exited" /\ runnerErr' = err

\* The registration has one TTL check and a duration that parses: the
\* validation at the start of Run succeeds.
StartRunner ==
  /\ runner = "off"
  /\ runner' = "registering"
  /\ retryTimer' = TRUE
  /\ UNCHANGED <<runnerErr, ready, callVars, consulVars>>

GoRegister == calls' = calls + 1

RetryTimerFires ==
  /\ runner = "registering"
  /\ retryTimer
  /\ retryTimer' = FALSE
  /\ GoRegister
  /\ UNCHANGED <<runner, runnerErr, ready, answers, consulVars>>

Receive(err) ==
  /\ answers[err] > 0
  /\ answers' = [answers EXCEPT ![err] = @ - 1]

\* Mutant: a registration that failed is not tried again.
NotRegisteredGiveUp ==
  /\ runner = "registering"
  /\ Receive("error")
  /\ UNCHANGED <<runnerVars, calls, consulVars>>

NotRegistered ==
  /\ runner = "registering"
  /\ Receive("error")
  /\ retryTimer' = TRUE
  /\ UNCHANGED <<runner, runnerErr, ready, calls, consulVars>>

\* The check is passed for the first time, with whatever result, and ready
\* is closed.
Registered ==
  /\ runner = "registering"
  /\ Receive("nil")
  /\ \E err \in Err : PassTTL(err)
  /\ runner' = "polling"
  /\ ready' = TRUE
  /\ retryTimer' = FALSE
  /\ UNCHANGED <<runnerErr, calls>>

\* A registration that is under way is left to itself.
SignalledEarly ==
  /\ runner = "registering"
  /\ Exit("nil")
  /\ UNCHANGED <<ready, retryTimer, callVars, consulVars>>

-----------------------------------------------------------------------------
(***************************************************************************)
(* pollUntilSignaled.                                                      *)
(***************************************************************************)

\* Mutant: a check that cannot be passed is only logged.
HeartbeatOnly ==
  /\ runner = "polling"
  /\ \E err \in Err : PassTTL(err)
  /\ UNCHANGED <<runnerVars, callVars>>

\* Every 1.5 seconds.
Heartbeat ==
  /\ runner = "polling"
  /\ \E err \in Err :
       /\ PassTTL(err)
       /\ \/ err = "nil" /\ UNCHANGED calls
          \/ err = "error" /\ calls < MaxCalls /\ GoRegister
  /\ UNCHANGED <<runnerVars, answers>>

RegisteredAgain ==
  /\ runner = "polling"
  /\ \E err \in Err : Receive(err)
  /\ UNCHANGED <<runnerVars, calls, consulVars>>

\* Mutant: the runner leaves the check to expire.
DeregisterNot ==
  /\ runner = "polling"
  /\ Exit("nil")
  /\ UNCHANGED <<ready, retryTimer, callVars, consulVars>>

Deregister ==
  /\ runner = "polling"
  /\ \E err \in Err : ServiceDeregister(err) /\ Exit(err)
  /\ UNCHANGED <<ready, retryTimer, callVars>>

Receiving == NotRegistered \/ Registered \/ RegisteredAgain

RunnerStep == RetryTimerFires \/ Receiving \/ Heartbeat

RunnerSignalled == SignalledEarly \/ Deregister

-----------------------------------------------------------------------------
(***************************************************************************)
(* The runner alone: it is started, and signalled at any moment.           *)
(***************************************************************************)

RegistrationNext ==
  \/ StartRunner
  \/ RunnerStep
  \/ RunnerSignalled
  \/ ConsulStep

RegistrationSpec == RegistrationInit /\ [][RegistrationNext]_registrationVars

\* The type, in two parts: flags, and the rest.
Flags ==
  /\ ready \in BOOLEAN
  /\ retryTimer \in BOOLEAN
  /\ registered \in BOOLEAN

Values ==
  /\ runner \in {"off", "registering", "polling", "exited"}
  /\ runnerErr \in Err \cup {"none"}
  /\ calls \in Nat
  /\ answers \in [Err -> Nat]
  /\ check \in {"critical", "passing", "left"}
  /\ faults \in Nat

RegistrationTypeOK == Flags /\ Values

\* Until the service is registered there is one attempt, and never two, nor
\* none: it waits for the retry timer, is under way, or has an answer that
\* waits for Run (the retry timer is reset by an answer only).
OneAttempt ==
  runner = "registering" =>
    calls + answers["nil"] + answers["error"] = IF retryTimer THEN 0 ELSE 1

\* A clean exit is told to consul: once Run has returned nil, nobody is led
\* to this stager by a check it passed, although a registration that was
\* under way may still land (the signal cases of Run and
\* pollUntilSignaled, against the goroutines they leave behind).
NotAdvertisedAfterExit == runnerErr = "nil" => check # "passing"

=============================================================================
