# A TLA+ model of the Kubernetes stager

`k8s-stager` stages Cloud Foundry apps on Kubernetes. Cloud Controller asks it
to stage an app; it creates a Kubernetes job whose pod downloads, builds and
uploads the app; the pod calls the stager back; the stager tells Cloud
Controller and deletes the job. These modules model that program, check it with
TLC on small instances, and prove what matters most for instances of any size.

## The system

| Part | Code | State it keeps | Operations |
|---|---|---|---|
| API handlers | `lib/swagger/configure_k8s_swagger.go` | none but the configured space; a docker stage leaves a goroutine behind | Stage, StagingComplete, StopStaging |
| Kubernetes client | `lib/k8s/client.go` | none; namespaces and jobs live at the API server | six methods of `K8SStagingClient`, one API call each |
| Cloud Controller client | `vendor/.../cc_client/cc_client.go` | none | StagingComplete, five second timeout |
| Staging script | `docker-image/stager` | the progress of one pod | download, build, upload, post the completion |
| Request binding | `lib/swagger/operations`, `lib/model` | the table of routes | route, check the content type, decode, validate, refuse or hand over |
| Configuration | `cmd/run.go`, `cmd/root.go`, `lib/server_config.go` | `ServerConfig` | read flags, environment, file and defaults |
| HTTP server | `vendor/.../ifrit/http_server` | its listener, the connections it counts, the inactive ones | listen, serve, stop gracefully |
| Registration | `vendor/.../locket/registration_runner.go` | timers, calls to consul under way | register, heartbeat, register again, deregister |
| Process group | `cmd/run.go`, `vendor/.../ifrit` (`sigmon`, `grouper`, `process.go`) | members, signals on their way, the error trace | boot, start in order, stop in reverse, exit |
| Logger, other commands, API description | `lib/logger`, `cmd`, `embedded_spec.go` | none | output |

The parts of a staging interact by calls only. Cloud Controller calls the
handlers over HTTP; handlers call Kubernetes and Cloud Controller; the script's
only link with the stager is the environment of its job (`CF_TASK_ID`,
`CF_SPACE`, `CF_COMPLETION_CALLBACK_URL`), and its only message the completion it
posts. The process is goroutines and channels: the monitor forwards signals to
the group, the group signals its members and waits for their channels,
`net/http` calls back into the server for every change of a connection, and
registrations run in goroutines that answer on a channel.

What is hard about it:

* Handlers of the same staging run at once, and between any two of their calls
  anything may have happened: the namespace was created, the job finished, was
  stopped, or was staged again.
* Every call can fail after it took effect. A 500 for a stage does not mean that
  no job runs; a 503 for a completion does not mean that Cloud Controller did
  not hear of it.
* The process remembers nothing. What a crash interrupts is continued by nobody,
  and the docker goroutine is lost.
* The k8s-namespace may differ after a restart, while jobs carry the old one.
* Pods are replaced when they are lost, and run on when their job is deleted.
* The script calls back once, and ignores the answer.
* A signal may come while a member starts, while one stops, or while another
  signal is handled; a member may end at the same moments.
* A registration may be under way when the process ends, and land after it.
* Connections change state while the server sweeps them away and waits for them.
* A setting has four sources, and the file is chosen by two calls of which the
  second undoes the first.

What makes each part correct: the client finds, by the identifiers it wrote into
a job, that job and no other; the handlers give up no job that was neither
completed nor cancelled, and answer the truth; the script reports no success that
did not happen; and the whole reports every accepted staging and leaves no job
behind when nothing but pods fails. A handler runs for requests that conform to
the description of the API, and for no other; consul leads clients to the stager
only while it listens, and again after every loss; a stop cuts no handler off,
every signal ends the process, and the exit status is the truth.

## Modules

| Module | Models | Uses |
|---|---|---|
| `StagingTypes` | guids, job names, spaces, the faults switched on | |
| `StagingClient` | `client.go` over the API server | `StagingTypes` |
| `CcClient` | `cc_client.go` | `StagingTypes` |
| `StagerApi` | the three handlers, the docker goroutine, crash and restart | `StagingClient`, `CcClient`, `StagingContract` |
| `StagingContract` | what the stager promises about its stagings | |
| `StagingScript` | the script in its pods, and what Kubernetes does with pods | `StagingClient` |
| `StagingSystem` | all of it together, with fairness | `StagerApi`, `StagingScript` |
| `TaskEnvironment` | the environment of one job, from the request to the script that reads it | `StagingScript` |
| `StagerHttp` | routing, binding and validation in front of the handlers | `StagerApi` |
| `HttpServer` | the member of the group that serves the API, and `net/http` around it | |
| `RegistrationRunner` | the member that keeps the stager registered, and the consul agent | |
| `StagerProcess` | boot, monitor, ordered group and exit, over the two members | `HttpServer`, `RegistrationRunner`, `ProcessContract` |
| `ProcessContract` | what the process promises those who meet it | |
| `RunConfig` | from the command line to `ServerConfig` | |
| `StagingClientProofs`, `StagerApiProofs`, `StagerAnswersProofs`, `StagingContractProofs`, `StagingSystemProofs`, `TaskEnvironmentProofs`, `StagerHttpProofs`, `StagerProcessProofs` | theorems | |
| `MC...` | instances for TLC | |

**StagingClient.** `namespaces` and `jobs` are the objects at the API server.
`created` is a history variable: the jobs that ever existed. Each method makes
at most one API call, which the server executes atomically, so each is one
action, with the error it returns as a parameter. A failing call reports
"unavailable" and may have taken effect. A job is reduced to its key and the two
entries of its environment that lead back to it. Creating needs an active
namespace and a free name; deleting a namespace only makes it terminate, and
Kubernetes then removes its contents one by one.

**CcClient.** `told` is the set of completions Cloud Controller has processed,
each with the request that caused it. A timeout, and a status other than 200,
leave open whether it was processed.

**StagerApi.** A thread is one HTTP request, with its own `pc`. Handlers share
nothing in the process, so one action runs from one external call to the next:
`StageGetNamespace`, `StageCreateNamespace`, `StageStartStaging`;
`CompleteTellCC`, `CompleteDeleteJob`; `StopGetTask`, `StopDeleteTask`.
`StageCalled` answers an unknown lifecycle and a docker stage at once; the
goroutine of the latter is `DockerComplete`. A request body is abstracted to
whether its lifecycle data unmarshals ("bad") and whether it has a null entry
("null"), on which the handler panics: the caller gets no answer ("aborted").
`Crash` aborts handlers and loses goroutines, `Restart` chooses a space.
A completion has a guid in its path and a task in its body. The handler tells
Cloud Controller of the task and deletes the job of the guid, and never compares
them, so neither does the model: any pair is a request. `Reported` are the tasks
Cloud Controller has heard of, `Completed` the guids in the paths of the
completions that told it of them. What a client gets that sends another task than
its path is what it asked for: the answer is true of the task, and the job of the
path is gone. The script makes path and body from one `StagingGUID`
(`CompletionOf`), so in the composed system the two are the same, and there a job
that is gone was itself reported (`NoJobLostUntold`).

**StagingContract.** Three sets, `staged`, `completed`, `cancelled`: a staging is
there once per space, stagings come and go one at a time, and one is given up
only after it was completed or cancelled. `StagerApi` refines it with the jobs
at the API server as `staged`.

**StagingScript, StagingSystem.** A pod goes through the script's phases. A Ruby
exception, and a builder that fails, both end it with status 0; the status of
the upload is not looked at. A job gets a pod when it has none that runs or
succeeded, so a lost pod is replaced. A pod of a deleted job is collected at
some moment, and may post its completion before. The request of a pod is served
by the thread of the same name. Cloud Controller makes a guid for every staging,
so no guid is staged twice here (`SystemAssumption`): that is why a pod may be
known by the record of its job. `StagerApi` alone has no such assumption.

**TaskEnvironment.** The handler turns the request's variables into a map,
`StartStaging` writes the stager's own over them, the script checks that ten of
them are there, and downloads buildpacks, lifecycle and app, each into a
directory of its own, which it skips when the directory exists. A download may
fail before the directory is made, which ends the script, or when it is
unpacked, which nobody notices (`MayFail`). `env` and `dirs` are functions, from
names to values and from directories to what was unpacked there. The key of a
buildpack is a sequence of the pieces between its commas: the order is the keys
joined by commas, so whoever splits it sees the pieces (`BuildpackOrder`, from
place to piece), and a key with a comma, a custom buildpack's URL, is not
among them. `BuilderFindsBuildpacks` is about every other. The module ends
where the builder starts; `StagingScript` has all of it as one step.
`ImplementsScript` ties the two: the job is read off the environment, and must
be the one `StagingClient` creates for the guid of the request; the pod starts
when the checks are passed, and downloads until the last download is done or one
has failed. So what the composed system takes for granted, that a job's record
holds its own task and space, is what `StartStaging` writes.

**StagerHttp.** An HTTP request is a method, a path under the base path or not, a
content type and a body; a body is missing, empty, malformed or a value.
`initHandlerCache` is the table of routes; `BindStageParams` and the other bind
operators give the errors of a request, in the order the generated code finds
them, and `Validate...` those of its body: none, since whatever a body decodes to
passes the generated validators, in which nothing is required or bounded. A
request without errors calls the
handler of `StagerApi`, in the same step; one with errors is answered with the
status of the first, kept in `refused`. Routing, the check of the content type
and the answer to an error are those of the vendored go-openapi runtime.

**HttpServer.** `server` is where `Run` is. Each connection has a goroutine of
`net/http`, whose place is `conn[c]`. `ConnState` is not atomic: it checks
`stoppingChan` in one step and inserts the connection into `inactiveConnections`
in another (`addInactiveConnection`), and between the two the sweep of
`CloseInactive` may go by. `WaitReturns` has the panic of a WaitGroup that is
used again before `Wait` has returned as one of its outcomes.

**RegistrationRunner.** Registrations run in goroutines: `calls` counts those on
their way to the agent, `answers` what they left for the runner. A call that
fails may have taken effect (`TakesEffect`); the agent may lose the service, and
outlives the process. `check` tells a check this runner passed from one an
earlier process left passing.

**StagerProcess.** Signals are counted, since nothing looks at which they are and
`process.Signal` loses none: sent to the process, in the monitor's channel,
offered to the group, offered to a member. `group` is where the ordered group
is: it starts the server, then the runner, waits, and stops them in reverse.
Each `select` with two ready cases is two actions.

**ProcessContract.** What is seen from outside: whether clients can connect
(`life`), whether consul leads them here, which connections have a request under
way, whether a part has failed. Nobody is led to a process that does not serve
unless something failed; the listener is closed when nobody is led to it, unless
something failed or it was broken before; requests are waited for, and once they
have drained none begins; the exit status is 0 only if all this went well and no
part failed. `StagerProcess` refines it (`ImplementsProcessContract`).
What it may not promise shows what the code does not: a process can die in
`Wait` (`WaitReturns`), but never while clients are served.

**RunConfig.** `initConfig`, then `LoadConfiguration`. `Get` is the order of
sources in the vendored viper; a value is written as its setting and the source
it comes from. `Seconds` is viper's reading of a value as a duration, a
constant, since an address has none.

## Runs

| Run | Instance | Shows |
|---|---|---|
| `client` | 2 guids that parse, 1 that does not, 2 spaces, calls fail | `CallbackFindsOwnJob`, `OneJobGoesAtATime` |
| `api` | 3 requests of 14 kinds, a completion of one guid with the task of another among them, 2 spaces, calls fail, Cloud Controller fails or refuses, crashes | `JobGoneOnlyIfEnded`, `AnswersAreTrue`, `NoDoubleStaging`, `ImplementsContract` |
| `system` | 2 stagings and a stop, 2 pods, 1 lost pod, every fault | `NoFalseSuccess`, `ReportsAccountedFor`, `CompletedIsGone` |
| `liveness` | a buildpack and a docker staging and a stop, 2 pods, 1 lost pod, uploads fail | `AcceptedIsReported`, `JobsDrain`, `DockerIsReported`, `NothingLeftBehind`, `AcceptedIsHeld` |
| `task_environment` | up to 2 variables and 3 buildpacks, keys with a comma, downloads fail | `ScriptIsConfigured`, `EnvironmentIsOwn`, `BuilderFindsBuildpacks`, `ImplementsScript` |
| `http_api` | 2 requests that are proper, or differ from a proper one in one way; completions for the task of the path or another | `HandlerSeesRequest`, `RefusalHasReason`, `RefusalTouchesNothing`, `ImplementsApi` |
| `stager_process` | 2 connections, 2 signals, 2 faults of consul, 2 registrations at once | `AdvertisedIsServed`, `NoNilAssertion`, `ExitStatusIsTrue`, `OneAttempt`, `NotAdvertisedAfterExit`, `NoHandlerLeft`, `HandlersKeepConnection`, `WaitIsReleased`, `SignalTakesEffect`, `ImplementsProcessContract` |
| `process_liveness` | the same with 1 connection, fair | `SignalEndsProcess`, `StopEnds`, `AdvertisedAgain` |
| `grace_period` | an endpoint that is an address, 60 seconds of grace | the configured grace period does not reach the handlers |
| `config_file` | a file given with `--config`, any other sources | the file is not read |
| `unavailable_told`, `stop_not_found` | the `api` instance without faults, 1 space | the API documents answers the handlers do not give |

Bounds. Three requests are enough for any two handlers of a guid to race while a
third stages it, and for a stage, a crash and restart, and a stage in another
space before a stop. Requests are symmetric, and so are the pods of the `system`
run. Two pods and one lost pod (`MaxEvictions`) let either staging be run twice,
or both once. One space suffices there, the `api` run has two. In
`task_environment`, names, keys and urls may be the same: two variables are
enough for a name given twice and for a name of the stager's own, and three
buildpacks for a key that comes twice around another, and for a key with a comma
between two that are its pieces. In `http_api` a request has one thing wrong
with it, seldom two: errors are looked for one after the other and the first is
answered, so combinations add no path. In `stager_process`, one connection may
be swept while another is handed over, a second signal comes while the first is
handled (a third could only do what the second does), and with two faults a
heartbeat and the registration that mends it can both fail; two registrations at
once (`MaxCalls`) are the one of the start, or of a failed heartbeat, and one
that is late. Connections are symmetric; one is enough for liveness, where
symmetry would not be sound. All runs end by themselves, since a thread serves
one request, a pod id is used once and a process exits; deadlock is therefore
not checked, except in the `client` run.

Fairness, in the `liveness` run: a handler that was called goes on (each has a
goroutine and every call it makes returns), the docker goroutine wakes up, a
script goes on, and the job controller starts a pod for a job that has none.
Nothing is assumed of requests, faults, stops, restarts or the collection of
pods. With calls that fail, a crash, or a failing build, the three liveness
properties do not hold and the code does not promise them: the hazards list says
where each is lost.

Fairness, in the `process_liveness` run: goroutines are scheduled, timers fire,
the consul agent answers every call, handlers return, and clients do not keep an
idle connection for ever. Signals and faults need not happen. The last
assumption is needed: a connection that goes idle may pass the check of
`stoppingChan` (`http_server.go:139`) before the stop, and be inserted after the
sweep; nobody closes it then, and `Wait` lasts as long as its client does. A
request that was read, but whose connection is not active yet, may be cut by the
sweep: `HandlersKeepConnection` is about running handlers.

What the violated runs show: 503 "Cloud Controller unavailable" is
answered when the job cannot be deleted although Cloud Controller has the result
(404 "Can't find staging task" is unreachable); a stop that loses a race is
answered 500 "Internal error" instead of 404 "Staging task not found". The grace
period is read from the `k8s-endpoint` flag (`cmd/run.go:45`), so it is zero
whatever `stage-stop-grace` says; `StopStaging` does not look at it either. The
file given with `--config` is forgotten: `initConfig` calls viper's
`SetConfigName` after `SetConfigFile`, and it resets the file.

Four more things the model has, without a run: lifecycle data that does not
unmarshal is answered 500, where 400 is documented as "JSON unmarshalling error"
(`stage_responses.go:32`); a null entry in the environment passes validation
and makes the handler panic (`configure_k8s_swagger.go:200`); a completion whose
body names another task than its path reports the one and deletes the job of the
other (`configure_k8s_swagger.go:311`, `333`); and a buildpack whose key has a
comma reaches the builder in pieces (`client.go:156`).

Mutants stand above the definition they alter, and carry the plausible mistake
in their comment; each breaks one property of a run.

## Theorems

For any guids, spaces, number of requests and combination of faults:

* `ClientTypeCorrect`, `CallbackFindsOwnJobAlways`, `OneJobGoesAtATimeAlways`.
  The invariant `ClientInv` says that every job is the one `NewJob` makes from
  its own task and space. Since the namespace determines the space, and the
  shortened guid the guid, a key addresses at most one job.
* `ApiTypeCorrect` and `NoJobLostSilently`. `JobGoneOnlyIfEnded` is not
  inductive: a handler at `deleteJob` could be about to delete a job nobody
  reported. `ApiInv` adds `HandlersMatch` (a handler at `deleteJob` has reported
  its task; one at `stopTask` serves a stop, which counts as cancelled) and
  `ClientInv` (the job it deletes is the one of its own guid). `ApiInv` was
  checked with TLC on the `api` instance first.
* `AnswersAlwaysTrue` and `NeverStagedTwiceAtOnce`. Both relate an answer to
  what happened since, so neither is inductive. `AnswersInv` adds to `ApiInv`
  that both hold, and `UnansweredYet`: a handler that is still running has given
  no answer. Every step then either leaves a given answer and what makes it true
  alone (`created`, `told` and the stops called only grow), or gives the one
  answer it is about.
* `AcceptedIsAlwaysHeld`. Since the process remembers nothing, what brings an
  accepted app to its end is a job or a goroutine. For a job this is
  `AnswersAreTrue` and `JobGoneOnlyIfEnded` together; for a goroutine,
  `DockerInv`: a docker stage is answered when its goroutine is started, and the
  goroutine ends only by telling Cloud Controller, unless a call fails or the
  process dies.
* `ServerImplementsContract`. Every step of the server maps to one step of the
  contract or a stutter, by the same invariant. Nothing is assumed of the tasks
  completions name; one call to Cloud Controller may complete several guids, when
  completions sent to each name the same task.
* `NoJobLostUntold`. For clients that send what the script sends, the promise of
  `NoJobLostSilently` is the stronger one: a job that is gone was cancelled, or
  its own task was reported. `HandlersServe` says that a handler's completion is
  one `CompletionOf` made.
* `SystemTypeCorrect`, `SystemImplementsApi` and `NeverFalseSuccess`. Every step
  of the whole is a step of `StagerApi` or none to it, so what is proved there
  holds in it: `SystemImplementsContract` and `SystemKeepsPromises` collect it.
  `SystemInv` traces a result back to its pod: a pod posts only
  when it has built (`PostsWhenBuilt`), a handler works on what its pod posted
  (`HandlersServe`), and what Cloud Controller has came from such a handler
  (`ResultsFromPods`).
* `ReportsAlwaysAccountedFor`. `CountInv` adds to `SystemInv` that a guid has
  one job, because its only stage request makes it (`JobsStaged`, `OneJobEach`),
  and that of the pods of a job all but one were lost (`OnePodLeft`; a collected
  pod has no successor, since its job is gone: `CollectedGone`). A pod tells
  Cloud Controller once, so tellings map one to one into pods, and the rest is
  counting.
* `CompletedIsAlwaysGone` and `NothingIsLeftBehind`. The first is about a
  history: a completion answered 200, and a job that must not be there then or
  later. The second is the safety under `JobsDrain`: where only pods and uploads
  fail, a script that has ended leaves no job, and it is the ended script that
  nobody replaces. `GoneInv` adds to `CountInv` that a pod's handler serves what
  the pod's own job gave it (`PodServes`), that nothing dies when only pods fail
  (`NothingDies`), and that the job of a pod that is `Through` is gone
  (`ThroughGone`): deleting with the task and space of a job deletes that job
  (`DeletesOwn`), and a guid is staged once, so it does not come back
  (`GoneForGood`). `GoneInv` was checked with TLC on both runs first.
* `ScriptIsConfiguredAlways`, `EnvironmentIsOwnAlways` and
  `BuilderFindsBuildpacksAlways`, for any request. `TaskInv` says that the
  environment is a function of the request (`EnvironmentFollows`), that every
  buildpack that was looked at has its directory (`Unpacked`), and that the
  first buildpack of a key fills it (`FirstUnpacked`): when a directory is not
  there yet, no earlier buildpack has its key. `LastValueWins` and
  `OwnOverride` say what the two maps hold.
* `EnvironmentImplementsScript`. Converting is a stutter, `StartStaging` the
  `StartStaging` of `StagingClient`, the checks are the start of a pod, and of
  the downloads one is a step: the last, or the one that fails. By `TaskInv` and
  `OwnOverride`, no request changes the job.
* `HttpImplementsApi`, and with it `NoJobLostBehindHttp` and
  `AnswersTrueBehindHttp`: behind binding and validation the server is
  `StagerApi`, and so keeps the promise of `StagingContract`
  (`HttpImplementsContract`). `HandlerAlwaysSeesRequest` and
  `RefusalAlwaysHasReason` say which requests get through; `RefusalNeverTouches`
  needs `RefusalInv`: the thread of a refused request stays idle.
* `NoHandlerLeftAlways`, `WaitIsReleasedAlways` and
  `HandlersKeepConnectionAlways`, for any number of
  connections. `HttpInv`: the connections that are counted are those `net/http`
  has handed over and not closed (`AllCounted`), `Run` blocks only while some
  are counted (`WaitsForSome`), an inactive one has no running handler
  (`InactiveRest`), and what comes after the end is closed before it is read
  (`LateClosed`).
* `OneAttemptAlways` and `NotAdvertisedAfterExitAlways`, by `RegistrationInv`.
* `AdvertisedIsServedAlways`, `NoNilAssertionAlways` and
  `ExitStatusIsTrueAlways`, for any number of connections, signals, faults and
  registrations. `ProcessInv` joins the invariants of the two members with where
  the group may be for each of their states.
* `SignalTakesEffectAlways`, the safety under `SignalEndsProcess`. `SignalInv`
  says where a signal that was sent can be for each state of the group: what the
  group has taken it acts upon, and a member it has started is started for good.
* `ProcessImplementsContract`. Each step of the process is, seen from outside,
  one step of `ProcessContract` or a stutter. The clients and the exit are the
  work: that the listener closes only when nobody is led to it needs the order of
  the group (`MembersMeet`) and what the agent may still hear (`RegistrationInv`);
  that no request begins after the drain needs `HttpInv`.
* `ProcessImplementsMembers` and `ProcessStopsCleanly`: inside the process both
  members are the modules that model them alone, so their theorems hold there.

They assume that constants have their types, `TypesAssumption` (accepted guids
with the same shortened guid are equal: the library that shortens them is not in
the repository), `RequestsAssumption`, `SystemAssumption`, `StagingsAssumption`
and those on bounds. TLC evaluates all of them.

Every invariant, action property and refinement of a passing run is proved.
The six liveness properties (`AcceptedIsReported`, `JobsDrain`,
`DockerIsReported`, `SignalEndsProcess`, `StopEnds`, `AdvertisedAgain`) rest on
fairness, which is beyond the prover, and stay with TLC. For all but the last
the safety they rest on is proved: `AcceptedIsHeld` under the first and third,
`NothingLeftBehind`, `SignalTakesEffect` and `WaitIsReleased` under the others.

## Not modelled

* Image, command, labels and credentials of a job.
* The order in which variables reach Kubernetes, which is random, and the
  expansion of `$(NAME)` in their values.
* Logging, the Swagger description, the version and docs commands.
* How responders write status and payload, and TLS.
* The go-openapi runtime, `net/http`, viper and the consul agent, beyond what the
  code in the repository uses of them.
* Retries inside the Kubernetes client library, which only repeat calls the
  server has turned away.
* The `ServerShutdown` hook of the generated API, which nothing calls.
* Two components, logger with the version and docs commands, and the embedded
  API description, are output and data; the integration tests are tests.

## Plan

1. Done: client, handlers, contract, script, composed system.
2. Done: `TaskEnvironment`, `RunConfig`, theorems about the answers.
3. Done: `StagerHttp`: what a handler may assume of a bound request.
4. Done: `HttpServer`, `RegistrationRunner`, `StagerProcess`, with liveness.
5. Done: theorems about the composed system, the task environment, the HTTP
   front and the process.
6. Done: `ProcessContract`, and the theorems that the process implements it, that
   `TaskEnvironment` implements `StagingScript`, and that the composed system and
   the HTTP front implement `StagingContract`; the safety under the
   liveness properties.
7. Left: the process of `StagerProcess` as the source of `Crash` and `Restart` in
   `StagerApi`, in one composition; a guid staged again in the composed system,
   which needs jobs that are told apart by more than their records.
