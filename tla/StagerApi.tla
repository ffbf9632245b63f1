------------------------------ MODULE StagerApi ------------------------------
(***************************************************************************)
(* lib/swagger/configure_k8s_swagger.go: the three handlers of the stager  *)
(* API, each run by a goroutine of its own, and the goroutine a docker     *)
(* stage leaves behind.                                                    *)
(*                                                                         *)
(* A thread is one HTTP request.  The handlers keep no state in the        *)
(* process, share nothing but the Kubernetes API server and Cloud          *)
(* Controller, and interleave at their calls to those: one action is what  *)
(* a handler does from one such call up to the next.                       *)
(***************************************************************************)
EXTENDS StagingClient, CcClient, Naturals

CONSTANTS
  Threads,   \* HTTP requests
  Requests   \* what they may ask: see AllRequests

VARIABLES
  up,      \* the process runs
  space,   \* serverConfig.K8SNamespace, read once when the process starts
  req,     \* the request each thread serves
  pc,      \* where its handler is
  reply,   \* the status code it answered, NoReply before
  docker   \* the goroutine started by a docker stage

serverVars == <<up, space, req, pc, reply, docker>>
apiVars == <<clientVars, told, serverVars>>

Lifecycles == {"docker", "buildpack"}

\* data: can the handler use the request body?  "ok"; "bad" when
\* lifecycle_data does not have the shape of the lifecycle; "null" when the
\* environment or the buildpack list has a null entry.
StageRequests ==
  [op : {"stage"}, guid : Guids, lifecycle : Lifecycles \cup {"unknown"},
   data : {"ok", "bad", "null"}]

\* guid is in the path; task and space are task_guid and space of the body,
\* which the handler does not compare with the path.
CompleteRequests ==
  [op : {"complete"}, guid : Guids, task : Guids, space : Spaces]

StopRequests == [op : {"stop"}, guid : Guids]

AllRequests == StageRequests \cup CompleteRequests \cup StopRequests

NoRequest == [op |-> "none"]
NoReply == 0

ASSUME RequestsAssumption == Requests \subseteq AllRequests

Waiting == {"getNamespace", "createNamespace", "startStaging",
            "tellCC", "deleteJob", "getTask", "stopTask"}

ApiInit ==
  /\ ClientInit
  /\ CcInit
  /\ up = TRUE
  /\ space \in Spaces
  /\ req = [th \in Threads |-> NoRequest]
  /\ pc = [th \in Threads |-> "idle"]
  /\ reply = [th \in Threads |-> NoReply]
  /\ docker = [th \in Threads |-> "none"]

Goto(th, next) ==
  /\ pc' = [pc EXCEPT ![th] = next]
  /\ UNCHANGED reply

Answer(th, code) ==
  /\ pc' = [pc EXCEPT ![th] = "done"]
  /\ reply' = [reply EXCEPT ![th] = code]

Receive(th, r) ==
  /\ up
  /\ pc[th] = "idle"
  /\ req' = [req EXCEPT ![th] = r]
  /\ UNCHANGED <<clientVars, told, up, space>>

-----------------------------------------------------------------------------
(***************************************************************************)
(* PUT /staging/{staging_guid}                                             *)
(***************************************************************************)

\* Mutant: a docker stage is accepted and nothing is started.
StageCalledNoGoroutine(th, r) ==
  /\ r.op = "stage"
  /\ Receive(th, r)
  /\ \/ r.lifecycle \notin Lifecycles /\ Answer(th, 400)
     \/ r.lifecycle = "docker" /\ Answer(th, 202)
     \/ r.lifecycle = "buildpack" /\ Goto(th, "getNamespace")
  /\ UNCHANGED docker

\* A docker app is not staged: the request is accepted at once, and a
\* goroutine will tell Cloud Controller two seconds later.
StageCalled(th, r) ==
  /\ r.op = "stage"
  /\ Receive(th, r)
  /\ \/ r.lifecycle \notin Lifecycles /\ Answer(th, 400) /\ UNCHANGED docker
     \/ /\ r.lifecycle = "docker"
        /\ docker' = [docker EXCEPT ![th] = "sleeping"]
        /\ Answer(th, 202)
     \/ r.lifecycle = "buildpack" /\ Goto(th, "getNamespace")
        /\ UNCHANGED docker

StageGetNamespace(th) ==
  /\ pc[th] = "getNamespace"
  /\ \E exists \in BOOLEAN, err \in Errors :
       /\ GetStagingNamespace(space, exists, err)
       /\ \/ err # "nil" /\ Answer(th, 500)
          \/ err = "nil" /\ exists /\ Goto(th, "startStaging")
          \/ err = "nil" /\ ~exists /\ Goto(th, "createNamespace")
  /\ UNCHANGED <<told, up, space, req, docker>>

StageCreateNamespace(th) ==
  /\ pc[th] = "createNamespace"
  /\ \E err \in Errors :
       /\ CreateStagingNamespace(space, err)
       /\ \/ err = "nil" /\ Goto(th, "startStaging")
          \/ err # "nil" /\ Answer(th, 500)
  /\ UNCHANGED <<told, up, space, req, docker>>

\* Mutant: the error of StartStaging is only logged.
StageStartStagingUnchecked(th) ==
  /\ pc[th] = "startStaging"
  /\ \E err \in Errors : StartStaging(req[th].guid, space, err)
  /\ Answer(th, 202)
  /\ UNCHANGED <<told, up, space, req, docker>>

\* Mutant: a job that is already there counts as started.
StageStartStagingIdempotent(th) ==
  /\ pc[th] = "startStaging"
  /\ \E err \in Errors :
       /\ StartStaging(req[th].guid, space, err)
       /\ Answer(th, IF err \in {"nil", "alreadyExists"} THEN 202 ELSE 500)
  /\ UNCHANGED <<told, up, space, req, docker>>

\* A null entry is dereferenced: net/http recovers, and the caller gets no
\* answer.
StageStartStaging(th) ==
  /\ pc[th] = "startStaging"
  /\ \/ /\ req[th].data = "null"
        /\ Goto(th, "aborted")
        /\ UNCHANGED clientVars
     \/ req[th].data = "bad" /\ Answer(th, 500) /\ UNCHANGED clientVars
     \/ /\ req[th].data = "ok"
        /\ \E err \in Errors :
             /\ StartStaging(req[th].guid, space, err)
             /\ Answer(th, IF err = "nil" THEN 202 ELSE 500)
  /\ UNCHANGED <<told, up, space, req, docker>>

\* The docker goroutine, after its sleep.  Whatever Cloud Controller says,
\* it ends: there is no retry, and lifecycle data that does not parse is
\* only logged.
DockerComplete(th) ==
  /\ up
  /\ docker[th] = "sleeping"
  /\ \E err \in CcErrors :
       StagingComplete(req[th].guid,
                       IF req[th].data = "bad" THEN "noImage" ELSE "image",
                       th, err)
  /\ docker' = [docker EXCEPT ![th] = "done"]
  /\ UNCHANGED <<clientVars, up, space, req, pc, reply>>

-----------------------------------------------------------------------------
(***************************************************************************)
(* POST /staging/{staging_guid}/completed                                  *)
(***************************************************************************)

\* Mutant: the job is deleted first.
CompleteCalledDeleteFirst(th, r) ==
  /\ r.op = "complete"
  /\ Receive(th, r)
  /\ Goto(th, "deleteJob")
  /\ UNCHANGED docker

CompleteCalled(th, r) ==
  /\ r.op = "complete"
  /\ Receive(th, r)
  /\ Goto(th, "tellCC")
  /\ UNCHANGED docker

\* Mutant: the handler goes on to delete the job when the call failed.
CompleteTellCCUnchecked(th) ==
  /\ pc[th] = "tellCC"
  /\ \E err \in CcErrors : StagingComplete(req[th].task, "result", th, err)
  /\ Goto(th, "deleteJob")
  /\ UNCHANGED <<clientVars, up, space, req, docker>>

\* Mutant: the handler passes on the status of Cloud Controller.
CompleteTellCCPassStatus(th) ==
  /\ pc[th] = "tellCC"
  /\ \E err \in CcErrors :
       /\ StagingComplete(req[th].task, "result", th, err)
       /\ IF err = "nil" THEN Goto(th, "deleteJob") ELSE Answer(th, 409)
  /\ UNCHANGED <<clientVars, up, space, req, docker>>

\* Mutant: a completion that was told is answered, and the job left there.
CompleteTellCCOnly(th) ==
  /\ pc[th] = "tellCC"
  /\ \E err \in CcErrors :
       /\ StagingComplete(req[th].task, "result", th, err)
       /\ Answer(th, IF err = "nil" THEN 200 ELSE 503)
  /\ UNCHANGED <<clientVars, up, space, req, docker>>

CompleteTellCC(th) ==
  /\ pc[th] = "tellCC"
  /\ \E err \in CcErrors :
       /\ StagingComplete(req[th].task, "result", th, err)
       /\ \/ err = "nil" /\ Goto(th, "deleteJob")
          \/ err = "badResponse" /\ Answer(th, 400)
          \/ err = "unavailable" /\ Answer(th, 503)
  /\ UNCHANGED <<clientVars, up, space, req, docker>>

\* Mutant: the error of StopStaging is only logged.
CompleteDeleteJobUnchecked(th) ==
  /\ pc[th] = "deleteJob"
  /\ \E err \in Errors : StopStaging(req[th].guid, req[th].space, err)
  /\ Answer(th, 200)
  /\ UNCHANGED <<told, up, space, req, docker>>

\* The job is looked for in the space of the body, not in the configured one.
CompleteDeleteJob(th) ==
  /\ pc[th] = "deleteJob"
  /\ \E err \in Errors :
       /\ StopStaging(req[th].guid, req[th].space, err)
       /\ Answer(th, IF err = "nil" THEN 200 ELSE 503)
  /\ UNCHANGED <<told, up, space, req, docker>>

-----------------------------------------------------------------------------
(***************************************************************************)
(* DELETE /staging/{staging_guid}                                          *)
(***************************************************************************)

StopCalled(th, r) ==
  /\ r.op = "stop"
  /\ Receive(th, r)
  /\ Goto(th, "getTask")
  /\ UNCHANGED docker

StopGetTask(th) ==
  /\ pc[th] = "getTask"
  /\ \E exists \in BOOLEAN, err \in Errors :
       /\ GetStagingTask(req[th].guid, space, exists, err)
       /\ \/ err # "nil" /\ Answer(th, 500)
          \/ err = "nil" /\ exists /\ Goto(th, "stopTask")
          \/ err = "nil" /\ ~exists /\ Answer(th, 404)
  /\ UNCHANGED <<told, up, space, req, docker>>

StopDeleteTask(th) ==
  /\ pc[th] = "stopTask"
  /\ \E err \in Errors :
       /\ StopStaging(req[th].guid, space, err)
       /\ Answer(th, IF err = "nil" THEN 202 ELSE 500)
  /\ UNCHANGED <<told, up, space, req, docker>>

-----------------------------------------------------------------------------
(***************************************************************************)
(* The process.  What it was doing is lost with it: handlers in progress   *)
(* answer nothing, docker goroutines tell nobody.  It may come back with   *)
(* another k8s-namespace.                                                  *)
(***************************************************************************)

Crash ==
  /\ "crash" \in Faults
  /\ up
  /\ up' = FALSE
  /\ pc' = [th \in Threads |-> IF pc[th] \in Waiting THEN "aborted" ELSE pc[th]]
  /\ docker' = [th \in Threads |->
                  IF docker[th] = "sleeping" THEN "lost" ELSE docker[th]]
  /\ UNCHANGED <<clientVars, told, space, req, reply>>

Restart ==
  /\ ~up
  /\ up' = TRUE
  /\ space' \in Spaces
  /\ UNCHANGED <<clientVars, told, req, pc, reply, docker>>

Called(th, r) ==
  \/ StageCalled(th, r)
  \/ CompleteCalled(th, r)
  \/ StopCalled(th, r)

\* The rest of a handler, from call to call.
Handle(th) ==
  \/ StageGetNamespace(th)
  \/ StageCreateNamespace(th)
  \/ StageStartStaging(th)
  \/ CompleteTellCC(th)
  \/ CompleteDeleteJob(th)
  \/ StopGetTask(th)
  \/ StopDeleteTask(th)

\* The server under any clients that send Requests, in any order.
ApiNext ==
  \/ \E th \in Threads :
       \/ \E r \in Requests : Called(th, r)
       \/ Handle(th)
       \/ DockerComplete(th)
  \/ Crash
  \/ Restart

ApiSpec == ApiInit /\ [][ApiNext]_apiVars

-----------------------------------------------------------------------------

ApiTypeOK ==
  /\ ClientTypeOK
  /\ told \subseteq Completions(Threads)
  /\ up \in BOOLEAN
  /\ space \in Spaces
  /\ req \in [Threads -> AllRequests \cup {NoRequest}]
  /\ pc \in [Threads -> Waiting \cup {"idle", "done", "aborted"}]
  /\ reply \in [Threads -> {NoReply, 200, 202, 400, 404, 500, 503}]
  /\ docker \in [Threads -> {"none", "sleeping", "done", "lost"}]

\* Guids Cloud Controller has a buildpack result for.
Reported == {d.guid : d \in {c \in told : c.payload = "result"}}

\* Guids in the path of a completion whose task Cloud Controller has heard of:
\* the guid's own, unless its sender put another one in the body.
Completed ==
  {req[th].guid : th \in {t \in Threads : /\ req[t].op = "complete"
                                          /\ req[t].task \in Reported}}

\* Guids somebody asked the server to stop.
Cancelled == {req[th].guid : th \in {t \in Threads : req[t].op = "stop"}}

\* A staging job is never lost silently: whatever handlers, crashes and
\* changes of namespace interleave, and whatever bodies clients send, a job
\* that was created and is gone was stopped at somebody's request, or a
\* completion sent to its guid was passed on to Cloud Controller first
\* (StagingCompleteHandler reports before it deletes).
JobGoneOnlyIfEnded ==
  \A j \in created \ jobs : j.task \in Completed \cup Cancelled

\* th asked for a buildpack app to be staged, and was told it would be.
AcceptedStage(th) ==
  /\ reply[th] = 202
  /\ req[th].op = "stage"
  /\ req[th].lifecycle = "buildpack"

\* Every answer that promises something is true: an accepted buildpack stage
\* has created its job, an accepted stop and a completed completion had a job
\* to delete, and the result of a completed completion reached Cloud
\* Controller (the error returns of the three handlers).
AnswersAreTrue ==
  \A th \in Threads :
    LET Had(sp) == \E j \in created : j.task = req[th].guid /\ j.space \in sp
    IN  /\ AcceptedStage(th) => Had(Spaces)
        /\ reply[th] = 202 /\ req[th].op = "stop" => Had(Spaces)
        /\ reply[th] = 200 =>
             Had({req[th].space}) /\ req[th].task \in Reported

\* The same guid is not staged twice at once: if two stage requests for it
\* were both accepted, it was completed or cancelled at some time, or the two
\* jobs are in different spaces (AlreadyExists from Jobs.Create, which the
\* handler must not take for success).  That the first job was gone before the
\* second came is what StagingContract adds.
NoDoubleStaging ==
  \A t1, t2 \in Threads :
    /\ t1 # t2
    /\ AcceptedStage(t1) /\ AcceptedStage(t2)
    /\ req[t1].guid = req[t2].guid
    => \/ req[t1].guid \in Completed \cup Cancelled
       \/ \E j, k \in created : /\ j.task = req[t1].guid
                                /\ k.task = req[t1].guid
                                /\ j.space # k.space

\* th asked for a docker app to be staged, and was told it would be.
AcceptedDocker(th) ==
  /\ reply[th] = 202
  /\ req[th].op = "stage"
  /\ req[th].lifecycle = "docker"

\* What was accepted is never without somebody to bring it to its end: while a
\* buildpack app is neither completed nor cancelled its job is there, and a
\* docker app has its goroutine until Cloud Controller has heard of it, but
\* for a crash or a call that fails, after which nobody has it any more
\* (nothing in the process remembers a staging).
AcceptedIsHeld ==
  \A th \in Threads :
    /\ AcceptedStage(th) =>
         \/ req[th].guid \in Completed \cup Cancelled
         \/ \E j \in jobs : j.task = req[th].guid
    /\ AcceptedDocker(th) =>
         \/ docker[th] = "sleeping"
         \/ \E d \in told : d.sender = th
         \/ Faults \cap {"cc", "refuse", "crash"} # {}

\* The server keeps the promise of StagingContract: its stagings are the jobs
\* of the API server, since it keeps nothing of them itself.
Staged == {[task |-> j.task, space |-> j.space] : j \in jobs}

Contract == INSTANCE StagingContract
  WITH staged <- Staged, completed <- Completed, cancelled <- Cancelled

ImplementsContract == Contract!Spec

-----------------------------------------------------------------------------
(***************************************************************************)
(* What the API documents and the handlers do not do.                      *)
(***************************************************************************)

\* 503 is documented as "Cloud Controller unavailable": it is not the answer
\* to a completion that Cloud Controller has processed.
UnavailableIsUntold ==
  \A th \in Threads :
    reply[th] = 503 => \A d \in told : d.sender # th

\* "Staging task not found" is 404: when no call fails, a stop of a guid that
\* parses is never answered with 500, "Internal error".
GoneIsNotFound ==
  \A th \in Threads :
    Faults = {} /\ req[th].op = "stop" /\ req[th].guid \in TaskGuids =>
      reply[th] # 500

=============================================================================
