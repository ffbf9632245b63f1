--------------------------- MODULE StagerApiProofs ---------------------------
(***************************************************************************)
(* Proofs about StagerApi: its types, that no job is lost silently, and    *)
(* that the server implements StagingContract.                             *)
(*                                                                         *)
(* JobGoneOnlyIfEnded is not inductive: a handler about to delete a job    *)
(* must be known to have reported a task, or to serve a stop.  HandlersMatch   *)
(* says so, thread by thread; ClientInv says which job a deletion hits.    *)
(***************************************************************************)
EXTENDS StagerApi, StagingClientProofs

ServerTypeOK ==
  /\ told \subseteq Completions(Threads)
  /\ up \in BOOLEAN
  /\ space \in Spaces
  /\ req \in [Threads -> Requests \cup {NoRequest}]
  /\ pc \in [Threads -> Waiting \cup {"idle", "done", "aborted"}]
  /\ reply \in [Threads -> {NoReply, 200, 202, 400, 404, 500, 503}]
  /\ docker \in [Threads -> {"none", "sleeping", "done", "lost"}]

HandlerMatches(th) ==
  /\ pc[th] = "idle" => req[th] = NoRequest
  /\ pc[th] \in {"getNamespace", "createNamespace", "startStaging"} =>
       req[th].op = "stage"
  /\ pc[th] \in {"tellCC", "deleteJob"} => req[th].op = "complete"
  /\ pc[th] \in {"getTask", "stopTask"} => req[th].op = "stop"
  /\ pc[th] = "deleteJob" => req[th].task \in Reported
  /\ docker[th] # "none" => req[th].op = "stage"

HandlersMatch == \A th \in Threads : HandlerMatches(th)

ApiInv ==
  /\ ServerTypeOK
  /\ ClientInv
  /\ HandlersMatch
  /\ JobGoneOnlyIfEnded

-----------------------------------------------------------------------------
(***************************************************************************)
(* What the steps have in common.                                          *)
(***************************************************************************)

\* The fields of a request (the generated parameter structs).
LEMMA RequestFields ==
  ASSUME NEW r \in Requests
  PROVE  /\ r # NoRequest
         /\ r.op \in {"stage", "complete", "stop"}
         /\ r.guid \in Guids
         /\ r.op = "complete" => r.task \in Guids /\ r.space \in Spaces
BY RequestsAssumption
DEF AllRequests, StageRequests, CompleteRequests, StopRequests, NoRequest

LEMMA NoRequestFields == NoRequest.op = "none"
BY DEF NoRequest

\* What the call to Cloud Controller does (CcClient.StagingComplete).
LEMMA CcCall ==
  ASSUME NEW guid \in Guids, NEW payload \in Payloads, NEW th \in Threads,
         NEW err, StagingComplete(guid, payload, th, err),
         told \subseteq Completions(Threads)
  PROVE  /\ told' \subseteq Completions(Threads)
         /\ told \subseteq told'
         /\ payload # "result" => Reported' = Reported
         /\ payload = "result" => Reported' \in {Reported, Reported \cup {guid}}
         /\ payload = "result" /\ err = "nil" => guid \in Reported'
<1> DEFINE d == [guid |-> guid, payload |-> payload, sender |-> th]
<1>1. told' = told \/ told' = told \cup {d}
  BY DEF StagingComplete
<1>2. d \in Completions(Threads) /\ d.payload = payload /\ d.guid = guid
  BY DEF Completions
<1>3. err = "nil" => d \in told'
  BY DEF StagingComplete
<1> QED
  BY <1>1, <1>2, <1>3 DEF Reported

LEMMA ReportedGrows ==
  ASSUME told \subseteq told'
  PROVE  Reported \subseteq Reported'
BY DEF Reported

\* A thread takes its only request when it has none, so nobody's wish to stop
\* a staging, nor what was completed, is forgotten.
LEMMA EndedOnReceive ==
  ASSUME ServerTypeOK, HandlersMatch,
         NEW th \in Threads, NEW r \in Requests, Receive(th, r)
  PROVE  /\ Cancelled' = IF r.op = "stop" THEN Cancelled \cup {r.guid}
                                          ELSE Cancelled
         /\ Completed' = IF r.op = "complete" /\ r.task \in Reported
                         THEN Completed \cup {r.guid} ELSE Completed
<1>1. req[th].op = "none"
  BY NoRequestFields DEF Receive, HandlersMatch, HandlerMatches
<1>2. /\ req'[th] = r
      /\ \A t \in Threads : t # th => req'[t] = req[t]
  BY DEF Receive, ServerTypeOK
<1> QED
  <2>1. Cancelled' = IF r.op = "stop" THEN Cancelled \cup {r.guid}
                                      ELSE Cancelled
    BY <1>1, <1>2 DEF Cancelled
  <2>2. Reported' = Reported
    BY DEF Receive, Reported
  <2>3. Completed' = IF r.op = "complete" /\ r.task \in Reported
                     THEN Completed \cup {r.guid} ELSE Completed
    BY <1>1, <1>2, <2>2 DEF Completed
  <2> QED BY <2>1, <2>3

\* A step that ends nothing keeps JobGoneOnlyIfEnded.
LEMMA JobsKept ==
  ASSUME JobGoneOnlyIfEnded, created' \ jobs' \subseteq created \ jobs,
         Completed \subseteq Completed', Cancelled \subseteq Cancelled'
  PROVE  JobGoneOnlyIfEnded'
BY DEF JobGoneOnlyIfEnded

\* A call to StopStaging deletes nothing, or the job of the guid it is given,
\* and the job was there.
LEMMA StopStagingEffect ==
  ASSUME ClientInv, NEW id, NEW sp \in Spaces, NEW err,
         StopStaging(id, sp, err)
  PROVE  /\ UNCHANGED <<namespaces, created>>
         /\ \/ UNCHANGED jobs /\ err # "nil"
            \/ /\ id \in TaskGuids
               /\ NewJob(id, sp) \in jobs
               /\ jobs' = jobs \ {NewJob(id, sp)}
<1>1. CASE UNCHANGED jobs /\ err # "nil"
  BY <1>1 DEF StopStaging
<1>2. CASE /\ id \in TaskGuids
           /\ JobsNamed(formatStagingNamespace(sp), ShortenedGuid[id]) # {}
           /\ jobs' = jobs \ JobsNamed(formatStagingNamespace(sp),
                                       ShortenedGuid[id])
  <2>1. JobsNamed(formatStagingNamespace(sp), ShortenedGuid[id])
          = {NewJob(id, sp)}
    BY <1>2, JobsNamedOwn
  <2> QED
    BY <1>2, <2>1 DEF StopStaging, JobsNamed
<1> QED
  BY <1>1, <1>2 DEF StopStaging, CallFails

\* Deleting the job of a guid that has ended loses nothing.
LEMMA DeletedHasEnded ==
  ASSUME ClientInv, JobGoneOnlyIfEnded,
         NEW id \in Completed \cup Cancelled, NEW sp \in Spaces, NEW err,
         StopStaging(id, sp, err),
         Completed' = Completed, Cancelled' = Cancelled
  PROVE  JobGoneOnlyIfEnded'
<1>1. CASE jobs' = jobs /\ created' = created
  BY <1>1, JobsKept
<1>2. CASE /\ id \in TaskGuids
           /\ jobs' = jobs \ {NewJob(id, sp)}
           /\ created' = created
  <2>1. NewJob(id, sp).task = id
    BY <1>2, NewJobFields
  <2> QED
    BY <1>2, <2>1 DEF JobGoneOnlyIfEnded
<1> QED
  BY <1>1, <1>2, StopStagingEffect

\* A handler that moves on, or answers, touches its own pc and reply only.
LEMMA GotoEffect ==
  ASSUME ServerTypeOK, NEW th \in Threads, NEW next, Goto(th, next)
  PROVE  /\ pc'[th] = next
         /\ \A t \in Threads : t # th => pc'[t] = pc[t]
         /\ UNCHANGED reply
         /\ next \in Waiting \cup {"idle", "done", "aborted"} =>
              pc' \in [Threads -> Waiting \cup {"idle", "done", "aborted"}]
BY DEF Goto, ServerTypeOK

LEMMA AnswerEffect ==
  ASSUME ServerTypeOK, NEW th \in Threads, NEW code, Answer(th, code)
  PROVE  /\ pc'[th] = "done"
         /\ \A t \in Threads : t # th => pc'[t] = pc[t]
         /\ pc' \in [Threads -> Waiting \cup {"idle", "done", "aborted"}]
         /\ code \in {NoReply, 200, 202, 400, 404, 500, 503} =>
              reply' \in [Threads -> {NoReply, 200, 202, 400, 404, 500, 503}]
BY DEF Answer, ServerTypeOK

\* What a step of one thread leaves alone of the others.
LEMMA OthersMatch ==
  ASSUME HandlersMatch, Reported \subseteq Reported', NEW th \in Threads,
         \A t \in Threads : t # th => /\ pc'[t] = pc[t]
                                     /\ req'[t] = req[t]
                                     /\ docker'[t] = docker[t],
         HandlerMatches(th)'
  PROVE  HandlersMatch'
<1> SUFFICES ASSUME NEW t \in Threads, t # th
             PROVE  HandlerMatches(t)'
  BY DEF HandlersMatch
<1> QED
  BY DEF HandlersMatch, HandlerMatches

\* Steps that create and delete nothing, and tell nobody.
LEMMA QuietStep ==
  ASSUME ApiInv, UNCHANGED <<jobs, created, told>>, ClientInv',
         Completed \subseteq Completed', Cancelled \subseteq Cancelled'
  PROVE  /\ JobGoneOnlyIfEnded'
         /\ Reported' = Reported
<1>1. Reported' = Reported
  BY DEF Reported
<1> QED
  BY <1>1, JobsKept DEF ApiInv

LEMMA SameRequests ==
  ASSUME UNCHANGED req
  PROVE  /\ Cancelled' = Cancelled
         /\ told \subseteq told' => Completed \subseteq Completed'
         /\ Reported' = Reported => Completed' = Completed
BY DEF Cancelled, Completed, Reported

-----------------------------------------------------------------------------
(***************************************************************************)
(* Every action preserves ApiInv.                                          *)
(***************************************************************************)

\* A request comes in (the beginnings of the three handlers).
LEMMA CalledInv ==
  ASSUME ApiInv, NEW th \in Threads, NEW r \in Requests, Called(th, r)
  PROVE  ApiInv'
<1>1. /\ Receive(th, r)
      /\ pc[th] = "idle"
      /\ UNCHANGED <<clientVars, told, up, space>>
      /\ req' = [req EXCEPT ![th] = r]
  BY DEF Called, StageCalled, CompleteCalled, StopCalled, Receive
<1>2. ServerTypeOK /\ HandlersMatch /\ ClientInv
  BY DEF ApiInv
<1>3. /\ r.op \in {"stage", "complete", "stop"}
      /\ r # NoRequest
  BY RequestFields
<1>4. docker[th] = "none"
  BY <1>1, <1>2, NoRequestFields DEF HandlersMatch, HandlerMatches
<1>5. req'[th] = r /\ \A t \in Threads : t # th => req'[t] = req[t]
  BY <1>1, <1>2 DEF ServerTypeOK
<1>6. Completed \subseteq Completed' /\ Cancelled \subseteq Cancelled'
  BY <1>1, <1>2, EndedOnReceive
<1>7. ClientInv'
  BY <1>1, <1>2, ClientInvStutter
<1>8. JobGoneOnlyIfEnded' /\ Reported' = Reported
  BY <1>1, <1>6, <1>7, QuietStep DEF clientVars
<1>9. /\ \/ pc'[th] = "getNamespace" /\ r.op = "stage"
         \/ pc'[th] = "done"
         \/ pc'[th] = "tellCC" /\ r.op = "complete"
         \/ pc'[th] = "getTask" /\ r.op = "stop"
      /\ \A t \in Threads : t # th => pc'[t] = pc[t]
      /\ pc' \in [Threads -> Waiting \cup {"idle", "done", "aborted"}]
      /\ reply' \in [Threads -> {NoReply, 200, 202, 400, 404, 500, 503}]
  <2>1. CASE StageCalled(th, r)
    BY <1>2, <2>1 DEF StageCalled, Goto, Answer, ServerTypeOK, Waiting
  <2>2. CASE CompleteCalled(th, r)
    BY <1>2, <2>2 DEF CompleteCalled, Goto, ServerTypeOK, Waiting
  <2>3. CASE StopCalled(th, r)
    BY <1>2, <2>3 DEF StopCalled, Goto, ServerTypeOK, Waiting
  <2> QED
    BY <2>1, <2>2, <2>3 DEF Called
<1>10. /\ docker'[th] = "none" \/ r.op = "stage"
       /\ \A t \in Threads : t # th => docker'[t] = docker[t]
       /\ docker' \in [Threads -> {"none", "sleeping", "done", "lost"}]
  BY <1>2, <1>4
  DEF Called, StageCalled, CompleteCalled, StopCalled, ServerTypeOK
<1>11. ServerTypeOK'
  BY <1>1, <1>2, <1>9, <1>10 DEF ServerTypeOK
<1>12. HandlerMatches(th)'
  BY <1>3, <1>5, <1>9, <1>10 DEF HandlerMatches
<1>13. HandlersMatch'
  BY <1>2, <1>5, <1>8, <1>9, <1>10, <1>12, OthersMatch
<1> QED
  BY <1>7, <1>8, <1>11, <1>13 DEF ApiInv

\* Steps of a handler that change neither its request nor a docker goroutine:
\* what is left to show of each.
LEMMA HandlerStep ==
  ASSUME ApiInv, NEW th \in Threads, NEW next, NEW code,
         Goto(th, next) \/ (next = "done" /\ Answer(th, code)),
         next \in Waiting \cup {"done", "aborted"},
         code \in {200, 202, 400, 404, 500, 503},
         UNCHANGED <<up, space, req, docker>>,
         told \subseteq told', told' \subseteq Completions(Threads),
         ClientInv',
         HandlerMatches(th)',
         JobGoneOnlyIfEnded'
  PROVE  ApiInv'
<1>1. ServerTypeOK /\ HandlersMatch
  BY DEF ApiInv
<1>2. ServerTypeOK'
  BY <1>1, GotoEffect, AnswerEffect DEF ServerTypeOK
<1>3. \A t \in Threads : t # th => pc'[t] = pc[t]
  BY <1>1, GotoEffect, AnswerEffect
<1>4. HandlersMatch'
  BY <1>1, <1>3, OthersMatch, ReportedGrows
<1> QED
  BY <1>2, <1>4 DEF ApiInv

\* The buildpack part of a stage: nothing is told, no job goes away.
LEMMA StageStepInv ==
  ASSUME ApiInv, NEW th \in Threads,
         StageGetNamespace(th) \/ StageCreateNamespace(th)
           \/ StageStartStaging(th)
  PROVE  ApiInv'
<1>1. /\ ServerTypeOK /\ HandlersMatch /\ ClientInv
      /\ UNCHANGED <<told, up, space, req, docker>>
      /\ told' \subseteq Completions(Threads)
      /\ Cancelled' = Cancelled /\ Completed \subseteq Completed'
  BY SameRequests DEF ApiInv, ServerTypeOK, StageGetNamespace,
     StageCreateNamespace, StageStartStaging
<1>2. req[th].op = "stage" /\ req[th] \in Requests
  BY <1>1, NoRequestFields DEF HandlersMatch, HandlerMatches, ServerTypeOK,
     StageGetNamespace, StageCreateNamespace, StageStartStaging
<1>3. PICK next, code :
        /\ Goto(th, next) \/ (next = "done" /\ Answer(th, code))
        /\ next \in {"createNamespace", "startStaging", "done", "aborted"}
        /\ code \in {202, 500}
  <2>1. CASE StageGetNamespace(th)
    BY <2>1 DEF StageGetNamespace
  <2>2. CASE StageCreateNamespace(th)
    BY <2>2 DEF StageCreateNamespace
  <2>3. CASE StageStartStaging(th)
    BY <2>3 DEF StageStartStaging
  <2> QED
    BY <2>1, <2>2, <2>3
<1>4. HandlerMatches(th)'
  BY <1>1, <1>2, <1>3, GotoEffect, AnswerEffect
  DEF HandlerMatches
<1>5. ClientInv' /\ created' \ jobs' \subseteq created \ jobs
  <2>1. CASE StageGetNamespace(th)
    BY <1>1, <2>1, ClientInvStutter
    DEF StageGetNamespace, GetStagingNamespace, clientVars
  <2>2. CASE StageCreateNamespace(th)
    <3>1. PICK err \in Errors : CreateStagingNamespace(space, err)
      BY <2>2 DEF StageCreateNamespace
    <3>2. ClientInv'
      BY <1>1, <3>1, CreateStagingNamespaceInv DEF ServerTypeOK
    <3> QED
      BY <3>1, <3>2 DEF CreateStagingNamespace
  <2>3. CASE StageStartStaging(th) /\ UNCHANGED clientVars
    BY <1>1, <2>3, ClientInvStutter DEF clientVars
  <2>4. ASSUME NEW err \in Errors, StartStaging(req[th].guid, space, err)
        PROVE  ClientInv' /\ created' \ jobs' \subseteq created \ jobs
    <3>1. ClientInv'
      BY <1>1, <1>2, <2>4, RequestFields, StartStagingInv DEF ServerTypeOK
    <3> QED
      BY <2>4, <3>1 DEF StartStaging
  <2> QED
    BY <2>1, <2>2, <2>3, <2>4 DEF StageStartStaging
<1>6. JobGoneOnlyIfEnded'
  BY <1>1, <1>5, JobsKept DEF ApiInv
<1> QED
  BY <1>1, <1>3, <1>4, <1>5, <1>6, HandlerStep DEF Waiting

\* Reporting a completion: the handler goes on to delete the job only when
\* Cloud Controller has the result.
LEMMA CompleteTellCCInv ==
  ASSUME ApiInv, NEW th \in Threads, CompleteTellCC(th)
  PROVE  ApiInv'
<1>1. /\ ServerTypeOK /\ HandlersMatch /\ ClientInv
      /\ UNCHANGED <<clientVars, up, space, req, docker>>
      /\ Cancelled' = Cancelled
      /\ told \subseteq Completions(Threads)
  BY SameRequests DEF ApiInv, ServerTypeOK, CompleteTellCC
<1>2. /\ req[th] \in Requests /\ req[th].op = "complete"
      /\ req[th].task \in Guids
  BY <1>1, NoRequestFields, RequestFields
  DEF HandlersMatch, HandlerMatches, ServerTypeOK, CompleteTellCC
<1>3. PICK err \in CcErrors :
        /\ StagingComplete(req[th].task, "result", th, err)
        /\ \/ err = "nil" /\ Goto(th, "deleteJob")
           \/ err = "badResponse" /\ Answer(th, 400)
           \/ err = "unavailable" /\ Answer(th, 503)
  BY DEF CompleteTellCC
<1>4. /\ told' \subseteq Completions(Threads)
      /\ told \subseteq told'
      /\ err = "nil" => req[th].task \in Reported'
  BY <1>1, <1>2, <1>3, CcCall DEF Payloads
<1>5. HandlerMatches(th)'
  BY <1>1, <1>2, <1>3, <1>4, GotoEffect, AnswerEffect
  DEF HandlersMatch, HandlerMatches
<1>6. ClientInv'
  BY <1>1, ClientInvStutter
<1>7. JobGoneOnlyIfEnded'
  BY <1>1, <1>4, JobsKept, SameRequests DEF ApiInv, clientVars
<1> QED
  BY <1>1, <1>3, <1>4, <1>5, <1>6, <1>7, HandlerStep DEF Waiting

\* Deleting a job, after a completion or for a stop: the job that goes has
\* ended, since it is the one of the handler's own guid.
LEMMA DeleteInv ==
  ASSUME ApiInv, NEW th \in Threads, CompleteDeleteJob(th) \/ StopDeleteTask(th)
  PROVE  ApiInv'
<1>1. /\ ServerTypeOK /\ HandlersMatch /\ ClientInv
      /\ UNCHANGED <<told, up, space, req, docker>>
      /\ told' \subseteq Completions(Threads)
      /\ Cancelled' = Cancelled /\ Reported' = Reported
      /\ Completed' = Completed
  BY SameRequests
  DEF ApiInv, ServerTypeOK, CompleteDeleteJob, StopDeleteTask, Reported
<1>2. /\ req[th] \in Requests
      /\ req[th].guid \in Completed \cup Cancelled
  <2>1. CASE CompleteDeleteJob(th)
    BY <1>1, <2>1, NoRequestFields
    DEF HandlersMatch, HandlerMatches, ServerTypeOK, CompleteDeleteJob,
        Completed
  <2>2. CASE StopDeleteTask(th)
    BY <1>1, <2>2, NoRequestFields
    DEF HandlersMatch, HandlerMatches, ServerTypeOK, StopDeleteTask, Cancelled
  <2> QED
    BY <2>1, <2>2
<1>3. PICK sp \in Spaces, err \in Errors, code \in {200, 202, 500, 503} :
        StopStaging(req[th].guid, sp, err) /\ Answer(th, code)
  <2>1. CASE CompleteDeleteJob(th)
    <3>1. req[th].space \in Spaces
      BY <1>1, <1>2, <2>1, RequestFields
      DEF HandlersMatch, HandlerMatches, CompleteDeleteJob
    <3> QED
      BY <2>1, <3>1 DEF CompleteDeleteJob
  <2>2. CASE StopDeleteTask(th)
    BY <1>1, <2>2 DEF StopDeleteTask, ServerTypeOK
  <2> QED
    BY <2>1, <2>2
<1>4. HandlerMatches(th)'
  BY <1>1, <1>3, AnswerEffect DEF HandlersMatch, HandlerMatches
<1>5. ClientInv'
  BY <1>1, <1>3, StopStagingInv
<1>6. JobGoneOnlyIfEnded'
  BY <1>1, <1>2, <1>3, DeletedHasEnded DEF ApiInv
<1> QED
  BY <1>1, <1>3, <1>4, <1>5, <1>6, HandlerStep

\* Looking a task up for a stop changes nothing.
LEMMA StopGetTaskInv ==
  ASSUME ApiInv, NEW th \in Threads, StopGetTask(th)
  PROVE  ApiInv'
<1>1. /\ ServerTypeOK /\ HandlersMatch /\ ClientInv
      /\ UNCHANGED <<clientVars, told, up, space, req, docker>>
      /\ told' \subseteq Completions(Threads)
      /\ Cancelled' = Cancelled /\ Completed \subseteq Completed'
  BY SameRequests DEF ApiInv, ServerTypeOK, StopGetTask, GetStagingTask
<1>2. req[th].op = "stop"
  BY <1>1 DEF HandlersMatch, HandlerMatches, StopGetTask
<1>3. PICK next, code :
        /\ Goto(th, next) \/ (next = "done" /\ Answer(th, code))
        /\ next \in {"stopTask", "done"}
        /\ code \in {404, 500}
  BY DEF StopGetTask
<1>4. HandlerMatches(th)'
  BY <1>1, <1>2, <1>3, GotoEffect, AnswerEffect
  DEF HandlersMatch, HandlerMatches
<1>5. ClientInv'
  BY <1>1, ClientInvStutter
<1>6. JobGoneOnlyIfEnded'
  BY <1>1, JobsKept DEF ApiInv, clientVars
<1> QED
  BY <1>1, <1>3, <1>4, <1>5, <1>6, HandlerStep DEF Waiting

\* The docker goroutine tells no buildpack result.
LEMMA DockerCompleteInv ==
  ASSUME ApiInv, NEW th \in Threads, DockerComplete(th)
  PROVE  ApiInv' /\ Reported' = Reported
<1>1. /\ ServerTypeOK /\ HandlersMatch /\ ClientInv
      /\ UNCHANGED <<clientVars, up, space, req, pc, reply>>
      /\ docker' = [docker EXCEPT ![th] = "done"]
      /\ docker[th] = "sleeping"
      /\ Cancelled' = Cancelled
      /\ told \subseteq Completions(Threads)
  BY SameRequests DEF ApiInv, ServerTypeOK, DockerComplete
<1>2. req[th] \in Requests /\ req[th].guid \in Guids
  BY <1>1, NoRequestFields, RequestFields
  DEF HandlersMatch, HandlerMatches, ServerTypeOK
<1>3. PICK err \in CcErrors, payload \in {"image", "noImage"} :
        StagingComplete(req[th].guid, payload, th, err)
  BY DEF DockerComplete
<1>4. told' \subseteq Completions(Threads) /\ Reported' = Reported
  BY <1>1, <1>2, <1>3, CcCall DEF Payloads
<1>5. ServerTypeOK'
  BY <1>1, <1>4 DEF ServerTypeOK
<1>6. HandlersMatch'
  BY <1>1, <1>4 DEF HandlersMatch, HandlerMatches, ServerTypeOK
<1>7. ClientInv'
  BY <1>1, ClientInvStutter
<1>8. JobGoneOnlyIfEnded'
  BY <1>1, <1>4, JobsKept, SameRequests DEF ApiInv, clientVars
<1> QED
  BY <1>4, <1>5, <1>6, <1>7, <1>8 DEF ApiInv

\* A crash takes handlers and docker goroutines with it, a restart brings
\* none back; neither touches what Kubernetes or Cloud Controller know.
LEMMA ProcessInv ==
  ASSUME ApiInv, Crash \/ Restart
  PROVE  ApiInv'
<1>1. /\ ServerTypeOK /\ HandlersMatch /\ ClientInv
      /\ UNCHANGED <<clientVars, told, req, reply>>
      /\ Cancelled' = Cancelled
  BY SameRequests DEF ApiInv, Crash, Restart
<1>2. Reported' = Reported
  BY <1>1 DEF Reported
<1>3. \A th \in Threads :
        /\ pc'[th] = pc[th] \/ (pc[th] \in Waiting /\ pc'[th] = "aborted")
        /\ docker'[th] # "none" => docker[th] # "none"
  BY <1>1 DEF Crash, Restart, ServerTypeOK
<1>4. ServerTypeOK'
  <2>1. CASE Crash
    <3>1. pc' \in [Threads -> Waiting \cup {"idle", "done", "aborted"}]
      BY <1>1, <2>1 DEF Crash, ServerTypeOK
    <3>2. docker' \in [Threads -> {"none", "sleeping", "done", "lost"}]
      BY <1>1, <2>1 DEF Crash, ServerTypeOK
    <3>3. up' = FALSE /\ space' = space
      BY <2>1 DEF Crash
    <3> QED
      BY <1>1, <3>1, <3>2, <3>3 DEF ServerTypeOK
  <2>2. CASE Restart
    BY <1>1, <2>2 DEF Restart, ServerTypeOK
  <2> QED
    BY <2>1, <2>2
<1>5. HandlersMatch'
  BY <1>1, <1>2, <1>3 DEF HandlersMatch, HandlerMatches
<1>6. ClientInv'
  BY <1>1, ClientInvStutter
<1>7. JobGoneOnlyIfEnded'
  BY <1>1, <1>2, JobsKept, SameRequests DEF ApiInv, clientVars
<1> QED
  BY <1>4, <1>5, <1>6, <1>7 DEF ApiInv

LEMMA ApiInvInit == ApiInit => ApiInv
<1> SUFFICES ASSUME ApiInit PROVE ApiInv
  OBVIOUS
<1>1. ServerTypeOK
  BY DEF ApiInit, CcInit, ServerTypeOK
<1>2. ClientInv
  BY ClientInvInit DEF ApiInit
<1>3. HandlersMatch
  BY DEF ApiInit, HandlersMatch, HandlerMatches
<1>4. JobGoneOnlyIfEnded
  BY DEF ApiInit, ClientInit, JobGoneOnlyIfEnded
<1> QED
  BY <1>1, <1>2, <1>3, <1>4 DEF ApiInv

LEMMA ApiInvStutter ==
  ASSUME ApiInv, UNCHANGED apiVars
  PROVE  ApiInv'
<1>1. /\ ServerTypeOK' /\ HandlersMatch'
      /\ Completed' = Completed /\ Cancelled' = Cancelled
  BY DEF ApiInv, apiVars, serverVars, ServerTypeOK, HandlersMatch,
         HandlerMatches, Reported, Completed, Cancelled
<1>2. ClientInv'
  BY ClientInvStutter DEF ApiInv, apiVars
<1>3. JobGoneOnlyIfEnded'
  BY <1>1, JobsKept DEF ApiInv, apiVars, clientVars
<1> QED
  BY <1>1, <1>2, <1>3 DEF ApiInv

LEMMA ApiInvNext ==
  ASSUME ApiInv, [ApiNext]_apiVars
  PROVE  ApiInv'
<1>1. ASSUME NEW th \in Threads, NEW r \in Requests, Called(th, r)
      PROVE  ApiInv'
  BY <1>1, CalledInv
<1>2. ASSUME NEW th \in Threads, Handle(th)
      PROVE  ApiInv'
  BY <1>2, StageStepInv, CompleteTellCCInv, DeleteInv, StopGetTaskInv
  DEF Handle
<1>3. ASSUME NEW th \in Threads, DockerComplete(th)
      PROVE  ApiInv'
  BY <1>3, DockerCompleteInv
<1>4. CASE Crash \/ Restart
  BY <1>4, ProcessInv
<1>5. CASE UNCHANGED apiVars
  BY <1>5, ApiInvStutter
<1> QED
  BY <1>1, <1>2, <1>3, <1>4, <1>5 DEF ApiNext

-----------------------------------------------------------------------------

\* The invariant holds for any requests, threads, spaces and faults.
THEOREM ApiInvariance == ApiSpec => []ApiInv
<1>1. ApiInit => ApiInv
  BY ApiInvInit
<1>2. ApiInv /\ [ApiNext]_apiVars => ApiInv'
  BY ApiInvNext
<1> QED
  BY <1>1, <1>2, PTL DEF ApiSpec

\* The variables of the server keep their types: in particular every guid the
\* server reports is one a request named, and every handler is where its
\* request can take it.
THEOREM ApiTypeCorrect == ApiSpec => []ApiTypeOK
<1>1. ApiInv => ApiTypeOK
  <2> SUFFICES ASSUME ApiInv PROVE ApiTypeOK
    OBVIOUS
  <2>1. Requests \subseteq AllRequests
    BY RequestsAssumption
  <2> QED
    BY <2>1 DEF ApiInv, ServerTypeOK, ClientInv, ApiTypeOK
<1> QED
  BY <1>1, ApiInvariance, PTL

\* A job that was created and is gone was stopped at somebody's request, or a
\* completion sent to its guid was passed on to Cloud Controller first:
\* whatever is in the bodies of the completions, whatever handlers, crashes,
\* lost answers and changes of namespace interleave, and however many.
THEOREM NoJobLostSilently == ApiSpec => []JobGoneOnlyIfEnded
<1>1. ApiInv => JobGoneOnlyIfEnded
  BY DEF ApiInv
<1> QED
  BY <1>1, ApiInvariance, PTL

-----------------------------------------------------------------------------
(***************************************************************************)
(* For the modules that compose the server with others.                    *)
(***************************************************************************)

\* What a call does to its thread, and to the others.
LEMMA CalledEffect ==
  ASSUME NEW th \in Threads, NEW r \in Requests, Called(th, r), ServerTypeOK
  PROVE  /\ pc'[th] # "idle" /\ req'[th] = r /\ told' = told
         /\ \A t \in Threads \ {th} :
              /\ pc'[t] = pc[t] /\ req'[t] = req[t]
              /\ reply'[t] = reply[t] /\ docker'[t] = docker[t]
  BY DEF Called, StageCalled, CompleteCalled, StopCalled, Receive, Goto, Answer,
         ServerTypeOK

\* A handler in progress, or its goroutine, works on its own thread.
LEMMA HandleEffect ==
  ASSUME NEW th \in Threads, Handle(th) \/ DockerComplete(th), ServerTypeOK
  PROVE  /\ pc[th] \in Waiting \/ docker[th] = "sleeping"
         /\ pc[th] # "idle" <=> pc'[th] # "idle"
         /\ req' = req
         /\ \A d \in told' :
              \/ d \in told
              \/ /\ d.sender = th
                 /\ d.payload = "result" =>
                      pc[th] = "tellCC" /\ d.guid = req[th].task
         /\ \A t \in Threads \ {th} :
              /\ pc'[t] = pc[t]
              /\ reply'[t] = reply[t] /\ docker'[t] = docker[t]
<1> USE DEF Goto, Answer, ServerTypeOK, Waiting
<1>1. CASE StageGetNamespace(th) \/ StageCreateNamespace(th)
  BY <1>1 DEF StageGetNamespace, StageCreateNamespace
<1>2. CASE StageStartStaging(th)
  BY <1>2 DEF StageStartStaging
<1>3. CASE StopGetTask(th) \/ StopDeleteTask(th) \/ CompleteDeleteJob(th)
  BY <1>3 DEF StopGetTask, StopDeleteTask, CompleteDeleteJob
<1>4. CASE CompleteTellCC(th)
  BY <1>4 DEF CompleteTellCC, StagingComplete
<1>5. CASE DockerComplete(th)
  BY <1>5 DEF DockerComplete, StagingComplete
<1> QED BY <1>1, <1>2, <1>3, <1>4, <1>5 DEF Handle

=============================================================================
