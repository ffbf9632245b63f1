------------------------- MODULE StagerAnswersProofs -------------------------
(***************************************************************************)
(* Proofs about what the handlers answer: an answer that promises          *)
(* something is true, and no guid is staged twice at once.                 *)
(*                                                                         *)
(* Both lean on ApiInv.  An answer, once given, stays true because         *)
(* created, Completed and Cancelled only grow; a second stage of a guid is  *)
(* accepted only when the job of the first is gone, and then               *)
(* JobGoneOnlyIfEnded says why, or when it is in another space.            *)
(***************************************************************************)
EXTENDS StagerApiProofs

\* A handler that has not finished has not answered.
UnansweredYet ==
  \A th \in Threads : pc[th] \in Waiting \cup {"idle"} => reply[th] = NoReply

\* A job for the guid was created, in one of the spaces.
HadJob(guid, sp) == \E j \in created : j.task = guid /\ j.space \in sp

AnswerIsTrue(th) ==
  /\ AcceptedStage(th) => HadJob(req[th].guid, Spaces)
  /\ reply[th] = 202 /\ req[th].op = "stop" => HadJob(req[th].guid, Spaces)
  /\ reply[th] = 200 =>
       HadJob(req[th].guid, {req[th].space}) /\ req[th].task \in Reported

AnswersInv ==
  /\ ApiInv
  /\ UnansweredYet
  /\ \A th \in Threads : AnswerIsTrue(th)
  /\ NoDoubleStaging

-----------------------------------------------------------------------------

LEMMA AnswersOneByOne ==
  AnswersAreTrue <=> \A th \in Threads : AnswerIsTrue(th)
BY DEF AnswersAreTrue, AnswerIsTrue, HadJob

\* An answer that was given stays true.
LEMMA AnswerStays ==
  ASSUME NEW th \in Threads, AnswerIsTrue(th),
         created \subseteq created', Reported \subseteq Reported',
         reply'[th] = reply[th], req'[th] = req[th]
  PROVE  AnswerIsTrue(th)'
<1>1. \A g, sp : HadJob(g, sp) => HadJob(g, sp)'
  BY DEF HadJob
<1>2. AcceptedStage(th)' = AcceptedStage(th)
  BY DEF AcceptedStage
<1> QED
  BY <1>1, <1>2 DEF AnswerIsTrue

\* So does NoDoubleStaging, while no more stages are accepted.
LEMMA NoNewStage ==
  ASSUME NoDoubleStaging,
         created \subseteq created', Completed \subseteq Completed',
         Cancelled \subseteq Cancelled',
         \A th \in Threads :
           AcceptedStage(th)' => AcceptedStage(th) /\ req'[th] = req[th]
  PROVE  NoDoubleStaging'
<1> SUFFICES ASSUME NEW t1 \in Threads, NEW t2 \in Threads, t1 # t2,
                    AcceptedStage(t1)', AcceptedStage(t2)',
                    req'[t1].guid = req'[t2].guid
             PROVE  \/ req'[t1].guid \in Completed' \cup Cancelled'
                    \/ \E j, k \in created' : /\ j.task = req'[t1].guid
                                              /\ k.task = req'[t1].guid
                                              /\ j.space # k.space
  BY DEF NoDoubleStaging
<1> QED
  BY DEF NoDoubleStaging

\* Steps of one thread: what is left to show of each, when the stages it
\* accepts have been looked at.
LEMMA OneAnswers ==
  ASSUME AnswersInv, ApiInv', NEW th \in Threads,
         created \subseteq created', Reported \subseteq Reported',
         \A t \in Threads : t # th => /\ pc'[t] = pc[t]
                                     /\ reply'[t] = reply[t]
                                     /\ req'[t] = req[t],
         pc'[th] \in Waiting \cup {"idle"} => reply'[th] = NoReply,
         AnswerIsTrue(th)',
         NoDoubleStaging'
  PROVE  AnswersInv'
<1>1. UnansweredYet'
  BY DEF AnswersInv, UnansweredYet
<1>2. ASSUME NEW t \in Threads PROVE AnswerIsTrue(t)'
  BY AnswerStays DEF AnswersInv
<1> QED
  BY <1>1, <1>2 DEF AnswersInv

\* Steps of one thread that do not answer 200 or 202, or answer 202 to a
\* docker stage: nothing is promised.
LEMMA NothingPromised ==
  ASSUME AnswersInv, ApiInv', NEW th \in Threads,
         created \subseteq created', Reported \subseteq Reported',
         Completed \subseteq Completed', Cancelled \subseteq Cancelled',
         \A t \in Threads : t # th => /\ pc'[t] = pc[t]
                                     /\ reply'[t] = reply[t]
                                     /\ req'[t] = req[t],
         pc'[th] \in Waiting \cup {"idle"} => reply'[th] = NoReply,
         reply'[th] # 200,
         reply'[th] = 202 => /\ req'[th].op = "stage"
                             /\ req'[th].lifecycle # "buildpack"
  PROVE  AnswersInv'
<1>1. ~AcceptedStage(th)'
  BY DEF AcceptedStage
<1>2. AnswerIsTrue(th)'
  BY <1>1 DEF AnswerIsTrue
<1>3. \A t \in Threads :
        AcceptedStage(t)' => AcceptedStage(t) /\ req'[t] = req[t]
  BY <1>1 DEF AcceptedStage
<1>4. NoDoubleStaging'
  BY <1>3, NoNewStage DEF AnswersInv
<1> QED
  BY <1>2, <1>4, OneAnswers

\* What a handler does to the replies and the program counters.
LEMMA ReplyEffect ==
  ASSUME ServerTypeOK, NEW th \in Threads, NEW next, NEW code,
         Goto(th, next) \/ Answer(th, code)
  PROVE  /\ \A t \in Threads : t # th => /\ pc'[t] = pc[t]
                                        /\ reply'[t] = reply[t]
         /\ \/ pc'[th] = next /\ reply'[th] = reply[th]
            \/ pc'[th] = "done" /\ reply'[th] = code
BY DEF Goto, Answer, ServerTypeOK

-----------------------------------------------------------------------------

\* A request comes in: the only promise is to a docker stage.
LEMMA CalledAnswers ==
  ASSUME AnswersInv, NEW th \in Threads, NEW r \in Requests, Called(th, r)
  PROVE  AnswersInv'
<1>1. /\ ServerTypeOK /\ HandlersMatch /\ ApiInv'
      /\ Receive(th, r)
      /\ UNCHANGED <<created, told>>
      /\ pc[th] = "idle" /\ reply[th] = NoReply
      /\ req'[th] = r /\ \A t \in Threads : t # th => req'[t] = req[t]
  BY CalledInv
  DEF AnswersInv, ApiInv, UnansweredYet, ServerTypeOK, clientVars,
      Called, StageCalled, CompleteCalled, StopCalled, Receive
<1>2. /\ Reported' = Reported
      /\ Completed \subseteq Completed' /\ Cancelled \subseteq Cancelled'
  BY <1>1, EndedOnReceive DEF Reported
<1>3. PICK next, code :
        /\ Goto(th, next) \/ Answer(th, code)
        /\ code = 400 \/ (code = 202 /\ r.op = "stage" /\ r.lifecycle = "docker")
  BY DEF Called, StageCalled, CompleteCalled, StopCalled
<1>4. /\ \A t \in Threads : t # th => pc'[t] = pc[t] /\ reply'[t] = reply[t]
      /\ \/ pc'[th] = next /\ reply'[th] = NoReply
         \/ pc'[th] = "done" /\ reply'[th] = code
  BY <1>1, <1>3, ReplyEffect
<1> QED
  BY <1>1, <1>2, <1>3, <1>4, NothingPromised DEF NoReply, Waiting

\* Steps of a handler that promise nothing: all but the last one of each.
LEMMA QuietHandlerAnswers ==
  ASSUME AnswersInv, NEW th \in Threads,
         \/ StageGetNamespace(th) \/ StageCreateNamespace(th)
         \/ CompleteTellCC(th) \/ StopGetTask(th)
  PROVE  AnswersInv'
<1>1. /\ ServerTypeOK /\ HandlersMatch
      /\ pc[th] \in Waiting
      /\ UNCHANGED <<created, req>>
  BY DEF AnswersInv, ApiInv, Waiting, clientVars, StageGetNamespace,
         StageCreateNamespace, CompleteTellCC, StopGetTask,
         GetStagingNamespace, CreateStagingNamespace, GetStagingTask
<1>2. ApiInv'
  BY StageStepInv, CompleteTellCCInv, StopGetTaskInv DEF AnswersInv
<1>3. told \subseteq told'
  BY DEF StageGetNamespace, StageCreateNamespace, CompleteTellCC, StopGetTask,
         StagingComplete
<1>4. PICK next, code :
        /\ Goto(th, next) \/ Answer(th, code)
        /\ code \in {400, 404, 500, 503}
  BY DEF StageGetNamespace, StageCreateNamespace, CompleteTellCC, StopGetTask
<1>5. /\ \A t \in Threads : t # th => pc'[t] = pc[t] /\ reply'[t] = reply[t]
      /\ \/ pc'[th] = next /\ reply'[th] = NoReply
         \/ pc'[th] = "done" /\ reply'[th] = code
  BY <1>1, <1>4, ReplyEffect DEF AnswersInv, UnansweredYet
<1>6. /\ Reported \subseteq Reported'
      /\ Completed \subseteq Completed' /\ Cancelled' = Cancelled
  BY <1>1, <1>3, ReportedGrows, SameRequests
<1> QED
  BY <1>1, <1>2, <1>4, <1>5, <1>6, NothingPromised DEF NoReply, Waiting

\* StartStaging: a stage that is accepted has created a job that was not
\* there.
LEMMA StageStartStagingAnswers ==
  ASSUME AnswersInv, NEW th \in Threads, StageStartStaging(th)
  PROVE  AnswersInv'
<1>1. /\ ServerTypeOK /\ HandlersMatch /\ ClientInv /\ JobGoneOnlyIfEnded
      /\ UNCHANGED <<told, req, space>>
      /\ reply[th] = NoReply
      /\ Reported' = Reported
      /\ Completed' = Completed /\ Cancelled' = Cancelled
  BY SameRequests DEF AnswersInv, ApiInv, UnansweredYet, Waiting,
     StageStartStaging, Reported
<1>2. ApiInv'
  BY StageStepInv DEF AnswersInv
<1>3. created \subseteq created'
  BY DEF StageStartStaging, StartStaging, clientVars
<1>4. CASE Goto(th, "aborted") \/ Answer(th, 500)
  <2>1. /\ \A t \in Threads : t # th => pc'[t] = pc[t] /\ reply'[t] = reply[t]
        /\ \/ pc'[th] = "aborted" /\ reply'[th] = NoReply
           \/ pc'[th] = "done" /\ reply'[th] = 500
    BY <1>1, <1>4, ReplyEffect
  <2> QED
    BY <1>1, <1>2, <1>3, <2>1, NothingPromised DEF NoReply, Waiting
<1>5. CASE StartStaging(req[th].guid, space, "nil") /\ Answer(th, 202)
  <2> DEFINE guid == req[th].guid
             job == NewJob(guid, space)
  <2>1. /\ guid \in TaskGuids /\ space \in Spaces
        /\ JobsNamed(job.namespace, job.name) = {}
        /\ job \in created'
    BY <1>1, <1>5 DEF StartStaging, ServerTypeOK, CallFails, CreateJobRefused
  <2>2. job.task = guid /\ job.space = space
    BY <2>1, NewJobFields
  <2>3. /\ \A t \in Threads : t # th => pc'[t] = pc[t] /\ reply'[t] = reply[t]
        /\ pc'[th] = "done" /\ reply'[th] = 202
    BY <1>1, <1>5, ReplyEffect DEF Answer, ServerTypeOK
  <2>4. AnswerIsTrue(th)'
    BY <1>1, <2>1, <2>2, <2>3 DEF AnswerIsTrue, HadJob, AcceptedStage
  <2>5. ASSUME NEW t \in Threads, t # th, AcceptedStage(t)',
               req[t].guid = guid
        PROVE  \/ guid \in Completed \cup Cancelled
               \/ \E j, k \in created' : /\ j.task = guid
                                         /\ k.task = guid
                                         /\ j.space # k.space
    <3>1. AcceptedStage(t)
      BY <1>1, <2>3, <2>5 DEF AcceptedStage
    <3>2. PICK j \in created : j.task = guid /\ j.space \in Spaces
      BY <2>5, <3>1 DEF AnswersInv, AnswerIsTrue, HadJob
    <3>3. CASE j.space = space
      <4>1. j = job
        BY <1>1, <3>2, <3>3 DEF ClientInv, JobsAreNewJobs
      <4>2. j \notin jobs
        BY <2>1, <4>1 DEF JobsNamed
      <4> QED
        BY <1>1, <3>2, <4>2 DEF JobGoneOnlyIfEnded
    <3>4. CASE j.space # space
      BY <1>3, <2>1, <2>2, <3>2, <3>4
    <3> QED
      BY <3>3, <3>4
  <2>6. NoDoubleStaging'
    <3> SUFFICES ASSUME NEW t1 \in Threads, NEW t2 \in Threads, t1 # t2,
                        AcceptedStage(t1)', AcceptedStage(t2)',
                        req[t1].guid = req[t2].guid
                 PROVE  \/ req[t1].guid \in Completed \cup Cancelled
                        \/ \E j, k \in created' : /\ j.task = req[t1].guid
                                                  /\ k.task = req[t1].guid
                                                  /\ j.space # k.space
      BY <1>1 DEF NoDoubleStaging
    <3>1. CASE t1 = th \/ t2 = th
      BY <2>5, <3>1
    <3>2. CASE t1 # th /\ t2 # th
      <4>1. AcceptedStage(t1) /\ AcceptedStage(t2)
        BY <1>1, <2>3, <3>2 DEF AcceptedStage
      <4> QED
        BY <1>3, <4>1 DEF AnswersInv, NoDoubleStaging
    <3> QED
      BY <3>1, <3>2
  <2> QED
    BY <1>1, <1>2, <1>3, <2>3, <2>4, <2>6, OneAnswers DEF Waiting
<1> QED
  BY <1>4, <1>5 DEF StageStartStaging

\* A deletion that succeeded found the job of the handler's own guid.
LEMMA DeleteAnswers ==
  ASSUME AnswersInv, NEW th \in Threads,
         CompleteDeleteJob(th) \/ StopDeleteTask(th)
  PROVE  AnswersInv'
<1>1. /\ ServerTypeOK /\ HandlersMatch /\ ClientInv
      /\ UNCHANGED <<told, req, space>>
      /\ reply[th] = NoReply
      /\ Reported' = Reported
      /\ Completed' = Completed /\ Cancelled' = Cancelled
  BY SameRequests DEF AnswersInv, ApiInv, UnansweredYet, Waiting,
     CompleteDeleteJob, StopDeleteTask, Reported
<1>2. ApiInv'
  BY DeleteInv DEF AnswersInv
<1>3. UNCHANGED created
  BY DEF CompleteDeleteJob, StopDeleteTask, StopStaging
<1>4. /\ CompleteDeleteJob(th) => /\ req[th].op = "complete"
                                 /\ req[th].space \in Spaces
                                 /\ req[th].task \in Reported
      /\ StopDeleteTask(th) => req[th].op = "stop"
  BY <1>1, NoRequestFields, RequestFields
  DEF HandlersMatch, HandlerMatches, ServerTypeOK, CompleteDeleteJob,
      StopDeleteTask
<1>5. PICK sp \in Spaces, err \in Errors, code \in {200, 202, 500, 503} :
        /\ StopStaging(req[th].guid, sp, err)
        /\ Answer(th, code)
        /\ \/ err # "nil" /\ code \in {500, 503}
           \/ err = "nil" /\ code = 200 /\ CompleteDeleteJob(th)
              /\ sp = req[th].space
           \/ err = "nil" /\ code = 202 /\ StopDeleteTask(th)
  BY <1>1, <1>4 DEF CompleteDeleteJob, StopDeleteTask, ServerTypeOK
<1>6. /\ \A t \in Threads : t # th => pc'[t] = pc[t] /\ reply'[t] = reply[t]
      /\ pc'[th] = "done" /\ reply'[th] = code
  BY <1>1, <1>5 DEF Answer, ServerTypeOK
<1>7. err = "nil" => HadJob(req[th].guid, {sp})'
  <2> SUFFICES ASSUME err = "nil" PROVE HadJob(req[th].guid, {sp})'
    OBVIOUS
  <2>1. NewJob(req[th].guid, sp) \in jobs /\ req[th].guid \in TaskGuids
    BY <1>1, <1>5, StopStagingEffect
  <2>2. NewJob(req[th].guid, sp) \in created'
    BY <1>1, <1>3, <2>1 DEF ClientInv
  <2> QED
    BY <1>1, <2>1, <2>2, NewJobFields DEF HadJob
<1>8. ~AcceptedStage(th)'
  BY <1>1, <1>4, <1>5, <1>6 DEF AcceptedStage
<1>9. AnswerIsTrue(th)'
  <2>1. reply'[th] = 202 => HadJob(req[th].guid, Spaces)'
    BY <1>5, <1>6, <1>7 DEF HadJob
  <2>2. reply'[th] = 200 => /\ HadJob(req[th].guid, {req[th].space})'
                            /\ req[th].task \in Reported
    BY <1>1, <1>4, <1>5, <1>6, <1>7
  <2> QED
    BY <1>1, <1>8, <2>1, <2>2 DEF AnswerIsTrue
<1>10. \A t \in Threads :
         AcceptedStage(t)' => AcceptedStage(t) /\ req'[t] = req[t]
  BY <1>1, <1>6, <1>8 DEF AcceptedStage
<1>11. NoDoubleStaging'
  BY <1>1, <1>3, <1>10, NoNewStage DEF AnswersInv
<1> QED
  BY <1>1, <1>2, <1>3, <1>6, <1>9, <1>11, OneAnswers DEF Waiting

\* Nothing is answered by the docker goroutine, a crash or a restart.
LEMMA SilentAnswers ==
  ASSUME AnswersInv, ApiInv', UNCHANGED <<created, req, reply>>,
         told \subseteq told',
         \A th \in Threads :
           pc'[th] \in Waiting \cup {"idle"} => pc'[th] = pc[th]
  PROVE  AnswersInv'
<1>1. /\ Reported \subseteq Reported'
      /\ Completed \subseteq Completed' /\ Cancelled' = Cancelled
  BY ReportedGrows, SameRequests
<1>2. UnansweredYet'
  BY DEF AnswersInv, UnansweredYet
<1>3. \A th \in Threads : AnswerIsTrue(th)'
  BY <1>1, AnswerStays DEF AnswersInv
<1>4. \A th \in Threads :
        AcceptedStage(th)' => AcceptedStage(th) /\ req'[th] = req[th]
  BY DEF AcceptedStage
<1>5. NoDoubleStaging'
  BY <1>1, <1>4, NoNewStage DEF AnswersInv
<1> QED
  BY <1>2, <1>3, <1>5 DEF AnswersInv

LEMMA AnswersInvInit == ApiInit => AnswersInv
<1> SUFFICES ASSUME ApiInit PROVE AnswersInv
  OBVIOUS
<1>1. ApiInv
  BY ApiInvInit
<1>2. \A th \in Threads : reply[th] = NoReply
  BY DEF ApiInit
<1>3. \A th \in Threads : AnswerIsTrue(th)
  BY <1>2 DEF AnswerIsTrue, AcceptedStage, NoReply
<1>4. UnansweredYet /\ NoDoubleStaging
  BY <1>2 DEF UnansweredYet, NoDoubleStaging, AcceptedStage, NoReply
<1> QED
  BY <1>1, <1>3, <1>4 DEF AnswersInv

LEMMA AnswersInvNext ==
  ASSUME AnswersInv, [ApiNext]_apiVars
  PROVE  AnswersInv'
<1>1. ASSUME NEW th \in Threads, NEW r \in Requests, Called(th, r)
      PROVE  AnswersInv'
  BY <1>1, CalledAnswers
<1>2. ASSUME NEW th \in Threads, Handle(th)
      PROVE  AnswersInv'
  BY <1>2, QuietHandlerAnswers, StageStartStagingAnswers, DeleteAnswers
  DEF Handle
<1>3. ApiInv'
  BY ApiInvNext DEF AnswersInv
<1>4. ASSUME NEW th \in Threads, DockerComplete(th)
      PROVE  AnswersInv'
  <2>1. /\ UNCHANGED <<created, req, reply, pc>>
        /\ told \subseteq told'
    BY <1>4 DEF DockerComplete, StagingComplete, clientVars
  <2> QED
    BY <1>3, <2>1, SilentAnswers
<1>5. CASE Crash \/ Restart
  <2>1. /\ UNCHANGED <<created, req, reply, told>>
        /\ \A th \in Threads :
             pc'[th] \in Waiting \cup {"idle"} => pc'[th] = pc[th]
    BY <1>5 DEF Crash, Restart, clientVars, Waiting
  <2> QED
    BY <1>3, <2>1, SilentAnswers
<1>6. CASE UNCHANGED apiVars
  BY <1>3, <1>6, SilentAnswers DEF apiVars, serverVars, clientVars
<1> QED
  BY <1>1, <1>2, <1>4, <1>5, <1>6 DEF ApiNext

LEMMA AnswersInvariance == ApiSpec => []AnswersInv
<1>1. ApiInit => AnswersInv
  BY AnswersInvInit
<1>2. AnswersInv /\ [ApiNext]_apiVars => AnswersInv'
  BY AnswersInvNext
<1> QED
  BY <1>1, <1>2, PTL DEF ApiSpec

-----------------------------------------------------------------------------

\* Whatever calls fail, crash or race: an accepted stage has created its job,
\* an accepted stop and a completed completion had a job to delete, and the
\* result of a completed completion reached Cloud Controller.
THEOREM AnswersAlwaysTrue == ApiSpec => []AnswersAreTrue
<1>1. AnswersInv => AnswersAreTrue
  BY AnswersOneByOne DEF AnswersInv
<1> QED
  BY <1>1, AnswersInvariance, PTL

\* Two accepted stages of one guid mean that it ended in between, or that the
\* stager was restarted with another namespace.
THEOREM NeverStagedTwiceAtOnce == ApiSpec => []NoDoubleStaging
<1>1. AnswersInv => NoDoubleStaging
  BY DEF AnswersInv
<1> QED
  BY <1>1, AnswersInvariance, PTL

-----------------------------------------------------------------------------
(***************************************************************************)
(* What was accepted is held.                                              *)
(***************************************************************************)

DockerStage(th) == req[th].op = "stage" /\ req[th].lifecycle = "docker"

\* The goroutine is there, has told Cloud Controller, or may have failed.
DockerHeld(th) ==
  \/ docker[th] = "sleeping"
  \/ \E d \in told : d.sender = th
  \/ Faults \cap {"cc", "refuse", "crash"} # {}

\* A docker stage is answered at once: its handler never waits.
DockerInv ==
  \A th \in Threads :
    /\ DockerStage(th) => pc[th] \notin Waiting
    /\ AcceptedDocker(th) => DockerHeld(th)

\* Other threads keep what they have.
LEMMA OthersKeepDocker ==
  ASSUME DockerInv, NEW th \in Threads, told \subseteq told',
         UNCHANGED <<req[th], pc[th], reply[th], docker[th]>>
  PROVE  /\ DockerStage(th)' => pc'[th] \notin Waiting
         /\ AcceptedDocker(th)' => DockerHeld(th)'
BY DEF DockerInv, DockerStage, AcceptedDocker, DockerHeld

\* A docker stage that comes in has its goroutine when it is answered.
LEMMA CalledKeepsDocker ==
  ASSUME ServerTypeOK, UnansweredYet, DockerInv, NEW th \in Threads,
         NEW r \in Requests, Called(th, r)
  PROVE  DockerInv'
<1>1. /\ pc[th] = "idle" /\ reply[th] = NoReply
      /\ req'[th] = r
      /\ UNCHANGED told
      /\ \A t \in Threads : t # th => UNCHANGED <<req[t], pc[t], reply[t], docker[t]>>
  BY DEF Called, StageCalled, CompleteCalled, StopCalled, Receive, Goto, Answer,
         ServerTypeOK, UnansweredYet
<1>2. \/ r.op = "stage" /\ r.lifecycle = "docker"
         /\ docker'[th] = "sleeping" /\ pc'[th] = "done"
      \/ reply'[th] \in {NoReply, 400} /\ ~DockerStage(th)'
  BY <1>1 DEF Called, StageCalled, CompleteCalled, StopCalled, Goto, Answer,
              ServerTypeOK, DockerStage, Lifecycles
<1>3. /\ DockerStage(th)' => pc'[th] \notin Waiting
      /\ AcceptedDocker(th)' => DockerHeld(th)'
  BY <1>2 DEF DockerHeld, AcceptedDocker, DockerStage, Waiting
<1> QED BY <1>1, <1>3, OthersKeepDocker DEF DockerInv

\* No handler that goes on is one of a docker stage.
LEMMA HandleKeepsDocker ==
  ASSUME ServerTypeOK, DockerInv, NEW th \in Threads, Handle(th)
  PROVE  DockerInv'
<1>1. /\ pc[th] \in Waiting
      /\ UNCHANGED <<req, docker>>
      /\ told \subseteq told'
      /\ \A t \in Threads : t # th => UNCHANGED <<pc[t], reply[t]>>
  BY DEF Handle, StageGetNamespace, StageCreateNamespace, StageStartStaging,
         CompleteTellCC, CompleteDeleteJob, StopGetTask, StopDeleteTask, Goto,
         Answer, Waiting, ServerTypeOK, StagingComplete
<1>2. ~DockerStage(th)'
  BY <1>1 DEF DockerInv, DockerStage
<1> QED
  BY <1>1, <1>2, OthersKeepDocker DEF DockerInv, DockerStage, AcceptedDocker

\* The goroutine tells Cloud Controller, or its call fails.
LEMMA DockerCompleteKeepsDocker ==
  ASSUME ServerTypeOK, DockerInv, NEW th \in Threads, DockerComplete(th)
  PROVE  DockerInv'
<1>1. /\ UNCHANGED <<req, pc, reply>>
      /\ told \subseteq told'
      /\ \A t \in Threads : t # th => UNCHANGED docker[t]
  BY DEF DockerComplete, StagingComplete, ServerTypeOK
<1>2. DockerHeld(th)'
  <2> DEFINE payload == IF req[th].data = "bad" THEN "noImage" ELSE "image"
  <2>1. PICK err \in CcErrors :
          StagingComplete(req[th].guid, payload, th, err)
    BY DEF DockerComplete
  <2> DEFINE d == [guid |-> req[th].guid, payload |-> payload, sender |-> th]
  <2>2. CASE told' = told \cup {d}
    <3>1. d \in told' /\ d.sender = th
      BY <2>2
    <3> QED BY <3>1 DEF DockerHeld
  <2>3. CASE Faults \cap {"cc", "refuse"} # {}
    BY <2>3 DEF DockerHeld
  <2> QED BY <2>1, <2>2, <2>3 DEF StagingComplete
<1>3. DockerStage(th)' => pc'[th] \notin Waiting
  BY <1>1 DEF DockerInv, DockerStage
<1> QED BY <1>1, <1>2, <1>3, OthersKeepDocker DEF DockerInv

\* The invariant holds throughout.
LEMMA DockerInvariant == ApiSpec => []DockerInv
<1>1. ApiInit => DockerInv
  BY DEF ApiInit, DockerInv, Waiting, AcceptedDocker, NoReply
<1>2. AnswersInv /\ DockerInv /\ [ApiNext]_apiVars => DockerInv'
  <2> SUFFICES ASSUME AnswersInv, DockerInv, [ApiNext]_apiVars
               PROVE  DockerInv'
    OBVIOUS
  <2>1. ServerTypeOK /\ UnansweredYet
    BY DEF AnswersInv, ApiInv
  <2>2. CASE Crash
    BY <2>1, <2>2
    DEF Crash, DockerInv, DockerStage, AcceptedDocker, DockerHeld, Waiting,
        ServerTypeOK
  <2>3. CASE Restart \/ UNCHANGED apiVars
    BY <2>3, OthersKeepDocker DEF Restart, DockerInv, apiVars, serverVars
  <2> QED
    BY <2>1, <2>2, <2>3, CalledKeepsDocker, HandleKeepsDocker,
       DockerCompleteKeepsDocker
    DEF ApiNext
<1> QED BY <1>1, <1>2, AnswersInvariance, PTL DEF ApiSpec

\* Nothing that was accepted is forgotten, whatever handlers, goroutines and
\* failures interleave.
THEOREM AcceptedIsAlwaysHeld == ApiSpec => []AcceptedIsHeld
<1>1. AnswersInv /\ DockerInv => AcceptedIsHeld
  <2> SUFFICES ASSUME AnswersInv, DockerInv PROVE AcceptedIsHeld
    OBVIOUS
  <2>1. ASSUME NEW th \in Threads, AcceptedStage(th)
        PROVE  \/ req[th].guid \in Completed \cup Cancelled
               \/ \E j \in jobs : j.task = req[th].guid
    <3>1. PICK j \in created : j.task = req[th].guid
      BY <2>1 DEF AnswersInv, AnswerIsTrue, HadJob
    <3> QED BY <3>1 DEF AnswersInv, ApiInv, JobGoneOnlyIfEnded
  <2> QED BY <2>1 DEF AcceptedIsHeld, DockerInv, DockerHeld
<1> QED BY <1>1, AnswersInvariance, DockerInvariant, PTL

=============================================================================
