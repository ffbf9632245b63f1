------------------------- MODULE StagingSystemProofs -------------------------
(***************************************************************************)
(* The whole system: the stager in it is a StagerApi, so that what is      *)
(* proved there holds here; and Cloud Controller is told of no success     *)
(* that did not happen.                                                    *)
(*                                                                         *)
(* NoFalseSuccess is not inductive.  A result is traced back to its pod:   *)
(* the pod posts only after its builder has run, the handler works on what *)
(* the pod posted, and no two of them share a thread.                      *)
(***************************************************************************)
EXTENDS StagingSystem, StagerAnswersProofs, StagingContractProofs,
        FiniteSetTheorems

PodsTypeOK == pods \in [PodIds -> PodRecords \cup {NoPod}]

\* p was started for the guid, and its builder has run to the end.
Built(p, g) == pods[p] # NoPod /\ pods[p].job.task = g /\ pods[p].built

\* The script posts when its builder has succeeded, and not before.
PostsWhenBuilt ==
  \A p \in PodIds :
    pods[p].phase \in {"uploading", "posting", "waiting"} => pods[p].built

\* A request a script makes: guid and task come from one environment.
PostedBy(p, r) == r.op = "complete" /\ r.guid = r.task /\ Built(p, r.task)

\* A handler runs for Cloud Controller's request, or for the pod's own.
HandlersServe ==
  /\ \A th \in CcThreads : pc[th] # "idle" => req[th] = CcRequest[th]
  /\ \A p \in PodIds : pc[p] # "idle" => PostedBy(p, req[p])

\* Each result came from a pod that was built.
ResultsFromPods ==
  \A d \in told :
    d.payload = "result" => d.sender \in PodIds /\ Built(d.sender, d.guid)

SystemInv ==
  /\ ApiInv
  /\ PodsTypeOK
  /\ PostsWhenBuilt
  /\ HandlersServe
  /\ ResultsFromPods

-----------------------------------------------------------------------------

\* The parts of a pod (a job's pod, in Kubernetes).
LEMMA PodFields ==
  ASSUME PodsTypeOK, NEW p \in PodIds
  PROVE  /\ pods[p].phase # "unused" => pods[p] # NoPod
         /\ pods[p] # NoPod => /\ pods[p].job \in JobRecords
                              /\ pods[p].built \in BOOLEAN
                              /\ pods[p].phase # "unused"
  BY DEF PodsTypeOK, PodRecords, NoPod, Phases, Running

\* What a pod posts is a request the server is modelled for.
LEMMA PostedRequest ==
  ASSUME PodsTypeOK, NEW p \in PodIds, pods[p] # NoPod
  PROVE  CompletionOf(pods[p].job) \in Requests
  BY PodFields, SystemAssumption

\* Every step of the system is a step of StagerApi, or none to it.
LEMMA SystemStepIsApiStep ==
  PodsTypeOK /\ [SystemNext]_systemVars => [ApiNext]_apiVars
<1> SUFFICES ASSUME PodsTypeOK, [SystemNext]_systemVars
             PROVE  [ApiNext]_apiVars
  OBVIOUS
<1>1. ASSUME NEW th \in CcThreads, Called(th, CcRequest[th])
      PROVE  ApiNext
  BY <1>1, SystemAssumption DEF ApiNext, CcThreads
<1>2. ASSUME NEW th \in Threads, Handle(th) \/ DockerComplete(th)
      PROVE  ApiNext
  BY <1>2 DEF ApiNext
<1>3. ASSUME NEW p \in PodIds, RunScript(p)
      PROVE  [ApiNext]_apiVars
  <2>1. ASSUME pods[p].phase = "posting", Called(p, CompletionOf(pods[p].job))
        PROVE  ApiNext
    BY <2>1, PodFields, PostedRequest, SystemAssumption DEF ApiNext
  <2> QED BY <1>3, <2>1 DEF RunScript, PostCompletion, FinishScript
<1>4. CASE UNCHANGED systemVars
  BY <1>4 DEF systemVars
<1> QED BY <1>1, <1>2, <1>3, <1>4 DEF SystemNext, ApiNext

BuiltKept == \A q \in PodIds : \A g : Built(q, g) => Built(q, g)'

\* A step of one pod that has started.
LEMMA OnePod ==
  ASSUME PodsTypeOK, PostsWhenBuilt, NEW p \in PodIds, pods[p] # NoPod,
         NEW r \in PodRecords, r.job = pods[p].job, pods[p].built => r.built,
         r.phase \in {"uploading", "posting", "waiting"} => r.built,
         pods' = [pods EXCEPT ![p] = r]
  PROVE  PodsTypeOK' /\ PostsWhenBuilt' /\ BuiltKept
<1>1. r # NoPod
  BY DEF PodRecords, NoPod, Phases, Running
<1> QED BY <1>1 DEF PodsTypeOK, PostsWhenBuilt, BuiltKept, Built

\* Pods keep their job, and what they have built; they go on to post only when
\* they have built.
LEMMA PodsChange ==
  ASSUME PodsTypeOK, PostsWhenBuilt, jobs \subseteq JobRecords,
         \/ \E p \in PodIds : RunScript(p) \/ PodLost(p)
         \/ ControlJobs
  PROVE  PodsTypeOK' /\ PostsWhenBuilt' /\ BuiltKept
<1> USE DEF PodsTypeOK, PostsWhenBuilt, BuiltKept, Built, PodRecords, NoPod,
            Phases, Running, Enter
<1>1. ASSUME NEW p \in PodIds, RunScript(p)
      PROVE  PodsTypeOK' /\ PostsWhenBuilt' /\ BuiltKept
  <2>1. CASE Download(p)
    BY <2>1 DEF Download
  <2>2. CASE Build(p)
    <3>1. pods[p] # NoPod
      BY <2>2 DEF Build
    <3>2. CASE Enter(p, "exited")
      <4> DEFINE r == [pods[p] EXCEPT !.phase = "exited"]
      <4>1. pods' = [pods EXCEPT ![p] = r]
        BY <3>2
      <4>2. r \in PodRecords /\ r.job = pods[p].job /\ r.built = pods[p].built
            /\ r.phase = "exited"
        BY <3>1
      <4> HIDE DEF r
      <4> QED BY <3>1, <4>1, <4>2, OnePod
    <3>3. CASE pods' = [pods EXCEPT ![p].phase = "uploading", ![p].built = TRUE]
      <4> DEFINE r == [pods[p] EXCEPT !.phase = "uploading", !.built = TRUE]
      <4>1. pods' = [pods EXCEPT ![p] = r]
        BY <3>3
      <4>2. r \in PodRecords /\ r.job = pods[p].job /\ r.built
        BY <3>1
      <4> HIDE DEF r
      <4> QED BY <3>1, <4>1, <4>2, OnePod
    <3> QED BY <2>2, <3>2, <3>3 DEF Build
  <2>3. CASE Upload(p)
    <3>1. PICK arrived \in BOOLEAN :
            pods' = [pods EXCEPT ![p].phase = "posting", ![p].uploaded = arrived]
      BY <2>3 DEF Upload
    <3> DEFINE r == [pods[p] EXCEPT !.phase = "posting", !.uploaded = arrived]
    <3>2. pods[p] # NoPod /\ pods[p].built
      BY <2>3 DEF Upload
    <3>3. pods' = [pods EXCEPT ![p] = r]
      BY <3>1
    <3>4. r \in PodRecords /\ r.job = pods[p].job /\ r.built
      BY <3>2
    <3> HIDE DEF r
    <3> QED BY <3>2, <3>3, <3>4, OnePod
  <2>4. CASE PostCompletion(p)
    BY <2>4 DEF PostCompletion
  <2>5. CASE FinishScript(p)
    BY <2>5 DEF FinishScript
  <2> QED BY <1>1, <2>1, <2>2, <2>3, <2>4, <2>5 DEF RunScript
<1>2. ASSUME NEW p \in PodIds, PodLost(p)
      PROVE  PodsTypeOK' /\ PostsWhenBuilt' /\ BuiltKept
  BY <1>2 DEF PodLost, Evict, CollectPod
<1>3. ASSUME NEW p \in PodIds, NEW j \in jobs, StartPod(p, j)
      PROVE  PodsTypeOK' /\ PostsWhenBuilt' /\ BuiltKept
  BY <1>3 DEF StartPod
<1> QED BY <1>1, <1>2, <1>3 DEF ControlJobs

\* No pod, no handler, nothing told.
LEMMA InitSystemInv == SystemInit => SystemInv
<1> SUFFICES ASSUME SystemInit PROVE SystemInv
  OBVIOUS
<1>1. ApiInv
  BY ApiInvInit DEF SystemInit
<1>2. PodsTypeOK /\ PostsWhenBuilt
  BY DEF SystemInit, ScriptInit, PodsTypeOK, PostsWhenBuilt, NoPod
<1>3. HandlersServe /\ ResultsFromPods
  BY SystemAssumption
  DEF SystemInit, ApiInit, CcInit, HandlersServe, ResultsFromPods, CcThreads
<1> QED BY <1>1, <1>2, <1>3 DEF SystemInv

\* A handler that is called, for Cloud Controller or for a pod, works on the
\* request it was called with.
LEMMA CalledServes ==
  ASSUME SystemInv, NEW th \in Threads, NEW r \in Requests, Called(th, r),
         th \in CcThreads => r = CcRequest[th],
         th \in PodIds => PostedBy(th, r),
         BuiltKept
  PROVE  HandlersServe' /\ ResultsFromPods'
<1>1. ServerTypeOK
  BY DEF SystemInv, ApiInv
<1>2. /\ req'[th] = r /\ told' = told
      /\ \A t \in Threads \ {th} : pc'[t] = pc[t] /\ req'[t] = req[t]
  BY <1>1, CalledEffect
<1> QED
  BY <1>2, SystemAssumption
  DEF SystemInv, HandlersServe, PostedBy, ResultsFromPods, BuiltKept,
      CcThreads

\* A handler tells Cloud Controller what its pod posted.
LEMMA HandleServes ==
  ASSUME SystemInv, NEW th \in Threads, Handle(th) \/ DockerComplete(th),
         UNCHANGED pods
  PROVE  HandlersServe' /\ ResultsFromPods'
<1>1. ServerTypeOK /\ HandlersMatch
  BY DEF SystemInv, ApiInv
<1>2. /\ pc[th] # "idle" <=> pc'[th] # "idle"
      /\ req' = req
      /\ \A d \in told' :
           \/ d \in told
           \/ /\ d.sender = th
              /\ d.payload = "result" =>
                   pc[th] = "tellCC" /\ d.guid = req[th].task
      /\ \A t \in Threads \ {th} : pc'[t] = pc[t]
  BY <1>1, HandleEffect
<1>3. pc[th] = "tellCC" => th \in PodIds
  BY <1>1, SystemAssumption
  DEF HandlersMatch, HandlerMatches, SystemInv, HandlersServe, PostedBy,
      CcThreads
<1> QED
  BY <1>2, <1>3, SystemAssumption
  DEF SystemInv, HandlersServe, PostedBy, ResultsFromPods, Built, CcThreads

\* Every step of the system keeps its invariant.
LEMMA SystemKeepsInv == SystemInv /\ [SystemNext]_systemVars => SystemInv'
<1> SUFFICES ASSUME SystemInv, [SystemNext]_systemVars
             PROVE  SystemInv'
  OBVIOUS
<1>1. ApiInv'
  BY SystemStepIsApiStep, ApiInvNext DEF SystemInv
<1>2. ServerTypeOK /\ jobs \subseteq JobRecords
  BY DEF SystemInv, ApiInv, ClientInv, ClientTypeOK
<1>3. UNCHANGED pods => PodsTypeOK' /\ PostsWhenBuilt' /\ BuiltKept
  BY DEF SystemInv, PodsTypeOK, PostsWhenBuilt, BuiltKept, Built
<1>4. BuiltKept /\ UNCHANGED apiVars => HandlersServe' /\ ResultsFromPods'
  BY DEF SystemInv, HandlersServe, PostedBy, ResultsFromPods, BuiltKept,
         apiVars, serverVars
<1>5. ASSUME NEW th \in CcThreads, Called(th, CcRequest[th]), UNCHANGED pods
      PROVE  SystemInv'
  BY <1>1, <1>3, <1>5, CalledServes, SystemAssumption
  DEF SystemInv, CcThreads
<1>6. ASSUME NEW th \in Threads, Handle(th) \/ DockerComplete(th),
             UNCHANGED pods
      PROVE  SystemInv'
  BY <1>1, <1>3, <1>6, HandleServes DEF SystemInv
<1>7. ASSUME NEW p \in PodIds, RunScript(p)
      PROVE  SystemInv'
  <2>1. PodsTypeOK' /\ PostsWhenBuilt' /\ BuiltKept
    BY <1>2, <1>7, PodsChange DEF SystemInv
  <2>2. CASE UNCHANGED apiVars
    BY <1>1, <1>4, <2>1, <2>2 DEF SystemInv
  <2>3. CASE PostCompletion(p) /\ ~UNCHANGED apiVars
    <3>1. pods[p].phase = "posting" /\ Called(p, CompletionOf(pods[p].job))
      BY <2>3 DEF PostCompletion
    <3>2. pods[p] # NoPod /\ Built(p, pods[p].job.task)
      BY <3>1, PodFields DEF SystemInv, PostsWhenBuilt, Built
    <3>3. CompletionOf(pods[p].job) \in Requests
      BY <3>2, PostedRequest DEF SystemInv
    <3> QED
      BY <1>1, <2>1, <3>1, <3>2, <3>3, CalledServes, SystemAssumption
      DEF SystemInv, CompletionOf, PostedBy, CcThreads
  <2> QED BY <1>7, <2>2, <2>3 DEF RunScript, FinishScript
<1>8. CASE (\E p \in PodIds : PodLost(p)) /\ UNCHANGED apiVars
  BY <1>1, <1>2, <1>4, <1>8, PodsChange DEF SystemInv
<1>9. CASE ControlJobs /\ UNCHANGED apiVars
  BY <1>1, <1>2, <1>4, <1>9, PodsChange DEF SystemInv
<1>10. CASE (Crash \/ Restart) /\ UNCHANGED pods
  <2>1. UNCHANGED <<req, told>>
        /\ \A th \in Threads : pc'[th] # "idle" => pc[th] # "idle"
    BY <1>2, <1>10 DEF Crash, Restart, Waiting, ServerTypeOK
  <2>2. HandlersServe' /\ ResultsFromPods'
    BY <1>10, <2>1, SystemAssumption
    DEF SystemInv, HandlersServe, PostedBy, ResultsFromPods, Built, CcThreads
  <2> QED BY <1>1, <1>3, <1>10, <2>2 DEF SystemInv
<1>11. CASE UNCHANGED systemVars
  BY <1>1, <1>3, <1>4, <1>11 DEF systemVars, SystemInv
<1> QED
  BY <1>5, <1>6, <1>7, <1>8, <1>9, <1>10, <1>11 DEF SystemNext

\* The invariant holds throughout, whatever fairness.
LEMMA SystemInvariant == SystemSpec => []SystemInv
<1>1. SystemInv /\ [SystemNext]_systemVars => SystemInv'
  BY SystemKeepsInv
<1> QED BY <1>1, InitSystemInv, PTL DEF SystemSpec

-----------------------------------------------------------------------------

\* In the whole system, too, the variables keep their types.
THEOREM SystemTypeCorrect == SystemSpec => []SystemTypeOK
<1>1. SystemInv => SystemTypeOK
  BY RequestsAssumption
  DEF SystemInv, ApiInv, ServerTypeOK, ClientInv, ApiTypeOK, SystemTypeOK,
      PodsTypeOK
<1> QED BY <1>1, SystemInvariant, PTL

\* The stager in the system is a StagerApi: the pods and Cloud Controller are
\* clients like any others.
THEOREM SystemImplementsApi == SystemSpec => ApiSpec
<1>1. SystemInit => ApiInit
  BY DEF SystemInit
<1>2. SystemInv => PodsTypeOK
  BY DEF SystemInv
<1> QED
  BY <1>1, <1>2, SystemStepIsApiStep, SystemInvariant, PTL
  DEF SystemSpec, ApiSpec

\* So the whole system keeps the promise of StagingContract, as Cloud
\* Controller and the pods, and not any client, use the server.
THEOREM SystemImplementsContract == SystemSpec => ImplementsContract
BY SystemImplementsApi, ServerImplementsContract

\* And what the handlers promise holds in it: no job is lost silently, every
\* answer is true, no guid is staged twice at once, and what was accepted has
\* somebody to bring it to its end.
THEOREM SystemKeepsPromises ==
  SystemSpec => /\ []JobGoneOnlyIfEnded
                /\ []AnswersAreTrue
                /\ []NoDoubleStaging
                /\ []AcceptedIsHeld
BY SystemImplementsApi, NoJobLostSilently, AnswersAlwaysTrue,
   NeverStagedTwiceAtOnce, AcceptedIsAlwaysHeld

\* And with completions that come from pods only, whose script has one guid
\* for the path and the body, it is the job's own task that was reported
\* before its job went, unless somebody stopped it.
THEOREM NoJobLostUntold ==
  SystemSpec => [](\A j \in created \ jobs : j.task \in Reported \cup Cancelled)
<1>1. SystemInv => Completed \subseteq Reported
  <2> SUFFICES ASSUME SystemInv, NEW th \in Threads, req[th].op = "complete",
                      req[th].task \in Reported
               PROVE  req[th].guid \in Reported
    BY DEF Completed
  <2>1. pc[th] # "idle"
    BY NoRequestFields DEF SystemInv, ApiInv, HandlersMatch, HandlerMatches
  <2>2. th \in PodIds
    BY <2>1, SystemAssumption DEF SystemInv, HandlersServe, CcThreads
  <2> QED BY <2>1, <2>2 DEF SystemInv, HandlersServe, PostedBy
<1>2. SystemInv =>
        \A j \in created \ jobs : j.task \in Reported \cup Cancelled
  BY <1>1 DEF SystemInv, ApiInv, JobGoneOnlyIfEnded
<1> QED BY <1>2, SystemInvariant, PTL

\* Cloud Controller is never told of a success that did not happen, whatever
\* fails, is lost or is restarted, and however many pods and requests there are.
THEOREM NeverFalseSuccess == SystemSpec => []NoFalseSuccess
<1>1. SystemInv => NoFalseSuccess
  BY DEF SystemInv, ResultsFromPods, NoFalseSuccess, Reported, Built
<1> QED BY <1>1, SystemInvariant, PTL

-----------------------------------------------------------------------------
(***************************************************************************)
(* How often Cloud Controller hears of a staging.  A pod tells it once, so *)
(* pods are counted: a guid has one job, and a job has one pod at a time.  *)
(***************************************************************************)

\* If th is a stage, it has made its call to StartStaging.
PastStaging(th) ==
  pc[th] \notin {"idle", "getNamespace", "createNamespace", "startStaging"}

JobsStaged ==
  \A j \in created : \E th \in CcThreads : StagedBy(th, j.task) /\ PastStaging(th)

OneJobEach == \A j, k \in created : j.task = k.task => j = k

PodsOfJobs == \A p \in PodIds : pods[p] # NoPod => pods[p].job \in created

CollectedGone ==
  \A p \in PodIds : pods[p].phase = "collected" => pods[p].job \notin jobs

OnePodLeft ==
  \A p, q \in PodIds :
    /\ pods[p] # NoPod /\ pods[q] # NoPod
    /\ pods[p].job = pods[q].job
    /\ pods[p].phase # "evicted" /\ pods[q].phase # "evicted"
    => p = q

CountInv ==
  /\ SystemInv
  /\ JobsStaged
  /\ OneJobEach
  /\ PodsOfJobs
  /\ CollectedGone
  /\ OnePodLeft

\* A step of the server makes the job of a stage that had made none, or takes
\* jobs away, or neither.
LEMMA JobsChange ==
  ASSUME ApiInv, [ApiNext]_apiVars
  PROVE  /\ \A t \in Threads : PastStaging(t) => PastStaging(t)'
         /\ \/ created' = created /\ jobs' \subseteq jobs
            \/ \E t \in Threads, j \in JobRecords :
                 /\ created' = created \cup {j}
                 /\ jobs' = jobs \cup {j}
                 /\ req[t].op = "stage" /\ j.task = req[t].guid
                 /\ pc[t] = "startStaging" /\ PastStaging(t)'
<1>1. ServerTypeOK /\ HandlersMatch
  BY DEF ApiInv
<1> USE DEF PastStaging, clientVars
<1>2. ASSUME NEW th \in Threads, NEW r \in Requests, Called(th, r)
      PROVE  /\ UNCHANGED <<created, jobs>>
             /\ pc[th] = "idle"
             /\ \A t \in Threads \ {th} : pc'[t] = pc[t]
  BY <1>1, <1>2, CalledEffect
  DEF Called, StageCalled, CompleteCalled, StopCalled, Receive
<1>3. ASSUME NEW th \in Threads, StageStartStaging(th)
      PROVE  /\ pc[th] = "startStaging" /\ pc'[th] \in {"aborted", "done"}
             /\ \/ UNCHANGED <<created, jobs>>
                \/ /\ req[th].guid \in TaskGuids
                   /\ created' = created \cup {NewJob(req[th].guid, space)}
                   /\ jobs' = jobs \cup {NewJob(req[th].guid, space)}
  BY <1>1, <1>3, ReplyEffect
  DEF StageStartStaging, StartStaging, Goto, Answer, ServerTypeOK
<1>4. ASSUME NEW th \in Threads, Handle(th), ~StageStartStaging(th)
      PROVE  /\ created' = created /\ jobs' \subseteq jobs
             /\ PastStaging(th) => PastStaging(th)'
  <2>1. CASE StageGetNamespace(th) \/ StageCreateNamespace(th)
    BY <2>1 DEF StageGetNamespace, StageCreateNamespace, GetStagingNamespace,
                CreateStagingNamespace
  <2>2. CASE CompleteTellCC(th) \/ CompleteDeleteJob(th)
    BY <1>1, <2>2
    DEF CompleteTellCC, CompleteDeleteJob, StopStaging, Goto, Answer,
        ServerTypeOK
  <2>3. CASE StopGetTask(th) \/ StopDeleteTask(th)
    BY <1>1, <2>3
    DEF StopGetTask, StopDeleteTask, GetStagingTask, StopStaging, Goto, Answer,
        ServerTypeOK
  <2> QED BY <1>4, <2>1, <2>2, <2>3 DEF Handle
<1>5. ASSUME NEW th \in Threads, Handle(th)
      PROVE  \A t \in Threads \ {th} : pc'[t] = pc[t]
  BY <1>1, <1>5, HandleEffect
<1>6. ASSUME NEW th \in Threads, DockerComplete(th)
      PROVE  UNCHANGED <<created, jobs, pc>>
  BY <1>6 DEF DockerComplete
<1>7. CASE Crash \/ Restart
  BY <1>1, <1>7 DEF Crash, Restart, Waiting, ServerTypeOK
<1>8. CASE UNCHANGED apiVars
  BY <1>8 DEF apiVars, serverVars
<1>9. ASSUME NEW th \in Threads, StageStartStaging(th)
      PROVE  \/ created' = created /\ jobs' \subseteq jobs
             \/ \E j \in JobRecords :
                  /\ created' = created \cup {j}
                  /\ jobs' = jobs \cup {j}
                  /\ req[th].op = "stage" /\ j.task = req[th].guid
  <2>1. req[th].op = "stage" /\ space \in Spaces
    BY <1>1, <1>3, <1>9
    DEF HandlersMatch, HandlerMatches, ServerTypeOK
  <2> QED BY <1>3, <1>9, <2>1, NewJobFields
<1>10. ASSUME NEW th \in Threads, Handle(th)
       PROVE  /\ \A t \in Threads : PastStaging(t) => PastStaging(t)'
              /\ \/ created' = created /\ jobs' \subseteq jobs
                 \/ \E j \in JobRecords :
                      /\ created' = created \cup {j}
                      /\ jobs' = jobs \cup {j}
                      /\ req[th].op = "stage" /\ j.task = req[th].guid
                      /\ pc[th] = "startStaging" /\ PastStaging(th)'
  BY <1>3, <1>4, <1>5, <1>9, <1>10
<1> QED BY <1>2, <1>6, <1>7, <1>8, <1>10 DEF ApiNext

\* A job is made for a guid that never had one.
LEMMA NewJobIsFirst ==
  ASSUME CountInv, NEW t \in Threads, NEW j \in JobRecords,
         req[t].op = "stage", j.task = req[t].guid, pc[t] = "startStaging"
  PROVE  /\ t \in CcThreads /\ StagedBy(t, j.task)
         /\ \A k \in created : k.task # j.task
<1>1. t \in CcThreads /\ req[t] = CcRequest[t]
  BY DEF CountInv, SystemInv, HandlersServe, PostedBy, CcThreads
<1>2. StagedBy(t, j.task)
  BY <1>1 DEF StagedBy
<1>3. ASSUME NEW k \in created, k.task = j.task
      PROVE  FALSE
  <2>1. PICK u \in CcThreads : StagedBy(u, j.task) /\ PastStaging(u)
    BY <1>3 DEF CountInv, JobsStaged
  <2>2. u = t
    BY <1>1, <1>2, <2>1, SystemAssumption DEF StagedBy
  <2> QED BY <2>1, <2>2 DEF PastStaging
<1> QED BY <1>1, <1>2, <1>3

\* A step of the server keeps the counts: a new job has no pods yet.
LEMMA ServerKeepsCount ==
  ASSUME CountInv, [ApiNext]_apiVars, UNCHANGED pods, SystemInv'
  PROVE  CountInv'
<1>1. ApiInv /\ CcThreads \subseteq Threads
  BY DEF CountInv, SystemInv, CcThreads
<1>2. \A t \in CcThreads : PastStaging(t) => PastStaging(t)'
  BY <1>1, JobsChange
<1>3. CASE created' = created /\ jobs' \subseteq jobs
  BY <1>2, <1>3
  DEF CountInv, JobsStaged, OneJobEach, PodsOfJobs, CollectedGone, OnePodLeft
<1>4. ASSUME NEW t \in Threads, NEW j \in JobRecords,
             created' = created \cup {j}, jobs' = jobs \cup {j},
             req[t].op = "stage", j.task = req[t].guid,
             pc[t] = "startStaging", PastStaging(t)'
      PROVE  CountInv'
  <2>1. /\ t \in CcThreads /\ StagedBy(t, j.task)
        /\ \A k \in created : k.task # j.task
    BY <1>4, NewJobIsFirst
  <2>2. JobsStaged' /\ OneJobEach'
    BY <1>2, <1>4, <2>1 DEF CountInv, JobsStaged, OneJobEach, StagedBy
  <2>3. PodsOfJobs' /\ OnePodLeft'
    BY <1>4 DEF CountInv, PodsOfJobs, OnePodLeft
  <2>4. CollectedGone'
    BY <1>4, <2>1, PodFields
    DEF CountInv, SystemInv, PodsOfJobs, CollectedGone
  <2> QED BY <2>2, <2>3, <2>4 DEF CountInv
<1> QED BY <1>1, <1>3, <1>4, JobsChange

\* Pods come one at a time, and never back.
LEMMA PodsKeepCount ==
  ASSUME CountInv, SystemInv', UNCHANGED <<jobs, created>>,
         \A t \in CcThreads : PastStaging(t) => PastStaging(t)',
         \/ \E p \in PodIds : RunScript(p) \/ PodLost(p)
         \/ ControlJobs
  PROVE  CountInv'
<1>1. JobsStaged' /\ OneJobEach'
  BY DEF CountInv, JobsStaged, OneJobEach
<1>2. PodsTypeOK /\ PodsTypeOK' /\ jobs \subseteq created
  BY DEF CountInv, SystemInv, ApiInv, ClientInv
<1>3. ASSUME NEW p \in PodIds, RunScript(p) \/ PodLost(p)
      PROVE  PodsOfJobs' /\ CollectedGone' /\ OnePodLeft'
  <2>1. /\ pods[p] # NoPod /\ pods'[p] # NoPod
        /\ pods'[p].job = pods[p].job
        /\ pods[p].phase # "evicted"
        /\ pods'[p].phase = "collected" => pods[p].job \notin jobs
        /\ \A q \in PodIds \ {p} : pods'[q] = pods[q]
    <3>1. pods[p] # NoPod /\ pods[p].phase # "evicted"
      <4>1. CASE RunScript(p)
        <5>1. CASE Download(p) \/ Build(p)
          BY <5>1 DEF Download, Build, NoPod
        <5>2. CASE Upload(p)
          BY <5>2 DEF Upload, NoPod
        <5>3. CASE PostCompletion(p) \/ FinishScript(p)
          BY <5>3 DEF PostCompletion, FinishScript, NoPod
        <5> QED BY <4>1, <5>1, <5>2, <5>3 DEF RunScript
      <4>2. CASE PodLost(p)
        BY <4>2 DEF PodLost, Evict, CollectPod, Running, NoPod
      <4> QED BY <1>3, <4>1, <4>2
    <3>2. pods[p] \in PodRecords
      BY <1>2, <3>1 DEF PodsTypeOK
    <3>3. ASSUME NEW x, Enter(p, x), x # "unused",
                 x = "collected" => pods[p].job \notin jobs
          PROVE  /\ pods'[p] # NoPod /\ pods'[p].job = pods[p].job
                 /\ pods'[p].phase = "collected" => pods[p].job \notin jobs
                 /\ \A q \in PodIds \ {p} : pods'[q] = pods[q]
      BY <1>2, <3>2, <3>3 DEF Enter, PodsTypeOK, PodRecords, NoPod
    <3>4. CASE Download(p) \/ PostCompletion(p) \/ FinishScript(p) \/ PodLost(p)
      BY <1>2, <3>1, <3>3, <3>4
      DEF Download, PostCompletion, FinishScript, PodLost, Evict, CollectPod
    <3>5. CASE Build(p)
      <4>1. CASE Enter(p, "exited")
        BY <1>2, <3>1, <3>3, <4>1
      <4>2. CASE pods' = [pods EXCEPT ![p].phase = "uploading", ![p].built = TRUE]
        BY <1>2, <3>1, <3>2, <4>2 DEF PodsTypeOK, PodRecords, NoPod
      <4> QED BY <3>5, <4>1, <4>2 DEF Build
    <3>6. CASE Upload(p)
      <4>1. PICK arrived \in BOOLEAN :
              pods' = [pods EXCEPT ![p].phase = "posting",
                                   ![p].uploaded = arrived]
        BY <3>6 DEF Upload
      <4> QED BY <1>2, <3>1, <3>2, <4>1 DEF PodsTypeOK, PodRecords, NoPod
    <3> QED BY <1>3, <3>4, <3>5, <3>6 DEF RunScript
  <2> QED BY <2>1 DEF CountInv, PodsOfJobs, CollectedGone, OnePodLeft
<1>4. ASSUME NEW p \in PodIds, NEW j \in jobs, StartPod(p, j)
      PROVE  PodsOfJobs' /\ CollectedGone' /\ OnePodLeft'
  <2>1. /\ pods[p] = NoPod /\ pods'[p].job = j
        /\ pods'[p].phase = "downloading"
        /\ \A q \in PodIds \ {p} : pods'[q] = pods[q]
    BY <1>2, <1>4 DEF StartPod, PodsTypeOK
  <2>2. \A q \in PodIds :
          pods[q] # NoPod /\ pods[q].job = j => pods[q].phase = "evicted"
    BY <1>2, <1>4
    DEF StartPod, LivePods, CountInv, CollectedGone, PodsTypeOK, PodRecords,
        Phases
  <2> QED BY <1>2, <2>1, <2>2 DEF CountInv, PodsOfJobs, CollectedGone, OnePodLeft
<1> QED BY <1>1, <1>3, <1>4 DEF CountInv, ControlJobs

\* Every step of the system keeps the counts.
LEMMA SystemKeepsCount == CountInv /\ [SystemNext]_systemVars => CountInv'
<1> SUFFICES ASSUME CountInv, [SystemNext]_systemVars
             PROVE  CountInv'
  OBVIOUS
<1>1. SystemInv' /\ ApiInv /\ [ApiNext]_apiVars
  BY SystemKeepsInv, SystemStepIsApiStep DEF CountInv, SystemInv
<1>2. \A t \in CcThreads : PastStaging(t) => PastStaging(t)'
  BY <1>1, JobsChange DEF CcThreads
<1>3. CASE UNCHANGED pods
  BY <1>1, <1>3, ServerKeepsCount
<1>4. CASE /\ UNCHANGED <<jobs, created>>
           /\ \/ \E p \in PodIds : RunScript(p) \/ PodLost(p)
              \/ ControlJobs
  BY <1>1, <1>2, <1>4, PodsKeepCount
<1>5. ASSUME NEW p \in PodIds, RunScript(p)
      PROVE  UNCHANGED <<jobs, created>>
  BY <1>5
  DEF RunScript, PostCompletion, FinishScript, apiVars, clientVars, Called,
      StageCalled, CompleteCalled, StopCalled, Receive
<1>6. CASE UNCHANGED systemVars
  BY <1>3, <1>6 DEF systemVars
<1> QED
  BY <1>3, <1>4, <1>5, <1>6 DEF SystemNext, apiVars, clientVars

\* Cloud Controller is told by one pod more than were lost, at most.
LEMMA TellingsCounted == CountInv => ReportsAccountedFor
<1> SUFFICES ASSUME CountInv, NEW g \in Guids
             PROVE  Cardinality(Tellings(g)) <=
                      1 + Cardinality({p \in Evicted : pods[p].job.task = g})
  BY DEF ReportsAccountedFor
<1> DEFINE T == Tellings(g)
           P == {p \in PodIds : pods[p] # NoPod /\ pods[p].job.task = g}
           E == {p \in Evicted : pods[p].job.task = g}
           N == {p \in P : pods[p].phase # "evicted"}
           f == [d \in T |-> d.sender]
<1>1. IsFiniteSet(PodIds) /\ P \subseteq PodIds /\ E \subseteq PodIds
  BY SystemAssumption DEF Evicted
<1>2. /\ IsFiniteSet(P) /\ IsFiniteSet(E) /\ IsFiniteSet(N)
      /\ Cardinality(P) \in Nat /\ Cardinality(E) \in Nat
      /\ Cardinality(N) \in Nat
  <2>1. N \in SUBSET PodIds /\ P \in SUBSET PodIds /\ E \in SUBSET PodIds
    BY <1>1
  <2> HIDE DEF P, E, N
  <2> QED BY <1>1, <2>1, FS_Subset, FS_CardinalityType
<1>3. Cardinality(T) \in Nat /\ Cardinality(T) <= Cardinality(P)
  <2>1. \A d \in T : d.sender \in P
    BY DEF CountInv, SystemInv, ResultsFromPods, Built, Tellings
  <2>2. \A d, e \in T : d.sender = e.sender => d = e
    BY DEF CountInv, SystemInv, ApiInv, ServerTypeOK, Completions, Tellings
  <2>3. f \in Injection(T, P)
    BY <2>1, <2>2 DEF Injection, IsInjective
  <2> HIDE DEF T, P, f
  <2> QED BY <1>2, <2>3, FS_Injection, FS_CardinalityType
<1>4. Cardinality(N) <= 1
  <2>1. \A p, q \in N : p = q
    <3>1. \A p \in N : pods[p].job \in created
      BY DEF CountInv, PodsOfJobs
    <3> QED BY <3>1 DEF CountInv, OneJobEach, OnePodLeft
  <2>2. CASE N = {}
    BY <2>2, FS_EmptySet
  <2>3. CASE N # {}
    <3>1. PICK p \in N : TRUE
      BY <2>3
    <3>2. N = {p}
      BY <2>1, <3>1
    <3>3. Cardinality({p}) = 1
      BY FS_Singleton
    <3> HIDE DEF N
    <3> QED BY <3>2, <3>3
  <2> QED BY <2>2, <2>3
<1>5. Cardinality(P) <= Cardinality(E) + Cardinality(N)
  <2>1. P \subseteq E \cup N
    BY DEF Evicted
  <2>2. /\ IsFiniteSet(E \cup N) /\ IsFiniteSet(E \cap N)
        /\ Cardinality(E \cup N) =
             Cardinality(E) + Cardinality(N) - Cardinality(E \cap N)
        /\ Cardinality(E \cap N) \in Nat /\ Cardinality(E \cup N) \in Nat
    <3>1. E \cap N \in SUBSET E
      OBVIOUS
    <3> HIDE DEF E, N
    <3> QED BY <1>2, <3>1, FS_Union, FS_Subset, FS_CardinalityType
  <2>3. Cardinality(P) <= Cardinality(E \cup N)
    <3> HIDE DEF P, E, N
    <3> QED BY <2>1, <2>2, FS_Subset
  <2> HIDE DEF P, E, N
  <2> QED BY <1>2, <2>2, <2>3
<1> HIDE DEF T, P, E, N
<1>6. Cardinality(T) <= 1 + Cardinality(E)
  BY <1>2, <1>3, <1>4, <1>5
<1> QED BY <1>6 DEF T, E

\* No job, no pod.
LEMMA InitCountInv == SystemInit => CountInv
<1> SUFFICES ASSUME SystemInit PROVE CountInv
  OBVIOUS
<1>1. created = {} /\ \A p \in PodIds : pods[p] = NoPod
  BY DEF SystemInit, ApiInit, ClientInit, ScriptInit
<1> QED
  BY <1>1, InitSystemInv
  DEF CountInv, JobsStaged, OneJobEach, PodsOfJobs, CollectedGone,
      OnePodLeft, NoPod

\* The counts hold throughout, whatever fairness.
LEMMA CountInvariant == SystemSpec => []CountInv
<1>1. CountInv /\ [SystemNext]_systemVars => CountInv'
  BY SystemKeepsCount
<1> QED BY <1>1, InitCountInv, PTL DEF SystemSpec

\* Cloud Controller hears of a staging once, and once more for every pod that
\* is lost, at most: whatever else fails, crashes or is answered too late.
THEOREM ReportsAlwaysAccountedFor == SystemSpec => []ReportsAccountedFor
BY CountInvariant, TellingsCounted, PTL

-----------------------------------------------------------------------------
(***************************************************************************)
(* What is left behind.  A job that is gone stays gone, as no guid has     *)
(* another one; so it is enough that the thread of a pod, which serves a   *)
(* completion made from the pod's own job, cannot get to the answer 200    *)
(* with the job there, nor, when only pods fail, to any answer.            *)
(***************************************************************************)

OnlyPodsFail == Faults \subseteq {"evict", "upload"}

\* A pod posts what its own job gave it.
PodServes ==
  \A p \in PodIds :
    pc[p] # "idle" => pods[p] # NoPod /\ req[p] = CompletionOf(pods[p].job)

NothingDies == OnlyPodsFail => up /\ \A p \in PodIds : pc[p] # "aborted"

\* The pod has been through all of it.
Through(p) ==
  \/ reply[p] = 200
  \/ OnlyPodsFail /\ (pc[p] = "done" \/ pods[p].phase = "exited")

ThroughGone ==
  \A p \in PodIds : Through(p) => pods[p] # NoPod /\ pods[p].job \notin jobs

GoneInv ==
  /\ CountInv
  /\ UnansweredYet
  /\ PodServes
  /\ NothingDies
  /\ ThroughGone

\* A job that is gone stays gone.
LEMMA GoneForGood ==
  ASSUME CountInv, [ApiNext]_apiVars, NEW j \in created, j \notin jobs
  PROVE  j \notin jobs'
BY JobsChange, NewJobIsFirst DEF CountInv, SystemInv

\* A started pod keeps its job.
PodsKeepJobs ==
  \A p \in PodIds :
    pods[p] # NoPod => pods'[p] # NoPod /\ pods'[p].job = pods[p].job

\* So it does whatever its script and Kubernetes do.
LEMMA JobsOfPods ==
  ASSUME PodsTypeOK,
         \/ \E p \in PodIds : RunScript(p) \/ PodLost(p)
         \/ ControlJobs
  PROVE  PodsKeepJobs
<1> USE DEF PodsTypeOK, PodsKeepJobs
<1>1. ASSUME NEW p \in PodIds, NEW x \in Phases, Enter(p, x)
      PROVE  PodsKeepJobs
  BY <1>1 DEF Enter, PodRecords, NoPod
<1>2. ASSUME NEW p \in PodIds, Build(p)
      PROVE  PodsKeepJobs
  BY <1>1, <1>2 DEF Build, PodRecords, NoPod, Phases
<1>3. ASSUME NEW p \in PodIds, Upload(p)
      PROVE  PodsKeepJobs
  <2>1. PICK arrived \in BOOLEAN :
          pods' = [pods EXCEPT ![p].phase = "posting", ![p].uploaded = arrived]
    BY <1>3 DEF Upload
  <2> QED BY <2>1 DEF PodRecords, NoPod
<1>4. ASSUME NEW p \in PodIds, Download(p) \/ PostCompletion(p)
                               \/ FinishScript(p) \/ PodLost(p)
      PROVE  PodsKeepJobs
  BY <1>1, <1>4 DEF Download, PostCompletion, FinishScript, PodLost, Evict,
                    CollectPod, Phases, Running
<1>5. ASSUME NEW p \in PodIds, NEW j \in jobs, StartPod(p, j)
      PROVE  PodsKeepJobs
  BY <1>5 DEF StartPod
<1> QED BY <1>2, <1>3, <1>4, <1>5 DEF RunScript, ControlJobs

\* Deleting with the guid and the space of a job, the stager deletes that job,
\* or it was gone, unless the call fails.
LEMMA DeletesOwn ==
  ASSUME ClientInv, NEW j \in created, NEW err,
         StopStaging(j.task, j.space, err),
         err = "nil" \/ "k8s" \notin Faults
  PROVE  j \notin jobs'
<1>1. /\ j \in JobRecords /\ j = NewJob(j.task, j.space)
      /\ j.task \in TaskGuids /\ j.space \in Spaces
  BY DEF ClientInv, ClientTypeOK, JobsAreNewJobs, JobRecords
<1>2. /\ j.namespace = formatStagingNamespace(j.space)
      /\ j.name = ShortenedGuid[j.task]
  BY <1>1, NewJobFields
<1>3. CASE j \in jobs
  <2>1. j \in JobsNamed(formatStagingNamespace(j.space), ShortenedGuid[j.task])
    BY <1>2, <1>3 DEF JobsNamed
  <2> QED BY <1>1, <2>1 DEF StopStaging, CallFails
<1>4. CASE j \notin jobs
  BY <1>4 DEF StopStaging
<1> QED BY <1>3, <1>4

\* A handler serves its pod to the end, or answers that it could not.
LEMMA HandledThrough ==
  ASSUME GoneInv, NEW p \in PodIds, Handle(p), UNCHANGED pods
  PROVE  /\ OnlyPodsFail => pc'[p] # "aborted"
         /\ Through(p)' => pods[p] # NoPod /\ pods[p].job \notin jobs'
<1>1. /\ ServerTypeOK /\ HandlersMatch /\ ClientInv /\ p \in Threads
      /\ PodsTypeOK /\ jobs \subseteq created /\ UnansweredYet
  BY SystemAssumption
  DEF GoneInv, CountInv, SystemInv, ApiInv, ClientInv
<1>2. pc[p] \in Waiting
  BY DEF Handle, StageGetNamespace, StageCreateNamespace, StageStartStaging,
         CompleteTellCC, CompleteDeleteJob, StopGetTask, StopDeleteTask,
         Waiting
<1>3. pods[p] # NoPod /\ req[p] = CompletionOf(pods[p].job)
  BY <1>2 DEF GoneInv, PodServes, Waiting
<1>4. pods[p].job \in created /\ reply[p] # 200
  BY <1>1, <1>2, <1>3
  DEF GoneInv, CountInv, PodsOfJobs, UnansweredYet, NoReply
<1>5. CompleteTellCC(p) \/ CompleteDeleteJob(p)
  <2>1. req[p].op = "complete"
    BY <1>3 DEF CompletionOf
  <2>2. pc[p] \in {"tellCC", "deleteJob"}
    BY <1>1, <1>2, <2>1 DEF HandlersMatch, HandlerMatches, Waiting
  <2> QED
    BY <2>2 DEF Handle, StageGetNamespace, StageCreateNamespace,
                StageStartStaging, StopGetTask, StopDeleteTask
<1>6. ASSUME OnlyPodsFail, pods[p].phase = "exited"
      PROVE  pods[p].job \notin jobs'
  <2>1. pods[p].job \notin jobs
    BY <1>6 DEF GoneInv, ThroughGone, Through
  <2>2. ApiNext
    BY <1>1 DEF ApiNext
  <2> QED BY <1>4, <2>1, <2>2, GoneForGood DEF GoneInv
<1>7. CASE CompleteTellCC(p)
  <2>1. PICK err \in CcErrors :
          /\ StagingComplete(req[p].task, "result", p, err)
          /\ \/ err = "nil" /\ Goto(p, "deleteJob")
             \/ err = "badResponse" /\ Answer(p, 400)
             \/ err = "unavailable" /\ Answer(p, 503)
    BY <1>7 DEF CompleteTellCC
  <2>2. OnlyPodsFail => err = "nil"
    BY <2>1 DEF StagingComplete, OnlyPodsFail
  <2>3. reply'[p] # 200 /\ pc'[p] # "aborted"
        /\ (OnlyPodsFail => pc'[p] = "deleteJob")
    BY <1>1, <1>4, <2>1, <2>2 DEF Goto, Answer, ServerTypeOK
  <2> QED BY <1>3, <1>6, <2>3 DEF Through
<1>8. CASE CompleteDeleteJob(p)
  <2>1. PICK err \in Errors :
          /\ StopStaging(req[p].guid, req[p].space, err)
          /\ Answer(p, IF err = "nil" THEN 200 ELSE 503)
    BY <1>8 DEF CompleteDeleteJob
  <2>2. /\ reply'[p] = 200 => err = "nil"
        /\ pc'[p] # "aborted"
    BY <1>1, <2>1 DEF Answer, ServerTypeOK
  <2>3. OnlyPodsFail => "k8s" \notin Faults
    BY DEF OnlyPodsFail
  <2>4. StopStaging(pods[p].job.task, pods[p].job.space, err)
    BY <1>3, <2>1 DEF CompletionOf
  <2>5. err = "nil" \/ OnlyPodsFail => pods[p].job \notin jobs'
    BY <1>1, <1>4, <2>3, <2>4, DeletesOwn
  <2> QED BY <1>3, <2>2, <2>5 DEF Through
<1> QED BY <1>5, <1>7, <1>8

\* What a pod does by itself: when only pods fail, its script ends after the
\* answer, and not before.
LEMMA PodsEndThrough ==
  ASSUME GoneInv, NEW q \in PodIds, OnlyPodsFail,
         \/ \E p \in PodIds : RunScript(p) \/ PodLost(p)
         \/ ControlJobs
  PROVE  pods'[q].phase = "exited" => Through(q)
<1>1. PodsTypeOK /\ {"build", "k8s", "cc"} \cap Faults = {}
  BY DEF GoneInv, CountInv, SystemInv, OnlyPodsFail
<1>2. pods[q].phase = "exited" => Through(q)
  BY DEF Through
<1>3. ASSUME NEW p \in PodIds, NEW x, Enter(p, x), x # "exited"
      PROVE  pods'[q].phase = "exited" => Through(q)
  BY <1>1, <1>2, <1>3 DEF Enter, PodsTypeOK, PodRecords, NoPod
<1>4. ASSUME NEW p \in PodIds, RunScript(p)
      PROVE  pods'[q].phase = "exited" => Through(q)
  <2>1. CASE Download(p)
    BY <1>1, <1>3, <2>1 DEF Download
  <2>2. CASE Build(p)
    BY <1>1, <1>2, <2>2 DEF Build, PodsTypeOK, PodRecords, NoPod
  <2>3. CASE Upload(p)
    BY <1>1, <1>2, <2>3 DEF Upload, PodsTypeOK, PodRecords, NoPod
  <2>4. CASE PostCompletion(p)
    BY <1>1, <1>3, <2>4 DEF PostCompletion, GoneInv, NothingDies
  <2>5. CASE FinishScript(p)
    <3>1. pc[p] = "done" /\ Enter(p, "exited")
      BY <1>1, <2>5 DEF FinishScript, GoneInv, NothingDies
    <3>2. Through(p)
      BY <3>1 DEF Through
    <3> QED BY <1>1, <1>2, <3>1, <3>2 DEF Enter, PodsTypeOK
  <2> QED BY <1>4, <2>1, <2>2, <2>3, <2>4, <2>5 DEF RunScript
<1>5. ASSUME NEW p \in PodIds, PodLost(p)
      PROVE  pods'[q].phase = "exited" => Through(q)
  BY <1>3, <1>5 DEF PodLost, Evict, CollectPod
<1>6. ASSUME NEW p \in PodIds, NEW j \in jobs, StartPod(p, j)
      PROVE  pods'[q].phase = "exited" => Through(q)
  BY <1>1, <1>2, <1>6 DEF StartPod, PodsTypeOK
<1> QED BY <1>4, <1>5, <1>6 DEF ControlJobs

\* Every step of the system keeps it.
LEMMA SystemKeepsGone ==
  GoneInv /\ UnansweredYet' /\ [SystemNext]_systemVars => GoneInv'
<1> SUFFICES ASSUME GoneInv, UnansweredYet', [SystemNext]_systemVars
             PROVE  GoneInv'
  OBVIOUS
<1>1. /\ CountInv /\ CountInv' /\ [ApiNext]_apiVars
      /\ ServerTypeOK /\ PodsTypeOK
  BY SystemKeepsCount, SystemStepIsApiStep
  DEF GoneInv, CountInv, SystemInv, ApiInv
<1>2. PodsKeepJobs
  <2>1. CASE UNCHANGED pods
    BY <2>1 DEF PodsKeepJobs
  <2> QED BY <1>1, <2>1, JobsOfPods DEF SystemNext, systemVars
<1>3. ASSUME NEW p \in PodIds, Through(p)
      PROVE  pods'[p] # NoPod /\ pods'[p].job \notin jobs'
  <2>1. pods[p] # NoPod /\ pods[p].job \notin jobs
    BY <1>3 DEF GoneInv, ThroughGone
  <2>2. pods[p].job \in created
    BY <1>1, <2>1 DEF CountInv, PodsOfJobs
  <2> QED BY <1>1, <1>2, <2>1, <2>2, GoneForGood DEF PodsKeepJobs
<1>4. ASSUME NEW p \in PodIds,
             pc'[p] = pc[p], req'[p] = req[p]
      PROVE  pc'[p] # "idle" =>
               pods'[p] # NoPod /\ req'[p] = CompletionOf(pods'[p].job)
  BY <1>2, <1>4 DEF PodsKeepJobs, GoneInv, PodServes
<1>5. ASSUME \A p \in PodIds : pc'[p] = pc[p] /\ req'[p] = req[p]
                               /\ reply'[p] = reply[p],
             up' = up,
             \/ UNCHANGED pods
             \/ \E p \in PodIds : RunScript(p) \/ PodLost(p)
             \/ ControlJobs
      PROVE  GoneInv'
  <2>1. PodServes' /\ NothingDies'
    BY <1>4, <1>5 DEF PodServes, NothingDies, GoneInv
  <2>2. \A p \in PodIds : Through(p)' => Through(p)
    <3>1. CASE UNCHANGED pods
      BY <1>5, <3>1 DEF Through
    <3>2. CASE (\E p \in PodIds : RunScript(p) \/ PodLost(p)) \/ ControlJobs
      BY <1>5, <3>2, PodsEndThrough DEF Through
    <3> QED BY <1>5, <3>1, <3>2
  <2> QED BY <1>1, <1>3, <2>1, <2>2 DEF GoneInv, ThroughGone
<1>6. ASSUME NEW th \in CcThreads, Called(th, CcRequest[th]), UNCHANGED pods
      PROVE  GoneInv'
  <2>1. up' = up
    BY <1>6 DEF Called, StageCalled, CompleteCalled, StopCalled, Receive
  <2>2. \A p \in PodIds : p \in Threads \ {th}
    BY SystemAssumption DEF CcThreads
  <2>3. CcRequest[th] \in Requests /\ th \in Threads
    BY SystemAssumption DEF CcThreads
  <2> QED BY <1>1, <1>5, <1>6, <2>1, <2>2, <2>3, CalledEffect
<1>7. ASSUME NEW th \in Threads, Handle(th), UNCHANGED pods
      PROVE  GoneInv'
  <2>1. /\ up' = up /\ req' = req
        /\ \A t \in Threads \ {th} : pc'[t] = pc[t] /\ reply'[t] = reply[t]
        /\ pc[th] # "idle" <=> pc'[th] # "idle"
    BY <1>1, <1>7, HandleEffect
    DEF Handle, StageGetNamespace, StageCreateNamespace, StageStartStaging,
        CompleteTellCC, CompleteDeleteJob, StopGetTask, StopDeleteTask
  <2>2. CASE th \notin PodIds
    BY <1>5, <1>7, <2>1, <2>2, SystemAssumption
  <2>3. CASE th \in PodIds
    <3>1. /\ OnlyPodsFail => pc'[th] # "aborted"
          /\ Through(th)' => pods[th] # NoPod /\ pods[th].job \notin jobs'
      BY <1>7, <2>3, HandledThrough
    <3>2. \A p \in PodIds \ {th} : Through(p)' => Through(p)
      BY <1>7, <2>1, SystemAssumption DEF Through
    <3>3. ThroughGone'
      BY <1>3, <1>7, <3>1, <3>2 DEF ThroughGone
    <3>4. PodServes'
      BY <1>7, <2>1, SystemAssumption DEF PodServes, GoneInv
    <3>5. NothingDies'
      BY <2>1, <3>1, SystemAssumption DEF NothingDies, GoneInv
    <3> QED BY <1>1, <3>3, <3>4, <3>5 DEF GoneInv
  <2> QED BY <2>2, <2>3
<1>8. ASSUME NEW th \in Threads, DockerComplete(th), UNCHANGED pods
      PROVE  GoneInv'
  BY <1>5, <1>8 DEF DockerComplete
<1>9. ASSUME NEW p \in PodIds, RunScript(p)
      PROVE  GoneInv'
  <2>1. CASE UNCHANGED apiVars
    BY <1>5, <1>9, <2>1 DEF apiVars, serverVars
  <2>2. CASE PostCompletion(p) /\ ~UNCHANGED apiVars
    <3>1. /\ pods[p].phase = "posting"
          /\ Called(p, CompletionOf(pods[p].job))
          /\ Enter(p, "waiting")
      BY <2>2 DEF PostCompletion
    <3>2. pods[p] # NoPod /\ CompletionOf(pods[p].job) \in Requests
          /\ p \in Threads
      BY <1>1, <3>1, PodFields, PostedRequest, SystemAssumption
    <3>3. CompleteCalled(p, CompletionOf(pods[p].job))
      BY <3>1 DEF Called, StageCalled, StopCalled, CompletionOf
    <3>4. /\ pc'[p] = "tellCC" /\ reply' = reply /\ up' = up
          /\ req'[p] = CompletionOf(pods[p].job)
          /\ \A t \in Threads \ {p} : pc'[t] = pc[t] /\ req'[t] = req[t]
      BY <1>1, <3>2, <3>3 DEF CompleteCalled, Receive, Goto, ServerTypeOK
    <3>5. \A t \in PodIds \ {p} : pods'[t] = pods[t]
      BY <1>1, <3>1 DEF Enter, PodsTypeOK
    <3>6. pods'[p].phase = "waiting"
      BY <1>1, <3>1, <3>2 DEF Enter, PodsTypeOK, PodRecords
    <3>7. \A t \in PodIds : Through(t)' => Through(t)
      BY <3>4, <3>5, <3>6, SystemAssumption DEF Through
    <3>8. PodServes'
      BY <1>2, <1>4, <3>2, <3>4, SystemAssumption DEF PodServes, PodsKeepJobs
    <3>9. NothingDies'
      BY <3>4, SystemAssumption DEF NothingDies, GoneInv
    <3> QED BY <1>1, <1>3, <3>7, <3>8, <3>9 DEF GoneInv, ThroughGone
  <2> QED BY <1>9, <2>1, <2>2 DEF RunScript, FinishScript
<1>10. CASE /\ (\E p \in PodIds : PodLost(p)) \/ ControlJobs
            /\ UNCHANGED apiVars
  BY <1>5, <1>10 DEF apiVars, serverVars
<1>11. CASE Crash /\ UNCHANGED pods
  <2>1. /\ ~OnlyPodsFail /\ reply' = reply /\ req' = req
        /\ \A th \in Threads : pc'[th] # "idle" => pc[th] # "idle"
    <3>1. ~OnlyPodsFail
      BY <1>11 DEF Crash, OnlyPodsFail
    <3> QED BY <1>1, <1>11, <3>1 DEF Crash, ServerTypeOK, Waiting
  <2>2. \A p \in PodIds : Through(p)' => Through(p)
    BY <2>1 DEF Through
  <2>3. PodServes'
    BY <1>11, <2>1, SystemAssumption DEF GoneInv, PodServes
  <2>4. NothingDies'
    BY <2>1 DEF NothingDies, OnlyPodsFail
  <2> QED BY <1>1, <1>3, <2>2, <2>3, <2>4 DEF GoneInv, ThroughGone
<1>12. CASE Restart /\ UNCHANGED pods
  <2>1. PodServes' /\ NothingDies' /\ \A p \in PodIds : Through(p)' => Through(p)
    BY <1>12 DEF Restart, GoneInv, PodServes, NothingDies, Through
  <2> QED BY <1>1, <1>3, <2>1 DEF GoneInv, ThroughGone
<1>13. CASE UNCHANGED systemVars
  BY <1>5, <1>13 DEF systemVars, apiVars, serverVars
<1> QED
  BY <1>6, <1>7, <1>8, <1>9, <1>10, <1>11, <1>12, <1>13 DEF SystemNext

\* The invariant holds throughout.
LEMMA GoneInvariant == SystemSpec => []GoneInv
<1>1. SystemInit => GoneInv
  <2> SUFFICES ASSUME SystemInit PROVE GoneInv
    OBVIOUS
  <2>1. CountInv
    BY InitCountInv
  <2>2. \A th \in Threads : pc[th] = "idle" /\ reply[th] = NoReply
    BY DEF SystemInit, ApiInit
  <2>3. \A p \in PodIds : pods[p].phase # "exited"
    BY DEF SystemInit, ScriptInit, NoPod
  <2>4. up
    BY DEF SystemInit, ApiInit
  <2> QED
    BY <2>1, <2>2, <2>3, <2>4, SystemAssumption
    DEF GoneInv, UnansweredYet, PodServes, NothingDies, ThroughGone, Through,
        NoReply
<1>2. GoneInv /\ UnansweredYet' /\ [SystemNext]_systemVars => GoneInv'
  BY SystemKeepsGone
<1>3. AnswersInv => UnansweredYet
  BY DEF AnswersInv
<1> QED
  BY <1>1, <1>2, <1>3, AnswersInvariance, SystemImplementsApi, PTL
  DEF SystemSpec

\* A script that is answered 200 has left no job behind, and none comes back,
\* whatever fails, crashes or is asked meanwhile.
THEOREM CompletedIsAlwaysGone == SystemSpec => []CompletedIsGone
<1>1. GoneInv => CompletedIsGone
  BY DEF GoneInv, ThroughGone, Through, CompletedIsGone
<1> QED BY <1>1, GoneInvariant, PTL

\* When nothing but pods and uploads fails, a script that has ended has left
\* no job behind.
THEOREM NothingIsLeftBehind == SystemSpec => []NothingLeftBehind
<1>1. GoneInv => NothingLeftBehind
  BY DEF GoneInv, ThroughGone, Through, NothingLeftBehind, OnlyPodsFail
<1> QED BY <1>1, GoneInvariant, PTL

=============================================================================
