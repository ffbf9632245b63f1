------------------------ MODULE StagingContractProofs ------------------------
(***************************************************************************)
(* The server implements StagingContract.  Every step of the server is, on *)
(* the contract's variables, one of its steps or a stutter: creating a job *)
(* stages, a call to Cloud Controller completes the stagings whose path it *)
(* came by, a stop request cancels, and a deletion gives up one staging    *)
(* that was completed or cancelled, which is where ApiInv is needed.       *)
(***************************************************************************)
EXTENDS StagerApiProofs

StagingKeys == [task : Guids, space : Spaces]

ContractStep == [Contract!Next]_(Contract!contractVars)

\* The staging a well-formed job stands for.
KeyOf(j) == [task |-> j.task, space |-> j.space]

LEMMA StagedIsKeys == Staged = {KeyOf(j) : j \in jobs}
BY DEF Staged, KeyOf

\* Two jobs with the same key are the same job.
LEMMA KeyDetermines ==
  ASSUME ClientInv, NEW j \in jobs, NEW k,
         k = NewJob(k.task, k.space), KeyOf(j) = KeyOf(k)
  PROVE  j = k
<1>1. j = NewJob(j.task, j.space)
  BY DEF ClientInv, JobsAreNewJobs
<1>2. j.task = k.task /\ j.space = k.space
  BY DEF KeyOf
<1> QED
  BY <1>1, <1>2

LEMMA SameJobsSameStaged ==
  ASSUME jobs' = jobs
  PROVE  Staged' = Staged
BY DEF Staged

\* StartStaging stages what is not staged, or nothing.
LEMMA StartStages ==
  ASSUME ClientInv, NEW id \in Guids, NEW sp \in Spaces, NEW err,
         StartStaging(id, sp, err)
  PROVE  \/ Staged' = Staged
         \/ \E s \in StagingKeys : s \notin Staged /\ Staged' = Staged \cup {s}
<1> DEFINE job == NewJob(id, sp)
<1>1. CASE jobs' = jobs
  BY <1>1, SameJobsSameStaged
<1>2. CASE /\ id \in TaskGuids
           /\ JobsNamed(job.namespace, job.name) = {}
           /\ jobs' = jobs \cup {job}
  <2>1. job.task = id /\ job.space = sp
    BY <1>2, NewJobFields
  <2>2. KeyOf(job) \in StagingKeys
    BY <2>1 DEF KeyOf, StagingKeys
  <2>3. job \notin jobs
    BY <1>2 DEF JobsNamed
  <2>4. job = NewJob(job.task, job.space)
    BY <2>1
  <2>5. KeyOf(job) \notin Staged
    <3> HIDE DEF job
    <3> QED
      BY <2>3, <2>4, KeyDetermines, StagedIsKeys
  <2>6. Staged' = Staged \cup {KeyOf(job)}
    <3> HIDE DEF job
    <3> QED
      BY <1>2 DEF Staged, KeyOf
  <2> QED
    BY <2>2, <2>5, <2>6
<1> QED
  BY <1>1, <1>2 DEF StartStaging

\* StopStaging for a guid that ended gives its staging up, or nothing.
LEMMA StopGivesUp ==
  ASSUME ClientInv, NEW id \in Guids, NEW sp \in Spaces, NEW err,
         StopStaging(id, sp, err)
  PROVE  \/ Staged' = Staged
         \/ \E s \in StagingKeys : /\ s \in Staged
                                   /\ s.task = id
                                   /\ Staged' = Staged \ {s}
<1> DEFINE job == NewJob(id, sp)
<1>1. CASE jobs' = jobs
  BY <1>1, SameJobsSameStaged
<1>2. CASE id \in TaskGuids /\ job \in jobs /\ jobs' = jobs \ {job}
  <2>1. job.task = id /\ job.space = sp
    BY <1>2, NewJobFields
  <2>2. KeyOf(job) \in StagingKeys /\ KeyOf(job).task = id
    BY <2>1 DEF KeyOf, StagingKeys
  <2>3. job = NewJob(job.task, job.space)
    BY <2>1
  <2>4. KeyOf(job) \in Staged
    BY <1>2, StagedIsKeys
  <2>5. \A j \in jobs : KeyOf(j) = KeyOf(job) => j = job
    <3> HIDE DEF job
    <3> QED
      BY <2>3, KeyDetermines
  <2>6. Staged' = {KeyOf(j) : j \in jobs'}
    BY DEF Staged, KeyOf
  <2>7. Staged' = Staged \ {KeyOf(job)}
    <3> HIDE DEF job, KeyOf
    <3> QED
      BY <1>2, <2>5, <2>6, StagedIsKeys
  <2> QED
    BY <2>2, <2>4, <2>7
<1> QED
  BY <1>1, <1>2, StopStagingEffect

-----------------------------------------------------------------------------
(***************************************************************************)
(* Steps of the contract, in terms of the variables of the server.         *)
(***************************************************************************)

LEMMA ContractStutter ==
  ASSUME Staged' = Staged, Completed' = Completed, Cancelled' = Cancelled
  PROVE  ContractStep
BY DEF ContractStep, Contract!contractVars

LEMMA ContractStages ==
  ASSUME NEW s \in StagingKeys, s \notin Staged, Staged' = Staged \cup {s},
         Completed' = Completed, Cancelled' = Cancelled
  PROVE  ContractStep
BY DEF ContractStep, Contract!Next, Contract!Stage, StagingKeys

LEMMA ContractCompletes ==
  ASSUME Completed \subseteq Completed', Completed' \subseteq Guids,
         Staged' = Staged, Cancelled' = Cancelled
  PROVE  ContractStep
<1>1. Contract!Complete(Completed')
  BY DEF Contract!Complete
<1> QED BY <1>1 DEF ContractStep, Contract!Next

LEMMA ContractCancels ==
  ASSUME NEW g \in Guids, Cancelled' = Cancelled \cup {g},
         Staged' = Staged, Completed' = Completed
  PROVE  ContractStep
BY DEF ContractStep, Contract!Next, Contract!Cancel

LEMMA ContractGivesUp ==
  ASSUME NEW s \in StagingKeys, s \in Staged,
         s.task \in Completed \cup Cancelled, Staged' = Staged \ {s},
         Completed' = Completed, Cancelled' = Cancelled
  PROVE  ContractStep
BY DEF ContractStep, Contract!Next, Contract!GiveUp, StagingKeys

-----------------------------------------------------------------------------
(***************************************************************************)
(* Every step of the server is a step of the contract, or a stutter.       *)
(***************************************************************************)

LEMMA CompletedKept ==
  ASSUME told' = told, req' = req
  PROVE  Completed' = Completed
BY DEF Reported, Completed

\* Requests are for guids.
LEMMA CompletedAreGuids ==
  ASSUME ServerTypeOK
  PROVE  Completed \subseteq Guids
BY NoRequestFields, RequestFields DEF Completed, ServerTypeOK

LEMMA CalledRefines ==
  ASSUME ApiInv, NEW th \in Threads, NEW r \in Requests, Called(th, r)
  PROVE  ContractStep
<1>1. Receive(th, r) /\ jobs' = jobs
  BY DEF Called, StageCalled, CompleteCalled, StopCalled, Receive, clientVars
<1>2. Staged' = Staged
  BY <1>1, SameJobsSameStaged
<1>3. \/ Completed' = Completed /\ Cancelled' = Cancelled
      \/ Completed' = Completed /\ Cancelled' = Cancelled \cup {r.guid}
      \/ Completed \subseteq Completed' /\ Cancelled' = Cancelled
  BY <1>1, EndedOnReceive DEF ApiInv
<1>4. r.guid \in Guids
  BY RequestFields
<1>5. Completed' \subseteq Guids
  BY <1>1, <1>3, <1>4, CompletedAreGuids, EndedOnReceive DEF ApiInv
<1> QED
  BY <1>2, <1>3, <1>4, <1>5, ContractStutter, ContractCancels,
     ContractCompletes

LEMMA StageRefines ==
  ASSUME ApiInv, NEW th \in Threads,
         StageGetNamespace(th) \/ StageCreateNamespace(th)
           \/ StageStartStaging(th)
  PROVE  ContractStep
<1>1. Completed' = Completed /\ Cancelled' = Cancelled
  BY SameRequests, CompletedKept
  DEF StageGetNamespace, StageCreateNamespace, StageStartStaging
<1>2. CASE jobs' = jobs
  BY <1>1, <1>2, SameJobsSameStaged, ContractStutter
<1>3. ASSUME NEW err, StartStaging(req[th].guid, space, err),
             pc[th] = "startStaging"
      PROVE  ContractStep
  <2>1. req[th] \in Requests /\ space \in Spaces
    BY <1>3, NoRequestFields
    DEF ApiInv, ServerTypeOK, HandlersMatch, HandlerMatches
  <2>2. req[th].guid \in Guids
    BY <2>1, RequestFields
  <2>3. \/ Staged' = Staged
        \/ \E s \in StagingKeys : s \notin Staged /\ Staged' = Staged \cup {s}
    BY <1>3, <2>1, <2>2, StartStages DEF ApiInv
  <2> QED
    BY <1>1, <2>3, ContractStutter, ContractStages
<1> QED
  BY <1>2, <1>3
  DEF StageGetNamespace, StageCreateNamespace, StageStartStaging,
      GetStagingNamespace, CreateStagingNamespace, clientVars

LEMMA TellRefines ==
  ASSUME ApiInv, NEW th \in Threads, CompleteTellCC(th)
  PROVE  ContractStep
<1>1. Staged' = Staged /\ Cancelled' = Cancelled
  BY SameJobsSameStaged, SameRequests DEF CompleteTellCC, clientVars
<1>2. Completed \subseteq Completed'
  BY SameRequests DEF CompleteTellCC, StagingComplete
<1>3. Completed' \subseteq Guids
  BY NoRequestFields, RequestFields
  DEF ApiInv, ServerTypeOK, CompleteTellCC, Completed
<1> QED
  BY <1>1, <1>2, <1>3, ContractCompletes

LEMMA DeleteRefines ==
  ASSUME ApiInv, NEW th \in Threads,
         CompleteDeleteJob(th) \/ StopDeleteTask(th)
  PROVE  ContractStep
<1>1. Completed' = Completed /\ Cancelled' = Cancelled
  BY CompletedKept, SameRequests DEF CompleteDeleteJob, StopDeleteTask
<1>2. req[th] \in Requests /\ space \in Spaces
  BY NoRequestFields
  DEF ApiInv, ServerTypeOK, HandlersMatch, HandlerMatches,
      CompleteDeleteJob, StopDeleteTask
<1>3. req[th].guid \in Guids
  BY <1>2, RequestFields
<1>4. req[th].guid \in Completed \cup Cancelled
  <2>1. CASE CompleteDeleteJob(th)
    BY <2>1
    DEF ApiInv, HandlersMatch, HandlerMatches, CompleteDeleteJob, Completed
  <2>2. CASE StopDeleteTask(th)
    BY <2>2 DEF ApiInv, HandlersMatch, HandlerMatches, StopDeleteTask, Cancelled
  <2> QED
    BY <2>1, <2>2
<1>5. ASSUME NEW sp \in Spaces, NEW err, StopStaging(req[th].guid, sp, err)
      PROVE  ContractStep
  <2>1. \/ Staged' = Staged
        \/ \E s \in StagingKeys : /\ s \in Staged
                                  /\ s.task = req[th].guid
                                  /\ Staged' = Staged \ {s}
    BY <1>3, <1>5, StopGivesUp DEF ApiInv
  <2> QED
    BY <1>1, <1>4, <2>1, ContractStutter, ContractGivesUp
<1>6. CASE CompleteDeleteJob(th)
  <2>1. req[th].space \in Spaces
    BY <1>2, <1>6, RequestFields
    DEF ApiInv, HandlersMatch, HandlerMatches, CompleteDeleteJob
  <2> QED
    BY <1>5, <1>6, <2>1 DEF CompleteDeleteJob
<1>7. CASE StopDeleteTask(th)
  BY <1>2, <1>5, <1>7 DEF StopDeleteTask
<1> QED
  BY <1>6, <1>7

\* Steps that change neither jobs, requests nor buildpack results.
LEMMA OtherRefines ==
  ASSUME ApiInv,
         \/ \E th \in Threads : StopGetTask(th) \/ DockerComplete(th)
         \/ Crash \/ Restart
         \/ UNCHANGED apiVars
  PROVE  ContractStep
<1>1. Staged' = Staged /\ Cancelled' = Cancelled
  BY SameJobsSameStaged, SameRequests
  DEF StopGetTask, GetStagingTask, DockerComplete, Crash, Restart, apiVars,
      serverVars, clientVars
<1>2. Completed' = Completed
  BY CompletedKept, SameRequests, DockerCompleteInv
  DEF StopGetTask, DockerComplete, Crash, Restart, apiVars, serverVars
<1> QED
  BY <1>1, <1>2, ContractStutter

LEMMA ContractInit == ApiInit => Contract!Init
BY NoRequestFields
DEF ApiInit, ClientInit, CcInit, Contract!Init, Staged, Completed, Cancelled

LEMMA NextRefines ==
  ASSUME ApiInv, [ApiNext]_apiVars
  PROVE  ContractStep
<1>1. ASSUME NEW th \in Threads, NEW r \in Requests, Called(th, r)
      PROVE  ContractStep
  BY <1>1, CalledRefines
<1>2. ASSUME NEW th \in Threads, Handle(th)
      PROVE  ContractStep
  BY <1>2, StageRefines, TellRefines, DeleteRefines, OtherRefines DEF Handle
<1> QED
  BY <1>1, <1>2, OtherRefines DEF ApiNext

\* The server keeps the promise of StagingContract, whatever fails: a staging
\* is there once per space, and is given up, one at a time, only after a
\* completion for it was passed on to Cloud Controller or it was cancelled.
THEOREM ServerImplementsContract == ApiSpec => ImplementsContract
<1>1. ApiInit => Contract!Init
  BY ContractInit
<1>2. ApiInv /\ [ApiNext]_apiVars => [Contract!Next]_(Contract!contractVars)
  BY NextRefines DEF ContractStep
<1> QED
  BY <1>1, <1>2, ApiInvariance, PTL
  DEF ApiSpec, ImplementsContract, Contract!Spec

=============================================================================
