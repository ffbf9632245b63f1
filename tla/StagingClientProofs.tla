------------------------- MODULE StagingClientProofs -------------------------
(***************************************************************************)
(* Proofs about StagingClient.  ClientInv is inductive: whatever the       *)
(* callers do, every job is the one NewJob makes from its own task and     *)
(* space, so its key determines it.                                        *)
(***************************************************************************)
EXTENDS StagingClient, TLAPS

JobsAreNewJobs ==
  \A j \in created : j = NewJob(j.task, j.space)

ClientInv ==
  /\ ClientTypeOK
  /\ JobsAreNewJobs
  /\ jobs \subseteq created

-----------------------------------------------------------------------------

\* A job made for an accepted guid in a space has the fields it was made of
\* (the Job literal in StartStaging).
LEMMA NewJobFields ==
  ASSUME NEW id \in TaskGuids, NEW space \in Spaces
  PROVE  /\ NewJob(id, space) \in JobRecords
         /\ NewJob(id, space).task = id
         /\ NewJob(id, space).space = space
         /\ NewJob(id, space).namespace = formatStagingNamespace(space)
         /\ NewJob(id, space).name = ShortenedGuid[id]
BY TypesAssumption DEF NewJob, JobRecords, Namespaces

\* The namespace of a space determines the space (formatStagingNamespace).
LEMMA FormatInjective ==
  ASSUME NEW s, NEW t,
         formatStagingNamespace(s) = formatStagingNamespace(t)
  PROVE  s = t
BY DEF formatStagingNamespace

\* At most one job answers to an accepted guid in a space, and it is the one
\* made for them: what GetStagingTask finds and StopStaging deletes.
LEMMA JobsNamedOwn ==
  ASSUME ClientInv, NEW id \in TaskGuids, NEW space \in Spaces
  PROVE  JobsNamed(formatStagingNamespace(space), ShortenedGuid[id])
           \subseteq {NewJob(id, space)}
<1> SUFFICES ASSUME NEW j \in jobs,
                    j.namespace = formatStagingNamespace(space),
                    j.name = ShortenedGuid[id]
             PROVE  j = NewJob(id, space)
  BY DEF JobsNamed
<1>1. j \in JobRecords /\ j = NewJob(j.task, j.space)
  BY DEF ClientInv, ClientTypeOK, JobsAreNewJobs
<1>2. j.task \in TaskGuids /\ j.space \in Spaces
  BY <1>1 DEF JobRecords
<1>3. /\ j.namespace = formatStagingNamespace(j.space)
      /\ j.name = ShortenedGuid[j.task]
  BY <1>1, <1>2, NewJobFields
<1>4. j.space = space
  BY <1>3, FormatInjective
<1>5. j.task = id
  BY <1>2, <1>3, TypesAssumption
<1> QED
  BY <1>1, <1>4, <1>5

-----------------------------------------------------------------------------
(***************************************************************************)
(* Every operation preserves ClientInv.                                    *)
(***************************************************************************)

\* Operations that touch namespaces only (CreateStagingNamespace,
\* RemoveStagingNamespace), or nothing.
LEMMA NamespaceStep ==
  ASSUME ClientInv,
         namespaces' \in [Namespaces -> {"absent", "active", "terminating"}],
         UNCHANGED <<jobs, created>>
  PROVE  ClientInv'
BY DEF ClientInv, ClientTypeOK, JobsAreNewJobs

\* Operations that delete jobs keep what is left well formed (StopStaging,
\* and a terminating namespace).
LEMMA DeletionStep ==
  ASSUME ClientInv, jobs' \subseteq jobs, UNCHANGED <<namespaces, created>>
  PROVE  ClientInv'
BY DEF ClientInv, ClientTypeOK, JobsAreNewJobs

LEMMA CreateStagingNamespaceInv ==
  ASSUME ClientInv, NEW space \in Spaces, NEW err,
         CreateStagingNamespace(space, err)
  PROVE  ClientInv'
BY NamespaceStep DEF CreateStagingNamespace, ClientInv, ClientTypeOK, Namespaces

LEMMA RemoveStagingNamespaceInv ==
  ASSUME ClientInv, NEW space \in Spaces, NEW err,
         RemoveStagingNamespace(space, err)
  PROVE  ClientInv'
BY NamespaceStep DEF RemoveStagingNamespace, ClientInv, ClientTypeOK, Namespaces

\* StartStaging creates a job that is new and well formed, or none.
LEMMA StartStagingInv ==
  ASSUME ClientInv, NEW id \in Guids, NEW space \in Spaces, NEW err,
         StartStaging(id, space, err)
  PROVE  ClientInv'
<1>1. CASE UNCHANGED clientVars
  BY <1>1 DEF ClientInv, ClientTypeOK, JobsAreNewJobs, clientVars
<1>2. CASE /\ id \in TaskGuids
           /\ jobs' = jobs \cup {NewJob(id, space)}
           /\ created' = created \cup {NewJob(id, space)}
           /\ UNCHANGED namespaces
  <2>1. NewJob(id, space) \in JobRecords
    BY <1>2, NewJobFields
  <2>2. ClientTypeOK'
    BY <1>2, <2>1 DEF ClientInv, ClientTypeOK
  <2>3. ASSUME NEW j \in created' PROVE j = NewJob(j.task, j.space)
    <3>1. CASE j \in created
      BY <3>1 DEF ClientInv, JobsAreNewJobs
    <3>2. CASE j = NewJob(id, space)
      BY <1>2, <3>2, NewJobFields
    <3> QED
      BY <1>2, <3>1, <3>2
  <2>4. JobsAreNewJobs'
    BY <2>3 DEF JobsAreNewJobs, NewJob
  <2> QED
    BY <1>2, <2>2, <2>4 DEF ClientInv
<1> QED
  BY <1>1, <1>2 DEF StartStaging, clientVars

LEMMA StopStagingInv ==
  ASSUME ClientInv, NEW id, NEW space, NEW err, StopStaging(id, space, err)
  PROVE  ClientInv'
BY DeletionStep DEF StopStaging

LEMMA ClientInvInit == ClientInit => ClientInv
BY DEF ClientInit, ClientInv, ClientTypeOK, JobsAreNewJobs, Namespaces

LEMMA ClientInvStutter ==
  ASSUME ClientInv, UNCHANGED clientVars
  PROVE  ClientInv'
BY NamespaceStep DEF clientVars, ClientInv, ClientTypeOK

LEMMA ClientInvNext ==
  ASSUME ClientInv, [ClientNext]_clientVars
  PROVE  ClientInv'
<1>1. CASE UNCHANGED clientVars
  BY <1>1, ClientInvStutter
<1>2. ASSUME NEW space \in Spaces, NEW err \in Errors,
             CreateStagingNamespace(space, err)
      PROVE  ClientInv'
  BY <1>2, CreateStagingNamespaceInv
<1>3. ASSUME NEW space \in Spaces, NEW err \in Errors,
             RemoveStagingNamespace(space, err)
      PROVE  ClientInv'
  BY <1>3, RemoveStagingNamespaceInv
<1>4. ASSUME NEW space \in Spaces, NEW err \in Errors, NEW exists \in BOOLEAN,
             GetStagingNamespace(space, exists, err)
      PROVE  ClientInv'
  BY <1>4, ClientInvStutter DEF GetStagingNamespace
<1>5. ASSUME NEW space \in Spaces, NEW err \in Errors, NEW id \in Guids,
             StartStaging(id, space, err)
      PROVE  ClientInv'
  BY <1>5, StartStagingInv
<1>6. ASSUME NEW space \in Spaces, NEW err \in Errors, NEW id \in Guids,
             StopStaging(id, space, err)
      PROVE  ClientInv'
  BY <1>6, StopStagingInv
<1>7. ASSUME NEW space \in Spaces, NEW err \in Errors, NEW id \in Guids,
             NEW exists \in BOOLEAN, GetStagingTask(id, space, exists, err)
      PROVE  ClientInv'
  BY <1>7, ClientInvStutter DEF GetStagingTask
<1>8. ASSUME NEW j \in jobs, DeleteContent(j)
      PROVE  ClientInv'
  BY <1>8, DeletionStep DEF DeleteContent
<1>9. ASSUME NEW ns \in Namespaces, FinalizeNamespace(ns)
      PROVE  ClientInv'
  BY <1>9, NamespaceStep DEF FinalizeNamespace, ClientInv, ClientTypeOK
<1> QED
  BY <1>1, <1>2, <1>3, <1>4, <1>5, <1>6, <1>7, <1>8, <1>9 DEF ClientNext

-----------------------------------------------------------------------------

\* The invariant holds however the client is used.
THEOREM ClientInvariance == ClientSpec => []ClientInv
<1>1. ClientInit => ClientInv
  BY ClientInvInit
<1>2. ClientInv /\ [ClientNext]_clientVars => ClientInv'
  BY ClientInvNext
<1> QED
  BY <1>1, <1>2, PTL DEF ClientSpec

\* The variables of the client keep their types.
THEOREM ClientTypeCorrect == ClientSpec => []ClientTypeOK
<1>1. ClientInv => ClientTypeOK
  BY DEF ClientInv
<1> QED
  BY <1>1, ClientInvariance, PTL

\* The job found with a job's own task and space is that job and no other:
\* the completion a pod posts deletes the job the pod belongs to.
THEOREM CallbackFindsOwnJobAlways == ClientSpec => []CallbackFindsOwnJob
<1>1. ASSUME ClientInv, NEW j \in jobs
      PROVE  JobsNamed(formatStagingNamespace(j.space), ShortenedGuid[j.task])
               = {j}
  <2>1. j \in JobRecords /\ j = NewJob(j.task, j.space)
    BY <1>1 DEF ClientInv, ClientTypeOK, JobsAreNewJobs
  <2>2. j.task \in TaskGuids /\ j.space \in Spaces
    BY <2>1 DEF JobRecords
  <2>3. j \in JobsNamed(formatStagingNamespace(j.space), ShortenedGuid[j.task])
    BY <2>1, <2>2, NewJobFields DEF JobsNamed
  <2> QED
    BY <1>1, <2>1, <2>2, <2>3, JobsNamedOwn
<1>2. ClientInv => CallbackFindsOwnJob
  BY <1>1 DEF CallbackFindsOwnJob
<1> QED
  BY <1>2, ClientInvariance, PTL

\* No call of the client takes more than one job away: a stop in one space
\* leaves the same guid in another space alone.
THEOREM OneJobGoesAtATimeAlways == ClientSpec => OneJobGoesAtATime
<1>1. ASSUME ClientInv, [ClientNext]_clientVars,
             NEW j \in jobs \ jobs', NEW k \in jobs \ jobs'
      PROVE  j = k
  <2>1. ASSUME NEW space \in Spaces, NEW err \in Errors, NEW id \in Guids,
               StopStaging(id, space, err)
        PROVE  j = k
    <3>1. /\ id \in TaskGuids
          /\ jobs' = jobs \ JobsNamed(formatStagingNamespace(space),
                                      ShortenedGuid[id])
      BY <2>1 DEF StopStaging
    <3> QED
      BY <1>1, <3>1, JobsNamedOwn
  <2>2. ASSUME NEW space \in Spaces, NEW err \in Errors, NEW id \in Guids,
               StartStaging(id, space, err)
        PROVE  FALSE
    BY <2>2 DEF StartStaging
  <2>3. ASSUME NEW i \in jobs, DeleteContent(i)
        PROVE  j = k
    BY <2>3 DEF DeleteContent
  <2>4. jobs' # jobs
    OBVIOUS
  <2> QED
    BY <1>1, <2>1, <2>2, <2>3, <2>4
    DEF ClientNext, clientVars, CreateStagingNamespace, GetStagingNamespace,
        RemoveStagingNamespace, GetStagingTask, FinalizeNamespace
<1>2. ClientInv /\ [ClientNext]_clientVars
        => [\A j, k \in jobs \ jobs' : j = k]_clientVars
  BY <1>1
<1> QED
  BY <1>2, ClientInvariance, PTL DEF ClientSpec, OneJobGoesAtATime

=============================================================================
