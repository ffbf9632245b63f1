---------------------------- MODULE StagingClient ----------------------------
(***************************************************************************)
(* lib/k8s/client.go: the K8SStagingClient interface as Stager implements  *)
(* it, over the part of the Kubernetes API server it touches.              *)
(*                                                                         *)
(* Every method makes at most one API call, which the API server executes  *)
(* atomically, so every method is one action.  err is what the method      *)
(* returns.  A failed call ("unavailable") may have taken effect before    *)
(* its answer was lost; the method cannot tell.                            *)
(***************************************************************************)
EXTENDS StagingTypes

VARIABLES
  namespaces,  \* phase of each staging namespace at the API server
  jobs,        \* the jobs that exist
  created      \* history: every job that was ever created

clientVars == <<namespaces, jobs, created>>

-----------------------------------------------------------------------------

formatStagingNamespace(space) == <<"cf-staging", space>>

Namespaces == {formatStagingNamespace(s) : s \in Spaces}

\* A job: its key, and the two entries of its environment that the staging
\* script sends back, CF_TASK_ID and CF_SPACE.
JobRecords ==
  [namespace : Namespaces, name : JobNames, task : TaskGuids, space : Spaces]

\* Mutant: CF_TASK_ID is the shortened guid, which does not parse.
NewJobShortTask(id, space) ==
  [namespace |-> formatStagingNamespace(space),
   name      |-> ShortenedGuid[id],
   task      |-> ShortenedGuid[id],
   space     |-> space]

\* Mutant: CF_SPACE is always the same space.
NewJobFixedSpace(id, space) ==
  [namespace |-> formatStagingNamespace(space),
   name      |-> ShortenedGuid[id],
   task      |-> id,
   space     |-> CHOOSE s \in Spaces : TRUE]

NewJob(id, space) ==
  [namespace |-> formatStagingNamespace(space),
   name      |-> ShortenedGuid[id],
   task      |-> id,
   space     |-> space]

\* The jobs an API call for this namespace and name addresses.
JobsNamed(ns, name) == {j \in jobs : j.namespace = ns /\ j.name = name}

Errors == {"nil", "invalidGuid", "alreadyExists", "notFound", "conflict",
           "forbidden", "unavailable"}

CallFails == {e \in {"unavailable"} : "k8s" \in Faults}

\* What a call that took effect may report.
Effected == {"nil"} \cup CallFails

ClientInit ==
  /\ namespaces = [ns \in Namespaces |-> "absent"]
  /\ jobs = {}
  /\ created = {}

-----------------------------------------------------------------------------

CreateStagingNamespace(space, err) ==
  LET ns == formatStagingNamespace(space) IN
  /\ \/ /\ namespaces[ns] = "absent"
        /\ err \in Effected
        /\ namespaces' = [namespaces EXCEPT ![ns] = "active"]
     \/ /\ \/ namespaces[ns] # "absent" /\ err = "alreadyExists"
           \/ err \in CallFails
        /\ UNCHANGED namespaces
  /\ UNCHANGED <<jobs, created>>

GetStagingNamespace(space, exists, err) ==
  /\ \/ /\ exists = (namespaces[formatStagingNamespace(space)] # "absent")
        /\ err = "nil"
     \/ /\ exists = FALSE
        /\ err \in CallFails
  /\ UNCHANGED clientVars

\* Deletion only begins here: the namespace terminates, then disappears.
RemoveStagingNamespace(space, err) ==
  LET ns == formatStagingNamespace(space) IN
  /\ \/ /\ namespaces[ns] = "active"
        /\ err \in Effected
        /\ namespaces' = [namespaces EXCEPT ![ns] = "terminating"]
     \/ /\ \/ namespaces[ns] = "absent" /\ err = "notFound"
           \/ namespaces[ns] = "terminating" /\ err = "conflict"
           \/ err \in CallFails
        /\ UNCHANGED namespaces
  /\ UNCHANGED <<jobs, created>>

\* Why the API server refuses to create a job, if it does.
CreateJobRefused(job, err) ==
  \/ namespaces[job.namespace] = "absent" /\ err = "notFound"
  \/ namespaces[job.namespace] = "terminating" /\ err = "forbidden"
  \/ JobsNamed(job.namespace, job.name) # {} /\ err = "alreadyExists"

StartStaging(id, space, err) ==
  /\ \/ /\ id \in TaskGuids
        /\ LET job == NewJob(id, space) IN
           /\ namespaces[job.namespace] = "active"
           /\ JobsNamed(job.namespace, job.name) = {}
           /\ err \in Effected
           /\ jobs' = jobs \cup {job}
           /\ created' = created \cup {job}
     \/ /\ \/ id \notin TaskGuids /\ err = "invalidGuid"
           \/ id \in TaskGuids /\ CreateJobRefused(NewJob(id, space), err)
           \/ id \in TaskGuids /\ err \in CallFails
        /\ UNCHANGED <<jobs, created>>
  /\ UNCHANGED namespaces

GetStagingTask(id, space, exists, err) ==
  /\ \/ /\ id \in TaskGuids
        /\ exists = (JobsNamed(formatStagingNamespace(space),
                               ShortenedGuid[id]) # {})
        /\ err = "nil"
     \/ /\ exists = FALSE
        /\ \/ id \notin TaskGuids /\ err = "invalidGuid"
           \/ id \in TaskGuids /\ err \in CallFails
  /\ UNCHANGED clientVars

\* Mutant: the job is deleted by its name, in whatever namespace it is.
StopStagingEverywhere(id, space, err) ==
  /\ id \in TaskGuids
  /\ LET found == {j \in jobs : j.name = ShortenedGuid[id]} IN
     IF found # {} THEN jobs' = jobs \ found /\ err = "nil"
                   ELSE UNCHANGED jobs /\ err = "notFound"
  /\ UNCHANGED <<namespaces, created>>

\* The gracePeriod argument is not used: Delete is called with nil options.
StopStaging(id, space, err) ==
  /\ \/ /\ id \in TaskGuids
        /\ LET found == JobsNamed(formatStagingNamespace(space),
                                  ShortenedGuid[id])
           IN /\ found # {}
              /\ err \in Effected
              /\ jobs' = jobs \ found
     \/ /\ \/ id \notin TaskGuids /\ err = "invalidGuid"
           \/ /\ id \in TaskGuids
              /\ \/ /\ JobsNamed(formatStagingNamespace(space),
                                 ShortenedGuid[id]) = {}
                    /\ err = "notFound"
                 \/ err \in CallFails
        /\ UNCHANGED jobs
  /\ UNCHANGED <<namespaces, created>>

-----------------------------------------------------------------------------
(***************************************************************************)
(* What Kubernetes does on its own: a terminating namespace loses its      *)
(* objects one at a time, and goes once it is empty.                       *)
(***************************************************************************)

DeleteContent(j) ==
  /\ j \in jobs
  /\ namespaces[j.namespace] = "terminating"
  /\ jobs' = jobs \ {j}
  /\ UNCHANGED <<namespaces, created>>

FinalizeNamespace(ns) ==
  /\ namespaces[ns] = "terminating"
  /\ \A j \in jobs : j.namespace # ns
  /\ namespaces' = [namespaces EXCEPT ![ns] = "absent"]
  /\ UNCHANGED <<jobs, created>>

\* The client used by any number of callers, in any order.
ClientNext ==
  \/ \E space \in Spaces, err \in Errors :
       \/ CreateStagingNamespace(space, err)
       \/ RemoveStagingNamespace(space, err)
       \/ \E exists \in BOOLEAN : GetStagingNamespace(space, exists, err)
       \/ \E id \in Guids :
            \/ StartStaging(id, space, err)
            \/ StopStaging(id, space, err)
            \/ \E exists \in BOOLEAN : GetStagingTask(id, space, exists, err)
  \/ \E j \in jobs : DeleteContent(j)
  \/ \E ns \in Namespaces : FinalizeNamespace(ns)

ClientSpec == ClientInit /\ [][ClientNext]_clientVars

-----------------------------------------------------------------------------

ClientTypeOK ==
  /\ namespaces \in [Namespaces -> {"absent", "active", "terminating"}]
  /\ jobs \subseteq JobRecords
  /\ created \subseteq JobRecords

\* What a job carries in its environment is enough to find it again: the job
\* that StopStaging would delete for a job's own CF_TASK_ID and CF_SPACE is
\* that job, and no other (StartStaging against StopStaging).
CallbackFindsOwnJob ==
  \A j \in jobs :
    JobsNamed(formatStagingNamespace(j.space), ShortenedGuid[j.task]) = {j}

\* No call takes more than one job away: stopping a guid in one space leaves
\* the job of the same guid in another space alone, and so does a namespace
\* that terminates (the scope of the Delete call in StopStaging).
OneJobGoesAtATime ==
  [][\A j, k \in jobs \ jobs' : j = k]_clientVars

=============================================================================
