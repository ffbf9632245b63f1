---------------------------- MODULE StagingScript ----------------------------
(***************************************************************************)
(* docker-image/stager: the script a staging job runs in its pod, up to    *)
(* the point where it calls the stager back.  A Ruby exception anywhere    *)
(* ends in the rescue clause, which prints it and lets the script end with *)
(* status 0: to Kubernetes the job has succeeded, and nobody is told.      *)
(*                                                                         *)
(* Pods are external.  A pod id is used once.                              *)
(***************************************************************************)
EXTENDS StagingClient

CONSTANT PodIds

VARIABLE pods

\* Phases in which the script runs.
Running == {"downloading", "building", "uploading", "posting", "waiting"}

\* "exited": the script ended with status 0.  "evicted": the pod was lost
\* under a job that exists; "collected": under one that was deleted.
Phases == Running \cup {"exited", "evicted", "collected"}

NoPod == [phase |-> "unused"]

\* built: the builder returned 0.  uploaded: the droplet arrived.
PodRecords ==
  [phase : Phases, job : JobRecords, built : BOOLEAN, uploaded : BOOLEAN]

ScriptInit == pods = [p \in PodIds |-> NoPod]

Enter(p, phase) == pods' = [pods EXCEPT ![p].phase = phase]

\* Buildpacks, lifecycle and app package are downloaded in turn.
Download(p) ==
  /\ pods[p].phase = "downloading"
  /\ \/ Enter(p, "building")
     \/ "build" \in Faults /\ Enter(p, "exited")

\* Mutant: a failing builder ends the script as failed.
BuildExitsOne(p) ==
  /\ pods[p].phase = "building"
  /\ \/ pods' = [pods EXCEPT ![p].phase = "uploading", ![p].built = TRUE]
     \/ "build" \in Faults /\ Enter(p, "failed")

\* Mutant: the status of the builder is not looked at.
BuildUnchecked(p) ==
  /\ pods[p].phase = "building"
  /\ \E built \in {TRUE} \cup {b \in {FALSE} : "build" \in Faults} :
       pods' = [pods EXCEPT ![p].phase = "uploading", ![p].built = built]

\* A builder that fails ends the script with a plain exit: status 0 again.
Build(p) ==
  /\ pods[p].phase = "building"
  /\ \/ pods' = [pods EXCEPT ![p].phase = "uploading", ![p].built = TRUE]
     \/ "build" \in Faults /\ Enter(p, "exited")

\* The upload is a curl in backticks: its status is not looked at.
Upload(p) ==
  /\ pods[p].phase = "uploading"
  /\ \E arrived \in {TRUE} \cup {a \in {FALSE} : "upload" \in Faults} :
       pods' = [pods EXCEPT ![p].phase = "posting", ![p].uploaded = arrived]

\* A job's pods that count: a running one, or one that succeeded.
LivePods(j) ==
  {p \in PodIds : /\ pods[p] # NoPod
                  /\ pods[p].job = j
                  /\ pods[p].phase \in Running \cup {"exited"}}

-----------------------------------------------------------------------------
(***************************************************************************)
(* What Kubernetes does with pods.  RestartPolicyNever: a lost pod is not  *)
(* restarted, the job controller makes another one.  Deleting a job with   *)
(* nil options does not wait for its pods: they may run on, to the end.    *)
(***************************************************************************)

StartPod(p, j) ==
  /\ j \in jobs
  /\ pods[p] = NoPod
  /\ LivePods(j) = {}
  /\ pods' = [pods EXCEPT ![p] = [phase |-> "downloading", job |-> j,
                                  built |-> FALSE, uploaded |-> FALSE]]

Evict(p) ==
  /\ "evict" \in Faults
  /\ pods[p].phase \in Running
  /\ pods[p].job \in jobs
  /\ Enter(p, "evicted")

CollectPod(p) ==
  /\ pods[p].phase \in Running
  /\ pods[p].job \notin jobs
  /\ Enter(p, "collected")

=============================================================================
