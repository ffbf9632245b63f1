---------------------------- MODULE StagingSystem ----------------------------
(***************************************************************************)
(* Cloud Controller, the stager, Kubernetes and the staging pods together. *)
(* Completions come from pods only, with the guid and the space the pod    *)
(* found in its environment.  The request a pod makes is served by the     *)
(* thread of the same name.                                                *)
(***************************************************************************)
EXTENDS StagerApi, StagingScript, FiniteSets

CONSTANTS
  CcRequest,     \* [Threads \ PodIds -> Requests], what Cloud Controller asks
  MaxEvictions   \* bound: pods lost under a job that exists

systemVars == <<apiVars, pods>>

CcThreads == Threads \ PodIds

\* The request made from a job's environment.
CompletionOf(j) ==
  [op |-> "complete", guid |-> j.task, task |-> j.task, space |-> j.space]

\* th asks for the guid to be staged.
StagedBy(th, g) == CcRequest[th].op = "stage" /\ CcRequest[th].guid = g

\* Cloud Controller makes a guid for every staging, so none is staged twice.
ASSUME SystemAssumption ==
  /\ PodIds \subseteq Threads
  /\ IsFiniteSet(PodIds)
  /\ CcRequest \in [CcThreads -> Requests]
  /\ \A th \in CcThreads : CcRequest[th].op # "complete"
  /\ \A t, u \in CcThreads :
       StagedBy(t, CcRequest[u].guid) /\ StagedBy(u, CcRequest[u].guid) => t = u
  /\ \A j \in JobRecords : CompletionOf(j) \in Requests
  /\ MaxEvictions \in Nat

Evicted == {p \in PodIds : pods[p].phase = "evicted"}

SystemInit == ApiInit /\ ScriptInit

\* The script posts the builder's result, if it can read it.  It does not
\* look at the answer, and does not try again.
PostCompletion(p) ==
  /\ pods[p].phase = "posting"
  /\ \/ Called(p, CompletionOf(pods[p].job)) /\ Enter(p, "waiting")
     \/ (~up \/ "build" \in Faults) /\ Enter(p, "exited")
        /\ UNCHANGED apiVars

\* Mutant: a script whose completion is not answered 200 ends as failed.
FinishScriptFails(p) ==
  /\ pods[p].phase = "waiting"
  /\ pc[p] \in {"done", "aborted"} \/ {"k8s", "cc"} \cap Faults # {}
  /\ Enter(p, IF reply[p] = 200 THEN "exited" ELSE "failed")
  /\ UNCHANGED apiVars

\* It waits for an answer, or until its http client gives up.
FinishScript(p) ==
  /\ pods[p].phase = "waiting"
  /\ pc[p] \in {"done", "aborted"} \/ {"k8s", "cc"} \cap Faults # {}
  /\ Enter(p, "exited")
  /\ UNCHANGED apiVars

RunScript(p) ==
  \/ (Download(p) \/ Build(p) \/ Upload(p)) /\ UNCHANGED apiVars
  \/ PostCompletion(p)
  \/ FinishScript(p)

ControlJobs == \E p \in PodIds, j \in jobs : StartPod(p, j)

PodLost(p) ==
  \/ Cardinality(Evicted) < MaxEvictions /\ Evict(p)
  \/ CollectPod(p)

SystemNext ==
  \/ \E th \in CcThreads : Called(th, CcRequest[th]) /\ UNCHANGED pods
  \/ \E th \in Threads : (Handle(th) \/ DockerComplete(th)) /\ UNCHANGED pods
  \/ \E p \in PodIds : RunScript(p)
  \/ \E p \in PodIds : PodLost(p) /\ UNCHANGED apiVars
  \/ ControlJobs /\ UNCHANGED apiVars
  \/ (Crash \/ Restart) /\ UNCHANGED pods

\* A handler that was called runs (each has a goroutine, each call it makes
\* returns), a docker goroutine wakes up, a script in a pod goes on, and the
\* job controller starts a pod for a job that has none.  Requests, faults
\* and restarts need not happen.
SystemFairness ==
  /\ \A th \in Threads : WF_systemVars(Handle(th) /\ UNCHANGED pods)
  /\ \A th \in Threads : WF_systemVars(DockerComplete(th) /\ UNCHANGED pods)
  /\ \A p \in PodIds : WF_systemVars(RunScript(p))
  /\ WF_systemVars(ControlJobs /\ UNCHANGED apiVars)

SystemSpec == SystemInit /\ [][SystemNext]_systemVars /\ SystemFairness

-----------------------------------------------------------------------------

SystemTypeOK ==
  /\ ApiTypeOK
  /\ pods \in [PodIds -> PodRecords \cup {NoPod}]

Tellings(g) == {d \in told : d.guid = g /\ d.payload = "result"}

\* Cloud Controller is never told of a success that did not happen: whenever
\* it has a result for a guid, that guid's builder ran to the end in some pod
\* of its own job (the script exits before it posts when the builder fails).
NoFalseSuccess ==
  \A g \in Reported :
    \E p \in PodIds :
      pods[p] # NoPod /\ pods[p].job.task = g /\ pods[p].built

\* Cloud Controller hears of a staging once, plus at most once for every pod
\* that was lost under its job: no crash, lost answer or failed deletion
\* makes the callback come again (the script does not retry).
ReportsAccountedFor ==
  \A g \in Guids :
    Cardinality(Tellings(g)) <=
      1 + Cardinality({p \in Evicted : pods[p].job.task = g})

\* A script that is answered 200 has left nothing behind: its own job is gone,
\* and no other request, late answer or lost pod brings it back (the error
\* return after StopStaging in StagingCompleteHandler).
CompletedIsGone ==
  \A p \in PodIds : reply[p] = 200 => pods[p].job \notin jobs

\* With nothing failing but pods and uploads, a script that has ended has no
\* job any more, so no other pod will stage it again: it ends after a
\* completion that was handled to the end, by it or by a stop before it (the
\* script waits for its answer, and the handler deletes before it answers).
NothingLeftBehind ==
  Faults \subseteq {"evict", "upload"} =>
    \A p \in PodIds : pods[p].phase = "exited" => pods[p].job \notin jobs

\* With nothing failing but pods, a staging that was accepted is reported to
\* Cloud Controller, unless somebody cancels it.
AcceptedIsReported ==
  \A g \in Guids :
    (\E th \in CcThreads : AcceptedStage(th) /\ req[th].guid = g)
      ~> g \in Reported \cup Cancelled

\* With nothing failing but pods, no job stays behind: it is deleted by the
\* completion its pod posts, or by a stop.
JobsDrain == \A j \in JobRecords : j \in jobs ~> j \notin jobs

\* With nothing failing, Cloud Controller hears of every docker app whose
\* stage it was told is accepted.
DockerIsReported ==
  \A th \in CcThreads : AcceptedDocker(th) ~> \E d \in told : d.sender = th

=============================================================================
