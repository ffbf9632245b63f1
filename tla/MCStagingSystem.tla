--------------------------- MODULE MCStagingSystem ---------------------------
(***************************************************************************)
(* StagingSystem on small instances.                                       *)
(***************************************************************************)
EXTENDS StagingSystem, TLC

CONSTANTS g1, g2, n1, n2, t1, t2, t3, p1, p2

MCGuids == {g1, g2}
MCJobNames == {n1, n2}
MCShortenedGuid == g1 :> n1 @@ g2 :> n2

Stage(g, lifecycle) ==
  [op |-> "stage", guid |-> g, lifecycle |-> lifecycle, data |-> "ok"]
Stop(g) == [op |-> "stop", guid |-> g]

MCPodIds == {p1, p2}
MCThreads == {t1, t2, t3} \cup PodIds

MCCcRequest == t1 :> Stage(g1, "buildpack") @@ t2 :> Stage(g2, "buildpack")
               @@ t3 :> Stop(g1)
MCRequests == {CcRequest[th] : th \in CcThreads}
              \cup {CompletionOf(j) : j \in JobRecords}
DockerCcRequest == t1 :> Stage(g1, "buildpack") @@ t2 :> Stage(g2, "docker")
                   @@ t3 :> Stop(g1)
Symmetry == Permutations(PodIds)

=============================================================================
