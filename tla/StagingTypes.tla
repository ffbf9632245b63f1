---------------------------- MODULE StagingTypes ----------------------------
(***************************************************************************)
(* The identifiers every other module speaks about, and what is assumed of *)
(* the one external conversion they depend on.                             *)
(*                                                                         *)
(* A staging guid is the string Cloud Controller puts in the request path. *)
(* cloudfoundry.NewTaskGuid (github.com/cf-furnace/pkg, not in this        *)
(* repository) parses it, or fails; ShortenedGuid() of the parsed value is *)
(* the name of the Kubernetes job.                                         *)
(***************************************************************************)

CONSTANTS
  Guids,          \* strings that can appear as staging_guid
  TaskGuids,      \* those that NewTaskGuid accepts
  JobNames,       \* names a job may have
  ShortenedGuid,  \* [TaskGuids -> JobNames], TaskGuid.ShortenedGuid()
  Spaces,         \* values the k8s-namespace flag may have
  Faults          \* what may go wrong outside the process: see FaultKinds

(***************************************************************************)
(* "k8s":   a Kubernetes API call fails, or its answer is lost             *)
(* "cc":    Cloud Controller does not answer, or its answer is late        *)
(* "refuse": it answers with a status other than 200                       *)
(* "crash": the stager process dies and is started again                   *)
(* "build": a download, the builder, or reading its result fails           *)
(* "upload": the droplet upload fails                                      *)
(* "evict": a pod disappears before the script ends                        *)
(***************************************************************************)
FaultKinds ==
  {"k8s", "cc", "refuse", "crash", "build", "upload", "evict"}

\* The client uses the shortened guid as the identity of a task: two guids
\* that are both accepted never share a job name.
ASSUME TypesAssumption ==
  /\ TaskGuids \subseteq Guids
  /\ ShortenedGuid \in [TaskGuids -> JobNames]
  /\ \A g, h \in TaskGuids : ShortenedGuid[g] = ShortenedGuid[h] => g = h
  /\ Faults \subseteq FaultKinds

=============================================================================
