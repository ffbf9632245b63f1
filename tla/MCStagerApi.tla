----------------------------- MODULE MCStagerApi -----------------------------
(***************************************************************************)
(* StagerApi on small instances.  g1 and g2 parse, badGuid does not.       *)
(***************************************************************************)
EXTENDS StagerApi, TLC

CONSTANTS g1, g2, badGuid, n1, n2, t1, t2, t3

MCGuids == {g1, g2, badGuid}
MCTaskGuids == {g1, g2}
MCJobNames == {n1, n2}
MCShortenedGuid == g1 :> n1 @@ g2 :> n2

Stage(g, lifecycle, data) ==
  [op |-> "stage", guid |-> g, lifecycle |-> lifecycle, data |-> data]
Complete(g, task, sp) ==
  [op |-> "complete", guid |-> g, task |-> task, space |-> sp]
Stop(g) == [op |-> "stop", guid |-> g]

MCThreads == {t1, t2, t3}
Symmetry == Permutations(Threads)

MCRequests ==
  {Stage(g1, "buildpack", d) : d \in {"ok", "bad", "null"}}
  \cup {Stage(g2, "buildpack", "ok"), Stage(badGuid, "buildpack", "ok")}
  \cup {Stage(g1, "docker", d) : d \in {"ok", "bad"}}
  \cup {Stage(g1, "unknown", "ok")}
  \cup {Complete(g1, g1, sp) : sp \in Spaces}
  \cup {Complete(badGuid, badGuid, "red"), Complete(g1, g2, "red")}
  \cup {Stop(g1), Stop(badGuid)}

=============================================================================
