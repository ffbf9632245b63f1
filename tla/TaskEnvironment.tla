--------------------------- MODULE TaskEnvironment ---------------------------
(***************************************************************************)
(* The environment of a staging job, from the stage request through        *)
(* StartStaging (lib/k8s/client.go) to the script that reads it            *)
(* (docker-image/stager): a contract between a Go program and a Ruby one   *)
(* that nothing but the names of variables holds together.                 *)
(*                                                                         *)
(* StagingScript takes over from here: ImplementsScript shows that what is *)
(* one step there is what this module comes to.                            *)
(***************************************************************************)
EXTENDS Naturals, Sequences

CONSTANTS
  Stagings,   \* the requests: see StagingsAssumption
  Space,      \* the k8s-namespace the stager is configured with
  MayFail     \* may a download, or unpacking what it brought, fail?

VARIABLES
  staging,    \* the staging
  phase,      \* how far it is
  env,        \* its environment, by name
  next,       \* the buildpack to download next
  dirs        \* directories of the pod, and what was unpacked there

taskVars == <<staging, phase, env, next, dirs>>

\* Entries of the request's environment are in the order of the request.
\* The key of a buildpack is written as its pieces between commas: the name
\* of a buildpack has none, the URL of a custom one may.
ASSUME StagingsAssumption ==
  /\ MayFail \in BOOLEAN
  /\ Stagings \subseteq
       [guid        : STRING,
        environment : Seq([name : STRING, value : STRING]),
        buildpacks  : Seq([id : Seq(STRING) \ {<< >>}, url : STRING])]

Init ==
  /\ staging \in Stagings
  /\ phase = "called"
  /\ env = << >>
  /\ next = 1
  /\ dirs = << >>

-----------------------------------------------------------------------------
(***************************************************************************)
(* The stager.                                                             *)
(***************************************************************************)

\* A name given twice has the value given last.
ConvertEntries(entries) ==
  LET LastOf(n) == CHOOSE i \in DOMAIN entries :
                     /\ entries[i].name = n
                     /\ \A k \in DOMAIN entries :
                          entries[k].name = n => k <= i
  IN [n \in {entries[i].name : i \in DOMAIN entries} |->
        entries[LastOf(n)].value]

\* The pieces of all keys, each at its place: <<buildpack, piece>>.
Places(buildpacks) ==
  UNION {{i} \X (DOMAIN buildpacks[i].id) : i \in DOMAIN buildpacks}

\* Mutant: the keys are appended to a list that is made as long as they are
\* many.
BuildpackOrderAppended(buildpacks) ==
  LET n == Len(buildpacks) IN
  [p \in (DOMAIN buildpacks) \X {1} \cup
         {<<n + q[1], q[2]>> : q \in Places(buildpacks)} |->
     IF p[1] <= n THEN "" ELSE buildpacks[p[1] - n].id[p[2]]]

\* The keys joined by commas, as whoever splits the text at its commas reads
\* them: what was a comma in a key is one between keys now.  No key is no piece.
BuildpackOrder(buildpacks) ==
  [p \in Places(buildpacks) |-> buildpacks[p[1]].id[p[2]]]

\* Mutant: the address to call back is not among them.
CallbackEntriesNoAddress(s) == [CF_TASK_ID |-> s.guid, CF_SPACE |-> Space]

\* What the script calls back with.
CallbackEntries(s) ==
  [CF_TASK_ID                 |-> s.guid,
   CF_COMPLETION_CALLBACK_URL |-> <<"completed", s.guid>>,
   CF_SPACE                   |-> Space]

\* What it builds.  Stack and urls stand for themselves; each may be empty.
BuildEntries(s) ==
  [CF_STACK                   |-> "stack",
   CF_BUILDPACKS              |-> s.buildpacks,
   CF_BUILDPACKS_ORDER        |-> BuildpackOrder(s.buildpacks),
   CF_BUILDPACK_APP_LIFECYCLE |-> "lifecycle",
   CF_APP_PACKAGE             |-> "app",
   CF_DROPLET_UPLOAD_LOCATION |-> "droplet",
   CF_SKIP_CERT_VERIFY        |-> "skipCertVerify",
   CF_SKIP_DETECT             |-> "false"]

StageCalled ==
  /\ phase = "called"
  /\ env' = ConvertEntries(staging.environment)
  /\ phase' = "converted"
  /\ UNCHANGED <<staging, next, dirs>>

\* What f sets, and what g sets besides.
Over(f, g) ==
  [x \in DOMAIN f \cup DOMAIN g |-> IF x \in DOMAIN f THEN f[x] ELSE g[x]]

\* The stager's own variables.
OwnEntries(s) == Over(CallbackEntries(s), BuildEntries(s))

\* Mutant: a variable that is already set is left alone.
StartStagingUserFirst ==
  /\ phase = "converted"
  /\ env' = Over(env, OwnEntries(staging))
  /\ phase' = "started"
  /\ UNCHANGED <<staging, next, dirs>>

\* The stager's own variables override the request's.
StartStaging ==
  /\ phase = "converted"
  /\ env' = Over(OwnEntries(staging), env)
  /\ phase' = "started"
  /\ UNCHANGED <<staging, next, dirs>>

-----------------------------------------------------------------------------
(***************************************************************************)
(* The script.                                                             *)
(***************************************************************************)

\* An empty value will do: Ruby takes it for set.
Required ==
  {"CF_BUILDPACKS", "CF_BUILDPACKS_ORDER", "CF_BUILDPACK_APP_LIFECYCLE",
   "CF_APP_PACKAGE", "CF_DROPLET_UPLOAD_LOCATION", "CF_SKIP_CERT_VERIFY",
   "CF_SKIP_DETECT", "CF_COMPLETION_CALLBACK_URL", "CF_TASK_ID", "CF_SPACE"}

CheckEnvironment ==
  /\ phase = "started"
  /\ phase' = IF Required \subseteq DOMAIN env THEN "buildpacks"
                                               ELSE "rejected"
  /\ UNCHANGED <<staging, env, next, dirs>>

\* Mutant: a download that fails ends the script with another status than 0.
DownloadExitsOne(url, dir, then) ==
  \/ dir \in DOMAIN dirs /\ UNCHANGED dirs /\ phase' = then
  \/ /\ dir \notin DOMAIN dirs
     /\ \E content \in {url} \cup {c \in {"nothing"} : MayFail} :
          dirs' = Over(dirs, [d \in {dir} |-> content])
     /\ phase' = then
  \/ /\ dir \notin DOMAIN dirs
     /\ MayFail
     /\ UNCHANGED dirs
     /\ phase' = "failed"

\* Nothing is downloaded into a directory that exists.  The directory is
\* made before tar or unzip fills it, and their status is not looked at.  A
\* request that fails raises an exception, which ends the script.
Download(url, dir, then) ==
  \/ dir \in DOMAIN dirs /\ UNCHANGED dirs /\ phase' = then
  \/ /\ dir \notin DOMAIN dirs
     /\ \E content \in {url} \cup {c \in {"nothing"} : MayFail} :
          dirs' = Over(dirs, [d \in {dir} |-> content])
     /\ phase' = then
  \/ /\ dir \notin DOMAIN dirs
     /\ MayFail
     /\ UNCHANGED dirs
     /\ phase' = "exited"

\* The directory is named with a digest of the key.
BuildpackDir(id) == <<"/tmp/buildpacks", id>>

DownloadBuildpack ==
  /\ phase = "buildpacks"
  /\ next <= Len(env["CF_BUILDPACKS"])
  /\ LET bp == env["CF_BUILDPACKS"][next] IN
     Download(bp.url, BuildpackDir(bp.id), "buildpacks")
  /\ next' = next + 1
  /\ UNCHANGED <<staging, env>>

DownloadLifecycle ==
  /\ phase = "buildpacks"
  /\ next > Len(env["CF_BUILDPACKS"])
  /\ Download(env["CF_BUILDPACK_APP_LIFECYCLE"], <<"/tmp/lifecycle">>, "app")
  /\ UNCHANGED <<staging, env, next>>

DownloadApp ==
  /\ phase = "app"
  /\ Download(env["CF_APP_PACKAGE"], <<"/tmp/app">>, "building")
  /\ UNCHANGED <<staging, env, next>>

Next ==
  \/ StageCalled
  \/ StartStaging
  \/ CheckEnvironment
  \/ DownloadBuildpack
  \/ DownloadLifecycle
  \/ DownloadApp

Spec == Init /\ [][Next]_taskVars

-----------------------------------------------------------------------------

\* The script finds every variable it insists on, whatever the request says:
\* a job the stager started never ends with "Env var ... is not set"
\* (StartStaging against the checks at the head of the script).
ScriptIsConfigured == phase # "rejected"

\* The pod calls back for its own task, in the space its job is in, and
\* downloads what the request says, even when the request's environment has
\* variables of these names; its other variables reach the pod, with the
\* value given last (the order of the assignments in StartStaging).
EnvironmentIsOwn ==
  phase \notin {"called", "converted"} =>
    /\ env["CF_TASK_ID"] = staging.guid
    /\ env["CF_SPACE"] = Space
    /\ env["CF_COMPLETION_CALLBACK_URL"] = <<"completed", staging.guid>>
    /\ env["CF_BUILDPACKS"] = staging.buildpacks
    /\ \A i \in DOMAIN staging.environment :
         LET e == staging.environment[i] IN
         \/ e.name \in Required \cup {"CF_STACK"}
         \/ env[e.name] = e.value
         \/ \E k \in i + 1..Len(staging.environment) :
              staging.environment[k].name = e.name

\* The builder finds a directory for every buildpack whose key has no comma,
\* at its place in the order, with that buildpack in it: the first with that
\* key, if a key comes twice, or nothing, if it could not be unpacked.  When
\* no key has a comma that is all the builder is told to look for.  A key
\* with a comma reaches it in pieces, which are no keys (CF_BUILDPACKS_ORDER
\* against CF_BUILDPACKS and the directories of the script).
BuilderFindsBuildpacks ==
  phase = "building" =>
    LET bps   == staging.buildpacks
        order == env["CF_BUILDPACKS_ORDER"]
        Plain(i) == Len(bps[i].id) = 1
    IN
    /\ \A i \in DOMAIN bps : Plain(i) =>
         LET dir == BuildpackDir(<<order[<<i, 1>>]>>) IN
         /\ dir \in DOMAIN dirs
         /\ \E k \in DOMAIN bps :
              /\ bps[k].id = bps[i].id
              /\ \A m \in 1..k - 1 : bps[m].id # bps[i].id
              /\ dirs[dir] \in {bps[k].url, "nothing"}
    /\ (\A i \in DOMAIN bps : Plain(i)) => DOMAIN order = (DOMAIN bps) \X {1}

-----------------------------------------------------------------------------
(***************************************************************************)
(* The same staging as StagingScript sees it, with one pod: the job is     *)
(* what its environment says, in the namespace StartStaging put it in.     *)
(***************************************************************************)

StagingGuids == {s.guid : s \in Stagings}

StagingNamespace == <<"cf-staging", Space>>

EnvironmentJob ==
  [namespace |-> StagingNamespace,
   name      |-> staging.guid,
   task      |-> env["CF_TASK_ID"],
   space     |-> env["CF_SPACE"]]

EnvironmentJobs ==
  IF phase \in {"called", "converted"} THEN {} ELSE {EnvironmentJob}

ScriptPod ==
  IF phase \in {"called", "converted", "started"}
    THEN [phase |-> "unused"]
    ELSE [phase    |-> IF phase \in {"buildpacks", "app"} THEN "downloading"
                                                          ELSE phase,
          job      |-> EnvironmentJob,
          built    |-> FALSE,
          uploaded |-> FALSE]

Script == INSTANCE StagingScript WITH
  Guids <- StagingGuids, TaskGuids <- StagingGuids, JobNames <- StagingGuids,
  ShortenedGuid <- [g \in StagingGuids |-> g],
  Spaces <- {Space},
  Faults <- {f \in {"build"} : MayFail},
  namespaces <- [ns \in {StagingNamespace} |-> "active"],
  jobs <- EnvironmentJobs, created <- EnvironmentJobs,
  PodIds <- {"pod"}, pods <- [p \in {"pod"} |-> ScriptPod]

ScriptStep ==
  \/ Script!StartStaging(staging.guid, Space, "nil") /\ UNCHANGED ScriptPod
  \/ /\ UNCHANGED EnvironmentJobs
     /\ \/ \E j \in EnvironmentJobs : Script!StartPod("pod", j)
        \/ Script!Download("pod")

\* The variables on their way from the request to the script make the job
\* that StagingClient creates, the pod that StagingScript starts for it, and
\* its one step of downloading, and nothing else: no request can make the
\* job of another task of it, or a pod that ends before it downloads
\* (StartStaging and the head of the script).
ImplementsScript ==
  /\ EnvironmentJobs = {}
  /\ Script!ScriptInit
  /\ [][ScriptStep]_<<EnvironmentJobs, ScriptPod>>

=============================================================================
