----------------------- MODULE TaskEnvironmentProofs -----------------------
(***************************************************************************)
(* What StartStaging promises the script, and the script the builder, for  *)
(* any request.                                                            *)
(***************************************************************************)
EXTENDS TaskEnvironment, TLAPS

TaskTypeOK ==
  /\ staging \in Stagings
  /\ phase \in {"called", "converted", "started", "buildpacks", "app",
                "building", "exited"}
  /\ next \in Nat \ {0}

\* The environment is a function of the request.
EnvironmentFollows ==
  /\ phase = "converted" => env = ConvertEntries(staging.environment)
  /\ phase \notin {"called", "converted"} =>
       env = Over(OwnEntries(staging), ConvertEntries(staging.environment))

\* No buildpack was looked at yet, or all of them were.
Progress ==
  /\ phase \in {"called", "converted", "started"} => dirs = << >>
  /\ phase \in {"called", "converted", "started"} => next = 1
  /\ phase \in {"app", "building"} => next > Len(staging.buildpacks)

\* Each that was looked at has its directory ...
Unpacked ==
  phase # "exited" =>
    \A i \in DOMAIN staging.buildpacks :
      i < next => BuildpackDir(staging.buildpacks[i].id) \in DOMAIN dirs

FirstOf(k) ==
  \A m \in 1..k - 1 : staging.buildpacks[m].id # staging.buildpacks[k].id

\* ... and in it is the first that has it.
FirstUnpacked ==
  \A i \in DOMAIN staging.buildpacks :
    LET dir == BuildpackDir(staging.buildpacks[i].id) IN
    dir \in DOMAIN dirs =>
      \E k \in DOMAIN staging.buildpacks :
        /\ staging.buildpacks[k].id = staging.buildpacks[i].id
        /\ FirstOf(k)
        /\ dirs[dir] \in {staging.buildpacks[k].url, "nothing"}

TaskInv ==
  /\ TaskTypeOK
  /\ EnvironmentFollows
  /\ Progress
  /\ Unpacked
  /\ FirstUnpacked

-----------------------------------------------------------------------------

\* The fields of a request.
LEMMA StagingTyped ==
  ASSUME NEW s \in Stagings
  PROVE  /\ s.guid \in STRING
         /\ s.environment \in Seq([name : STRING, value : STRING])
         /\ s.buildpacks \in Seq([id : Seq(STRING) \ {<< >>}, url : STRING])
BY StagingsAssumption

\* The stager's own variables are set, each to the value StartStaging
\* assigns it, whatever they are written over.
LEMMA OwnOverride ==
  ASSUME NEW s, NEW g
  PROVE  LET e == Over(OwnEntries(s), g) IN
         /\ Required \cup DOMAIN g \subseteq DOMAIN e
         /\ e["CF_TASK_ID"] = s.guid
         /\ e["CF_SPACE"] = Space
         /\ e["CF_COMPLETION_CALLBACK_URL"] = <<"completed", s.guid>>
         /\ e["CF_BUILDPACKS"] = s.buildpacks
         /\ e["CF_BUILDPACKS_ORDER"] = BuildpackOrder(s.buildpacks)
         /\ \A n \in DOMAIN g \ (Required \cup {"CF_STACK"}) : e[n] = g[n]
<1> DEFINE c == CallbackEntries(s)
           b == BuildEntries(s)
           o == OwnEntries(s)
           e == Over(o, g)
<1>1. /\ DOMAIN c = {"CF_TASK_ID", "CF_COMPLETION_CALLBACK_URL", "CF_SPACE"}
      /\ c["CF_TASK_ID"] = s.guid
      /\ c["CF_SPACE"] = Space
      /\ c["CF_COMPLETION_CALLBACK_URL"] = <<"completed", s.guid>>
  BY DEF CallbackEntries
<1>2. /\ DOMAIN b = {"CF_STACK", "CF_BUILDPACKS", "CF_BUILDPACKS_ORDER",
                     "CF_BUILDPACK_APP_LIFECYCLE", "CF_APP_PACKAGE",
                     "CF_DROPLET_UPLOAD_LOCATION", "CF_SKIP_CERT_VERIFY",
                     "CF_SKIP_DETECT"}
      /\ b["CF_BUILDPACKS"] = s.buildpacks
      /\ b["CF_BUILDPACKS_ORDER"] = BuildpackOrder(s.buildpacks)
  BY DEF BuildEntries
<1> HIDE DEF c, b
<1>3. /\ DOMAIN o = DOMAIN c \cup DOMAIN b
      /\ \A n \in DOMAIN c : o[n] = c[n]
      /\ \A n \in DOMAIN b \ DOMAIN c : o[n] = b[n]
  BY DEF OwnEntries, Over, c, b
<1> HIDE DEF o
<1>4. /\ DOMAIN e = DOMAIN o \cup DOMAIN g
      /\ \A n \in DOMAIN o : e[n] = o[n]
      /\ \A n \in DOMAIN g \ DOMAIN o : e[n] = g[n]
  BY DEF Over
<1> HIDE DEF e
<1>5. DOMAIN o = Required \cup {"CF_STACK"}
  BY <1>1, <1>2, <1>3 DEF Required
<1> QED BY <1>1, <1>2, <1>3, <1>4, <1>5 DEF Required, o, e

\* A variable of the request has the value it is given last.
LEMMA LastValueWins ==
  ASSUME NEW entries \in Seq([name : STRING, value : STRING]),
         NEW i \in DOMAIN entries,
         \A k \in i + 1..Len(entries) : entries[k].name # entries[i].name
  PROVE  /\ entries[i].name \in DOMAIN ConvertEntries(entries)
         /\ ConvertEntries(entries)[entries[i].name] = entries[i].value
<1> DEFINE n == entries[i].name
           Last(j) == /\ entries[j].name = n
                      /\ \A k \in DOMAIN entries :
                           entries[k].name = n => k <= j
<1>1. Last(i)
  OBVIOUS
<1>2. \A j \in DOMAIN entries : Last(j) => j = i
  <2> SUFFICES ASSUME NEW j \in DOMAIN entries, Last(j)
               PROVE  j = i
    OBVIOUS
  <2>1. j <= i
    BY <1>1
  <2>2. i <= j
    OBVIOUS
  <2> QED BY <2>1, <2>2
<1>3. (CHOOSE j \in DOMAIN entries : Last(j)) = i
  <2> HIDE DEF Last
  <2> QED BY <1>1, <1>2
<1> QED BY <1>3 DEF ConvertEntries

-----------------------------------------------------------------------------

\* Nothing was called yet: the invariant holds at the start.
LEMMA InitTaskInv == Init => TaskInv
<1> SUFFICES ASSUME Init PROVE TaskInv
  OBVIOUS
<1>1. DOMAIN dirs = {}
  BY DEF Init
<1>2. staging.buildpacks \in Seq([id : Seq(STRING) \ {<< >>}, url : STRING])
  BY StagingTyped DEF Init
<1> QED
  BY <1>1, <1>2
  DEF Init, TaskInv, TaskTypeOK, EnvironmentFollows, Progress, Unpacked,
      FirstUnpacked

\* The steps of the stager keep it.
LEMMA StagerKeepsInv ==
  ASSUME TaskInv, StageCalled \/ StartStaging
  PROVE  TaskInv'
<1> USE DEF TaskInv, TaskTypeOK, EnvironmentFollows, Progress, Unpacked,
            FirstUnpacked, FirstOf
<1>1. CASE StageCalled
  BY <1>1 DEF StageCalled
<1>2. CASE StartStaging
  BY <1>2 DEF StartStaging
<1> QED BY <1>1, <1>2

\* The script finds what it insists on.
LEMMA CheckKeepsInv ==
  ASSUME TaskInv, CheckEnvironment
  PROVE  TaskInv'
<1>1. Required \subseteq DOMAIN env
  BY OwnOverride DEF CheckEnvironment, TaskInv, EnvironmentFollows
<1> QED
  BY <1>1
  DEF CheckEnvironment, TaskInv, TaskTypeOK, EnvironmentFollows, Progress,
      Unpacked, FirstUnpacked, FirstOf

\* A download leaves what is there alone.
LEMMA DownloadAdds ==
  ASSUME NEW url, NEW dir, NEW then, Download(url, dir, then)
  PROVE  /\ phase' \in {then, "exited"}
         /\ DOMAIN dirs \subseteq DOMAIN dirs'
         /\ DOMAIN dirs' \subseteq DOMAIN dirs \cup {dir}
         /\ phase' # "exited" => dir \in DOMAIN dirs'
         /\ \A d \in DOMAIN dirs : dirs'[d] = dirs[d]
         /\ dir \in DOMAIN dirs' \ DOMAIN dirs => dirs'[dir] \in {url, "nothing"}
<1>1. CASE dir \in DOMAIN dirs /\ UNCHANGED dirs /\ phase' = then
  BY <1>1
<1>2. ASSUME dir \notin DOMAIN dirs, phase' = then,
             NEW content \in {url} \cup {c \in {"nothing"} : MayFail},
             dirs' = Over(dirs, [d \in {dir} |-> content])
      PROVE  /\ DOMAIN dirs' = DOMAIN dirs \cup {dir}
             /\ \A d \in DOMAIN dirs : dirs'[d] = dirs[d]
             /\ dirs'[dir] = content
  BY <1>2 DEF Over
<1>3. CASE dir \notin DOMAIN dirs /\ UNCHANGED dirs /\ phase' = "exited"
  BY <1>3
<1> QED BY <1>1, <1>2, <1>3 DEF Download

\* Downloading a buildpack keeps the invariant: when its directory is not
\* there, no buildpack before it has its key, so it is the first that has.
LEMMA BuildpackKeepsInv ==
  ASSUME TaskInv, DownloadBuildpack
  PROVE  TaskInv'
<1> DEFINE bps == staging.buildpacks
           dir(i) == BuildpackDir(bps[i].id)
<1>1. /\ env["CF_BUILDPACKS"] = bps
      /\ bps \in Seq([id : Seq(STRING) \ {<< >>}, url : STRING])
      /\ next \in DOMAIN bps
  <2>1. env["CF_BUILDPACKS"] = bps
    BY OwnOverride DEF DownloadBuildpack, TaskInv, EnvironmentFollows
  <2>2. bps \in Seq([id : Seq(STRING) \ {<< >>}, url : STRING])
    BY StagingTyped DEF TaskInv, TaskTypeOK
  <2> QED BY <2>1, <2>2 DEF DownloadBuildpack, TaskInv, TaskTypeOK
<1>2. Download(bps[next].url, dir(next), "buildpacks")
  BY <1>1 DEF DownloadBuildpack
<1>3. /\ phase' \in {"buildpacks", "exited"}
      /\ DOMAIN dirs \subseteq DOMAIN dirs'
      /\ DOMAIN dirs' \subseteq DOMAIN dirs \cup {dir(next)}
      /\ phase' # "exited" => dir(next) \in DOMAIN dirs'
      /\ \A d \in DOMAIN dirs : dirs'[d] = dirs[d]
      /\ dir(next) \in DOMAIN dirs' \ DOMAIN dirs =>
           dirs'[dir(next)] \in {bps[next].url, "nothing"}
  BY <1>2, DownloadAdds
<1>4. /\ phase = "buildpacks"
      /\ next' = next + 1
      /\ UNCHANGED <<staging, env>>
  BY DEF DownloadBuildpack
<1>5. TaskTypeOK' /\ EnvironmentFollows' /\ Progress'
  BY <1>3, <1>4 DEF TaskInv, TaskTypeOK, EnvironmentFollows, Progress
<1>6. Unpacked'
  <2> SUFFICES ASSUME phase' # "exited", NEW i \in DOMAIN bps, i < next + 1
               PROVE  dir(i) \in DOMAIN dirs'
    BY <1>4 DEF Unpacked
  <2>1. CASE i < next
    BY <2>1, <1>3, <1>4 DEF TaskInv, Unpacked
  <2>2. CASE i = next
    BY <2>2, <1>3
  <2> QED BY <2>1, <2>2, <1>1 DEF TaskInv, TaskTypeOK
<1>7. FirstUnpacked'
  <2> SUFFICES ASSUME NEW i \in DOMAIN bps, dir(i) \in DOMAIN dirs'
               PROVE  \E k \in DOMAIN bps :
                        /\ bps[k].id = bps[i].id
                        /\ FirstOf(k)
                        /\ dirs'[dir(i)] \in {bps[k].url, "nothing"}
    BY <1>4 DEF FirstUnpacked, FirstOf
  <2>1. CASE dir(i) \in DOMAIN dirs
    BY <2>1, <1>3 DEF TaskInv, FirstUnpacked
  <2>2. CASE dir(i) \notin DOMAIN dirs
    <3>1. dir(i) = dir(next)
      BY <2>2, <1>3
    <3>2. bps[i].id = bps[next].id
      BY <3>1 DEF BuildpackDir
    <3>3. FirstOf(next)
      BY <2>2, <3>1, <1>1, <1>4 DEF FirstOf, TaskInv, TaskTypeOK, Unpacked
    <3>4. dirs'[dir(i)] \in {bps[next].url, "nothing"}
      BY <2>2, <3>1, <1>3
    <3> QED BY <3>2, <3>3, <3>4, <1>1
  <2> QED BY <2>1, <2>2
<1> QED BY <1>5, <1>6, <1>7 DEF TaskInv

\* The other downloads add a directory where no buildpack is looked for any
\* more.
LEMMA OthersKeepInv ==
  ASSUME TaskInv, DownloadLifecycle \/ DownloadApp
  PROVE  TaskInv'
<1> DEFINE bps == staging.buildpacks
<1>1. /\ phase' \in {"app", "building", "exited"}
      /\ DOMAIN dirs \subseteq DOMAIN dirs'
      /\ \A d \in DOMAIN dirs : dirs'[d] = dirs[d]
      /\ UNCHANGED <<staging, env, next>>
  BY DownloadAdds DEF DownloadLifecycle, DownloadApp
<1>2. /\ phase \in {"buildpacks", "app"}
      /\ bps \in Seq([id : Seq(STRING) \ {<< >>}, url : STRING])
      /\ next > Len(bps)
  <2>1. bps \in Seq([id : Seq(STRING) \ {<< >>}, url : STRING])
    BY StagingTyped DEF TaskInv, TaskTypeOK
  <2>2. CASE DownloadLifecycle
    <3>1. env["CF_BUILDPACKS"] = bps
      BY <2>2, OwnOverride DEF DownloadLifecycle, TaskInv, EnvironmentFollows
    <3> QED BY <2>1, <2>2, <3>1 DEF DownloadLifecycle
  <2>3. CASE DownloadApp
    BY <2>1, <2>3 DEF DownloadApp, TaskInv, Progress
  <2> QED BY <2>2, <2>3
<1>3. \A i \in DOMAIN bps : BuildpackDir(bps[i].id) \in DOMAIN dirs
  BY <1>2 DEF TaskInv, TaskTypeOK, Unpacked
<1>4. TaskTypeOK' /\ EnvironmentFollows' /\ Progress'
  BY <1>1, <1>2 DEF TaskInv, TaskTypeOK, EnvironmentFollows, Progress
<1>5. Unpacked'
  BY <1>1, <1>3 DEF Unpacked
<1>6. FirstUnpacked'
  BY <1>1, <1>3 DEF TaskInv, FirstUnpacked, FirstOf
<1> QED BY <1>4, <1>5, <1>6 DEF TaskInv

\* The invariant holds throughout.
LEMMA TaskInvariant == Spec => []TaskInv
<1>1. TaskInv /\ [Next]_taskVars => TaskInv'
  <2> SUFFICES ASSUME TaskInv, [Next]_taskVars
               PROVE  TaskInv'
    OBVIOUS
  <2>1. CASE UNCHANGED taskVars
    BY <2>1
    DEF taskVars, TaskInv, TaskTypeOK, EnvironmentFollows, Progress, Unpacked,
        FirstUnpacked, FirstOf
  <2>2. CASE Next
    BY <2>2, StagerKeepsInv, CheckKeepsInv, BuildpackKeepsInv, OthersKeepInv
    DEF Next
  <2> QED BY <2>1, <2>2
<1> QED BY <1>1, InitTaskInv, PTL DEF Spec

-----------------------------------------------------------------------------

\* No job the stager started is turned away by the checks of the script.
THEOREM ScriptIsConfiguredAlways == Spec => []ScriptIsConfigured
<1>1. TaskInv => ScriptIsConfigured
  BY DEF TaskInv, TaskTypeOK, ScriptIsConfigured
<1> QED BY <1>1, TaskInvariant, PTL

\* The environment is the stager's over the request's, for any request.
THEOREM EnvironmentIsOwnAlways == Spec => []EnvironmentIsOwn
<1>1. TaskInv => EnvironmentIsOwn
  <2> SUFFICES ASSUME TaskInv, phase \notin {"called", "converted"}
               PROVE  EnvironmentIsOwn
    BY DEF EnvironmentIsOwn
  <2> DEFINE entries == staging.environment
  <2>1. env = Over(OwnEntries(staging), ConvertEntries(entries))
    BY DEF TaskInv, EnvironmentFollows
  <2>2. entries \in Seq([name : STRING, value : STRING])
    BY StagingTyped DEF TaskInv, TaskTypeOK
  <2>3. ASSUME NEW i \in DOMAIN entries,
               entries[i].name \notin Required \cup {"CF_STACK"},
               ~ \E k \in i + 1..Len(entries) :
                   entries[k].name = entries[i].name
        PROVE  env[entries[i].name] = entries[i].value
    <3>1. /\ entries[i].name \in DOMAIN ConvertEntries(entries)
          /\ ConvertEntries(entries)[entries[i].name] = entries[i].value
      BY <2>2, <2>3, LastValueWins
    <3> QED BY <2>1, <2>3, <3>1, OwnOverride
  <2>4. /\ env["CF_TASK_ID"] = staging.guid
        /\ env["CF_SPACE"] = Space
        /\ env["CF_COMPLETION_CALLBACK_URL"] = <<"completed", staging.guid>>
        /\ env["CF_BUILDPACKS"] = staging.buildpacks
    BY <2>1, OwnOverride
  <2> QED BY <2>3, <2>4 DEF EnvironmentIsOwn
<1> QED BY <1>1, TaskInvariant, PTL

\* The builder finds every buildpack it is told of, however many there are
\* and whichever of them have the same key.
THEOREM BuilderFindsBuildpacksAlways == Spec => []BuilderFindsBuildpacks
<1>1. TaskInv => BuilderFindsBuildpacks
  <2> SUFFICES ASSUME TaskInv, phase = "building"
               PROVE  BuilderFindsBuildpacks
    BY DEF BuilderFindsBuildpacks
  <2> DEFINE bps == staging.buildpacks
  <2>1. bps \in Seq([id : Seq(STRING) \ {<< >>}, url : STRING])
    BY StagingTyped DEF TaskInv, TaskTypeOK
  <2>2. env["CF_BUILDPACKS_ORDER"] = BuildpackOrder(bps)
    BY OwnOverride DEF TaskInv, EnvironmentFollows
  <2>3. ASSUME NEW i \in DOMAIN bps
        PROVE  /\ BuildpackDir(bps[i].id) \in DOMAIN dirs
               /\ \E k \in DOMAIN bps :
                    /\ bps[k].id = bps[i].id
                    /\ FirstOf(k)
                    /\ dirs[BuildpackDir(bps[i].id)] \in {bps[k].url, "nothing"}
    <3>1. i < next
      BY <2>1 DEF TaskInv, TaskTypeOK, Progress
    <3>2. BuildpackDir(bps[i].id) \in DOMAIN dirs
      BY <3>1 DEF TaskInv, Unpacked
    <3> QED BY <3>2 DEF TaskInv, FirstUnpacked
  <2> DEFINE order == env["CF_BUILDPACKS_ORDER"]
             dir(id) == BuildpackDir(id)
  <2>4. ASSUME NEW i \in DOMAIN bps
        PROVE  bps[i].id \in Seq(STRING)
    <3> DEFINE B == [id : Seq(STRING) \ {<< >>}, url : STRING]
    <3>1. bps \in Seq(B)
      BY <2>1
    <3>2. bps[i] \in B
      <4> HIDE DEF B
      <4> QED BY <2>4, <3>1
    <3> QED BY <3>2
  <2>5. ASSUME NEW i \in DOMAIN bps, Len(bps[i].id) = 1
        PROVE  /\ <<i, 1>> \in DOMAIN order
               /\ <<order[<<i, 1>>]>> = bps[i].id
    <3>1. DOMAIN bps[i].id = {1} /\ bps[i].id = <<bps[i].id[1]>>
      BY <2>4, <2>5
    <3>2. <<i, 1>> \in Places(bps)
      BY <3>1 DEF Places
    <3> QED BY <2>2, <3>1, <3>2 DEF BuildpackOrder
  <2>6. ASSUME \A i \in DOMAIN bps : Len(bps[i].id) = 1
        PROVE  DOMAIN order = (DOMAIN bps) \X {1}
    <3>1. \A i \in DOMAIN bps : DOMAIN bps[i].id = {1}
      BY <2>4, <2>6
    <3>2. Places(bps) = (DOMAIN bps) \X {1}
      BY <3>1 DEF Places
    <3> QED BY <2>2, <3>2 DEF BuildpackOrder
  <2>7. ASSUME NEW i \in DOMAIN bps, Len(bps[i].id) = 1
        PROVE  /\ dir(<<order[<<i, 1>>]>>) \in DOMAIN dirs
               /\ \E k \in DOMAIN bps :
                    /\ bps[k].id = bps[i].id
                    /\ \A m \in 1..k - 1 : bps[m].id # bps[i].id
                    /\ dirs[dir(<<order[<<i, 1>>]>>)] \in
                         {bps[k].url, "nothing"}
    BY <2>3, <2>5, <2>7 DEF FirstOf
  <2> QED BY <2>6, <2>7 DEF BuilderFindsBuildpacks
<1> QED BY <1>1, TaskInvariant, PTL

-----------------------------------------------------------------------------
(***************************************************************************)
(* The environment and the script it reads implement StagingScript.        *)
(***************************************************************************)

ScriptView == <<EnvironmentJobs, ScriptPod>>

\* A running pod with its phase changed.
LEMMA ScriptEnters ==
  ASSUME NEW to, phase \in {"buildpacks", "app"}, phase' = to,
         to \in {"building", "exited"}, UNCHANGED <<staging, env>>
  PROVE  Script!Enter("pod", to)
BY DEF Script!Enter, ScriptPod, EnvironmentJob

\* A request that is converted makes no job yet, and StartStaging makes the
\* one of the guid.
LEMMA StagerRefines ==
  ASSUME TaskInv, TaskInv', StageCalled \/ StartStaging
  PROVE  [ScriptStep]_ScriptView
<1>1. CASE StageCalled
  BY <1>1 DEF StageCalled, ScriptView, EnvironmentJobs, ScriptPod
<1>2. CASE StartStaging
  <2>1. EnvironmentJobs = {} /\ UNCHANGED ScriptPod
    BY <1>2 DEF StartStaging, EnvironmentJobs, ScriptPod
  <2>2. EnvironmentJobs' = {Script!NewJob(staging.guid, Space)}
    <3>1. /\ env'["CF_TASK_ID"] = staging.guid
          /\ env'["CF_SPACE"] = Space
      BY <1>2, OwnOverride DEF StartStaging
    <3>2. staging.guid \in StagingGuids
      BY DEF TaskInv, TaskTypeOK, StagingGuids
    <3> QED
      BY <1>2, <3>1, <3>2
      DEF StartStaging, EnvironmentJobs, EnvironmentJob, Script!NewJob,
          Script!formatStagingNamespace, StagingNamespace
  <2>3. Script!StartStaging(staging.guid, Space, "nil")
    BY <1>2, <2>1, <2>2
    DEF Script!StartStaging, Script!NewJob, Script!JobsNamed, Script!Effected,
        Script!formatStagingNamespace, StagingNamespace, StagingGuids, TaskInv,
        TaskTypeOK
  <2> QED BY <2>1, <2>3 DEF ScriptStep
<1> QED BY <1>1, <1>2

\* The script passes its checks, and is then a pod that downloads.
LEMMA CheckRefines ==
  ASSUME TaskInv, TaskInv', CheckEnvironment
  PROVE  ScriptStep
<1>1. phase = "started" /\ phase' = "buildpacks" /\ UNCHANGED <<staging, env>>
  BY DEF CheckEnvironment, TaskInv, TaskTypeOK
<1>2. EnvironmentJobs = {EnvironmentJob} /\ UNCHANGED EnvironmentJobs
  BY <1>1 DEF EnvironmentJobs, EnvironmentJob
<1>3. Script!StartPod("pod", EnvironmentJob)
  BY <1>1, <1>2
  DEF Script!StartPod, Script!LivePods, Script!NoPod, ScriptPod, EnvironmentJob
<1> QED BY <1>2, <1>3 DEF ScriptStep

\* What is one step of downloading there is many here: each of them leaves
\* the pod downloading, ends it, or is the last.
LEMMA DownloadRefines ==
  ASSUME TaskInv, DownloadBuildpack \/ DownloadLifecycle \/ DownloadApp
  PROVE  [ScriptStep]_ScriptView
<1>1. /\ phase \in {"buildpacks", "app"}
      /\ UNCHANGED <<staging, env>>
      /\ \/ phase' \in {"buildpacks", "app"}
         \/ phase' = "building" /\ phase = "app"
         \/ phase' = "exited" /\ MayFail
  BY DEF DownloadBuildpack, DownloadLifecycle, DownloadApp, Download
<1>2. UNCHANGED EnvironmentJobs
  BY <1>1 DEF EnvironmentJobs, EnvironmentJob
<1>3. CASE phase' \in {"buildpacks", "app"}
  BY <1>1, <1>2, <1>3 DEF ScriptView, ScriptPod, EnvironmentJob
<1>4. CASE phase' \in {"building", "exited"}
  <2>1. Script!Enter("pod", phase')
    BY <1>1, <1>4, ScriptEnters
  <2>2. ScriptPod.phase = "downloading"
    BY <1>1 DEF ScriptPod
  <2>3. phase' = "building" \/ "build" \in {f \in {"build"} : MayFail}
    BY <1>1, <1>4
  <2>4. Script!Download("pod")
    BY <1>4, <2>1, <2>2, <2>3 DEF Script!Download
  <2> QED BY <1>2, <2>4 DEF ScriptStep
<1> QED BY <1>1, <1>3, <1>4

\* For any request, what the stager and the script make of it is the job, the
\* pod and the download of StagingScript.
THEOREM EnvironmentImplementsScript == Spec => ImplementsScript
<1>1. Init => EnvironmentJobs = {} /\ Script!ScriptInit
  BY DEF Init, EnvironmentJobs, ScriptPod, Script!ScriptInit, Script!NoPod
<1>2. TaskInv /\ TaskInv' /\ [Next]_taskVars => [ScriptStep]_ScriptView
  <2> SUFFICES ASSUME TaskInv, TaskInv', [Next]_taskVars
               PROVE  [ScriptStep]_ScriptView
    OBVIOUS
  <2>1. CASE UNCHANGED taskVars
    BY <2>1
    DEF taskVars, ScriptView, EnvironmentJobs, EnvironmentJob, ScriptPod
  <2>2. CASE Next
    BY <2>2, StagerRefines, CheckRefines, DownloadRefines DEF Next
  <2> QED BY <2>1, <2>2
<1> QED
  BY <1>1, <1>2, TaskInvariant, PTL DEF Spec, ImplementsScript, ScriptView

=============================================================================
