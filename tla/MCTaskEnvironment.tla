-------------------------- MODULE MCTaskEnvironment --------------------------
(***************************************************************************)
(* TaskEnvironment on requests with up to two variables and three          *)
(* buildpacks, in which names, keys and urls may be the same, and a key    *)
(* may have a comma between two others.                                    *)
(***************************************************************************)
EXTENDS TaskEnvironment, SequencesExt

Entries == [name : {"PATH", "CF_TASK_ID", "CF_APP_PACKAGE"}, value : {"v", "w"}]
Buildpacks == [id : {<<"ruby">>, <<"go">>, <<"ruby", "go">>}, url : {"u1", "u2"}]

MCStagings ==
  [guid : {"g1"}, environment : SeqOf(Entries, 2),
   buildpacks : SeqOf(Buildpacks, 3)]

=============================================================================
