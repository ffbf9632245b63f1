------------------------------ MODULE RunConfig ------------------------------
(***************************************************************************)
(* cmd/root.go and cmd/run.go: from the command line, the environment and  *)
(* a configuration file to ServerConfig.                                   *)
(*                                                                         *)
(* A setting has a value at every source; which value does not matter, so  *)
(* it is written <<setting, source>>.  A source gives all settings or none.*)
(***************************************************************************)
EXTENDS Naturals

CONSTANT Seconds   \* [Settings \X Sources -> Nat]: viper.GetDuration

VARIABLES
  sources,     \* sources that give settings
  cfgFile,     \* --config names a configuration file
  configFile,  \* the file viper will read, "" when it is to look for one
  config       \* ServerConfig, once it is loaded

configVars == <<sources, cfgFile, configFile, config>>

\* The file of --config and the one in $HOME; flags have defaults.
Files == {"--config", "$HOME/.k8s-stager"}
Sources == {"flag", "environment", "default"} \cup Files

\* The flag each field of ServerConfig is read from.
FlagOf ==
  [LogLevel                      |-> "log-level",
   Listen                        |-> "listen",
   Port                          |-> "port",
   AdvertiseAddress              |-> "advertise-address",
   StagerId                      |-> "id",
   StagingImage                  |-> "staging-image",
   K8SAPIEndpoint                |-> "k8s-endpoint",
   K8SNamespace                  |-> "k8s-namespace",
   StagingStopGracePeriodSeconds |-> "k8s-endpoint",
   SkipCertVerification          |-> "skip-cert-verify",
   AppLifecycleURL               |-> "app-lifecycle-url",
   CustomImageCommand            |-> "custom-image-command",
   KBSClientCertFile             |-> "k8s-client-cert",
   K8SClientKeyFile              |-> "k8s-client-key",
   K8SCACertFile                 |-> "k8s-cacert",
   CCBaseURL                     |-> "cc-baseurl",
   CCUsername                    |-> "cc-username",
   CCPassword                    |-> "cc-password",
   ConsulCluster                 |-> "consul-cluster"]

Settings == {FlagOf[f] : f \in DOMAIN FlagOf} \cup {"stage-stop-grace"}

NotLoaded == << >>

ConfigInit ==
  /\ sources \in {s \in SUBSET Sources : "default" \in s}
  /\ cfgFile \in {given \in BOOLEAN : "--config" \in sources => given}
  /\ configFile = ""
  /\ config = NotLoaded

\* viper.SetConfigFile, then SetConfigName, which forgets the file.  A file
\* that is not there, or cannot be read, is no error.
initConfig ==
  /\ configFile = ""
  /\ configFile' = "$HOME/.k8s-stager"
  /\ UNCHANGED <<sources, cfgFile, config>>

\* viper: the first of the sources that gives the setting.
Get(name) ==
  LET order == <<"flag", "environment", configFile, "default">>
      first == CHOOSE i \in 1..4 : /\ order[i] \in sources
                                   /\ \A j \in 1..(i - 1) : order[j] \notin sources
  IN  <<name, order[first]>>

\* All fields hold the value of their setting, but for the grace period,
\* which is the value taken for a duration.
LoadConfiguration ==
  /\ configFile # ""
  /\ config = NotLoaded
  /\ config' = [f \in DOMAIN FlagOf |->
                  IF f = "StagingStopGracePeriodSeconds"
                  THEN Seconds[Get(FlagOf[f])]
                  ELSE Get(FlagOf[f])]
  /\ UNCHANGED <<sources, cfgFile, configFile>>

ConfigNext == initConfig \/ LoadConfiguration

ConfigSpec == ConfigInit /\ [][ConfigNext]_configVars

-----------------------------------------------------------------------------

\* "Grace period for staging stop": the grace period handlers pass to
\* StopStaging is the one given with stage-stop-grace (run.go:45).
GracePeriodIsConfigured ==
  config # NotLoaded =>
    config.StagingStopGracePeriodSeconds = Seconds[Get("stage-stop-grace")]

\* "config file (default is $HOME/.k8s-stager.yaml)": a setting that only the
\* file given with --config and a default give is the one of that file
\* (initConfig).
ConfigFileIsUsed ==
  config # NotLoaded /\ cfgFile /\ sources = {"--config", "default"} =>
    config.K8SNamespace = <<"k8s-namespace", "--config">>

=============================================================================
