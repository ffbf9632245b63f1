SPECIFICATION Spec
CONSTANTS
  Stagings <- MCStagings
  Space = "red"
  MayFail = TRUE
INVARIANTS
  ScriptIsConfigured
  EnvironmentIsOwn
  BuilderFindsBuildpacks
PROPERTY
  ImplementsScript
CHECK_DEADLOCK FALSE
