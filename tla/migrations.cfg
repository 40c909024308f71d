CONSTANTS
  s1 = s1
  s2 = s2
  NoServer = NoServer
  Servers = {s1, s2}
  Script <- PluginScript
  UseMutex = TRUE
  MaxFaults <- AllFaults
SPECIFICATION FairSpec
INVARIANTS
  MigrationsTypeOK
  SchemaMatchesVersion
  UpIsMigrated
PROPERTIES
  VersionNeverGoesBack
  EveryServerComesUp
CHECK_DEADLOCK FALSE
