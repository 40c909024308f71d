CONSTANTS
  s1 = s1
  s2 = s2
  NoServer = NoServer
  Servers = {s1}
  Script <- ProviderScript
  UseMutex = FALSE
  MaxFaults <- OneReadFault
SPECIFICATION FairSpec
PROPERTIES
  FailedReadIsTransient
CHECK_DEADLOCK FALSE
