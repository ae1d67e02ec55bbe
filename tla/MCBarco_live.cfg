SPECIFICATION FairSpec
CONSTANTS
  Uids = {0}
  Faults <- AllFaults
  MaxFaults = 1
  ExitCodes = {0}
  PollMax = 1
  Events = {"kill", "crash"}
PROPERTIES
  KeepsPromise
  Settles
  LauncherReturns
  OrphanSettles
