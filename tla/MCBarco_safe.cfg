SPECIFICATION Spec
CONSTANTS
  Uids = {0, 1}
  Faults <- AllFaults
  MaxFaults = 2
  ExitCodes = {0, 3}
  PollMax = 2
  Events = {"kill"}
INVARIANTS
  TypeOK
  Confined
  HeldWhileRunning
  CleanReturn
  FreeAfterExit
  PidStillOurs
  StaleCloseSafe
  ExitCodeHonest
