SPECIFICATION Spec
CONSTANTS
  Uids = {0}
  Faults = {"caps", "seccomp"}
  MaxFaults = 1
  ExitCodes = {0}
  PollMax = 1
  Events = {}
INVARIANT HardenedExec
