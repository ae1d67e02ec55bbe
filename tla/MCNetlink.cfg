SPECIFICATION FairSpec
CONSTANTS
  launcher = launcher  rival = rival  child = child  host = host  cont = cont
  Clients <- ClientSet
  Home <- HomeOf
  Calls <- CallSets
  Worlds <- WorldSet
  MaxCalls = 1
  PollMax = 1
  Faults = {"socket", "timeo", "send", "answer"}
INVARIANTS SuccessIsReal FailureIsClean NoSocketLeft PrefixKept
PROPERTY CallReturns
