SPECIFICATION Spec
CONSTANTS
  launcher = launcher  rival = rival  child = child  host = host  cont = cont
  Clients <- ClientSet
  Home <- HomeOf
  Calls <- CallSets
  Worlds <- WorldSet
  MaxCalls = 1
  PollMax = 1
  Faults = {}
INVARIANT DeletedMeansZero
