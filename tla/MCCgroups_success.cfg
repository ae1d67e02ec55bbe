SPECIFICATION Spec
CONSTANTS
  l1 = l1
  l2 = l2
  l3 = l3
  Launchers = {l1, l2}
  Failing = {}
  MayCrash = {}
INVARIANT SuccessMeansLimited
