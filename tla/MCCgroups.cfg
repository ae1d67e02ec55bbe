SPECIFICATION Spec
CONSTANTS
  l1 = l1
  l2 = l2
  l3 = l3
  Launchers = {l1, l2, l3}
  Failing = {l1, l2}
  MayCrash = {l2, l3}
INVARIANTS
  NothingLeft
  AloneIsLimited
