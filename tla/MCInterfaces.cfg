SPECIFICATION Spec
CONSTANTS
  l1 = l1
  l2 = l2
  Launchers <- LauncherSet
  Requests <- RequestSets
  Suffixes <- SuffixSet
  HostLinks <- HostLinkSet
  Failing = {l1}
  MayCrash = {l2}
INVARIANTS Connected AloneCreates NothingLeft HostLinksStay
