SPECIFICATION Spec
CONSTANTS
  c1 = c1
  c2 = c2
  alpine = alpine
  busybox = busybox
  slash = slash
  Containers = {c1, c2}
  Dirs = {alpine, busybox, slash}
  Slash = slash
  AllCaps <- CapSet
  DropCaps <- DropSeq
  Faults <- AllCalls
INVARIANTS OldRootGone HostKept LeftOvers OwnResolver DroppedStay FilterInForce
