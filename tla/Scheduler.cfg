CONSTANTS
  p1 = p1
  p2 = p2
  Pods = {p1, p2}
  Nodes = {n1, n2}
  NoNode = NoNode
  AllowedPods = 1
  Capacity = 2
  MaxChanges = 3
  MaxFailures = 2
SPECIFICATION FairSpec
CONSTRAINT FewUpsets
INVARIANTS
  EachPodCountedOnce
  NoOvercommit
PROPERTY CacheConverges
CHECK_DEADLOCK FALSE
