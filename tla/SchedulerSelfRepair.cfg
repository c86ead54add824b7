CONSTANTS
  Pods = {p1}
  Nodes = {n1, n2}
  NoNode = NoNode
  AllowedPods = 1
  Capacity = 1
  MaxChanges = 1
  MaxFailures = 1
SPECIFICATION FairSpec
PROPERTY SelfRepairs
CHECK_DEADLOCK FALSE
