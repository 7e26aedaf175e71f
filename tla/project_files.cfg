SPECIFICATION Spec
CONSTANTS
  p1 = p1
  p2 = p2
  n1 = n1
  n2 = n2
  s1 = s1
  s2 = s2
  s3 = s3
  s4 = s4
  None = None
  Procs = {p1, p2}
  Serves <- MCServes
  Public = {n1, n2}
  Paths <- MCPaths
  Private = {s1, s2, s3, s4}
  LinkTo = n2
  Inodes <- MCInodes
  Root = 1
  Trees <- MCTrees
  MaxRequests <- MCRequests
  MaxLinks = 1
INVARIANTS TypeOK NothingHidden
PROPERTIES NeverHalfDeleted
CHECK_DEADLOCK FALSE
