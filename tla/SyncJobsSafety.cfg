\* The two background workers, two consumers.
SPECIFICATION Spec
CONSTANTS
  i1 = i1
  l1 = l1
  a1 = a1
  m1 = m1
  c1 = c1
  c2 = c2
  NoOwner = NoOwner
  Producers = {i1, l1}
  Consumers = {c1, c2}
  Role <- WorkerRoles
  MaxJobs = 2
  MaxFaults = 2
SYMMETRY ConsumerSymmetry
INVARIANTS TypeOK CommittedMeansHandled CompletedMeansDone VisibleMeansPublished
CHECK_DEADLOCK FALSE
