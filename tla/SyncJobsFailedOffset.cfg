\* Two jobs, one consumer, one lost database update.
SPECIFICATION Spec
CONSTANTS
  i1 = i1
  l1 = l1
  a1 = a1
  m1 = m1
  c1 = c1
  c2 = c2
  NoOwner = NoOwner
  Producers = {i1, l1}
  Consumers = {c1}
  Role <- WorkerRoles
  MaxJobs = 2
  MaxFaults = 1
INVARIANT FailedOffsetNotCommitted
CHECK_DEADLOCK FALSE
