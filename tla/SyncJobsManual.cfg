\* The manual-sync endpoint alone, with no fault at all.
SPECIFICATION FairSpec
CONSTANTS
  i1 = i1
  l1 = l1
  a1 = a1
  m1 = m1
  c1 = c1
  c2 = c2
  NoOwner = NoOwner
  Producers = {m1}
  Consumers = {c1}
  Role <- ManualRoles
  MaxJobs = 2
  MaxFaults = 0
PROPERTY ManualSyncRuns
CHECK_DEADLOCK FALSE
