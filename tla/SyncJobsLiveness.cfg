\* A worker, whose message may overtake its row, and the endpoints as producers;
\* consumers may crash, lose the partition and lose acknowledgements.
SPECIFICATION FairSpec
CONSTANTS
  i1 = i1
  l1 = l1
  a1 = a1
  m1 = m1
  c1 = c1
  c2 = c2
  NoOwner = NoOwner
  Producers = {i1, a1, m1}
  Consumers = {c1, c2}
  Role <- MixedRoles
  MaxJobs = 1
  MaxFaults = 2
PROPERTIES QueueIsAtLeastOnce EveryMessageHandled PublishedJobSettles
CHECK_DEADLOCK FALSE
