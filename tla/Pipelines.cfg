\* One pipeline, two pods, one event that may be sent twice.
SPECIFICATION FairSpec
CONSTANTS
  p1 = p1
  c1 = c1
  c2 = c2
  Pods = {c1, c2}
  NoPod = NoPod
  Pipes = {p1}
  Payloads <- Graphs
  Absent = Absent
  Deleted = Deleted
  Subs <- OneSub
  NoFilter = NoFilter
  MaxEvents = 1
  MaxTasks = 2
  MaxEdits = 1
  MaxFaults = 1
INVARIANTS TypeOK RunOrderSound SucceededWroteAllSinks RecordedOutcome OneStreamPerPod
PROPERTIES DispatcherIsAtLeastOnce RunSettles
CHECK_DEADLOCK FALSE
