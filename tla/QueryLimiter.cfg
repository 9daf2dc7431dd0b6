\* Capacity for one limiter, one query per project and two in all.
SPECIFICATION FairSpec
CONSTANTS
  q1 = q1
  q2 = q2
  q3 = q3
  p1 = p1
  p2 = p2
  Queries = {q1, q2, q3}
  Projects = {p1, p2}
  ProjectsOf <- OneOfBoth
  NoProject = NoProject
  Limiters = {1, 2, 3, 4}
  NoLimiter = NoLimiter
  MaxPerProject = 1
  MaxGlobal = 2
  MaxQueue = 2
  MaxCached = 1
INVARIANTS TypeOK CountersMatchQueries PerProjectLimit
PROPERTIES OnlyLruEvictsActive QueuedQueryProceeds
