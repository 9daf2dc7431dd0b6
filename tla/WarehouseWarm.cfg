\* Warm syncs of rows in two dates, two consumers: redelivery and stale consumers.
SPECIFICATION Spec
CONSTANTS
  c1 = c1
  c2 = c2
  Consumers = {c1, c2}
  NTables = 1
  MaxRow = 3
  MaxChanges = 3
  PkOf <- UpdatedPk
  DateOf <- TwoDates
  Today = 2
  JobKinds = {"upgrade_to_warm", "sync"}
  MaxJobs = 3
  MaxFaults = 1
SYMMETRY ConsumerSymmetry
INVARIANTS TypeOK CheckpointedRowsAreQueryable 
CHECK_DEADLOCK FALSE
