\* A hot source is synced twice, without any fault.
SPECIFICATION Spec
CONSTANTS
  c1 = c1
  c2 = c2
  Consumers = {c1}
  NTables = 1
  MaxRow = 2
  MaxChanges = 2
  PkOf <- PlainPk
  DateOf <- OneDate
  Today = 2
  JobKinds = {"upgrade_to_hot", "sync"}
  MaxJobs = 2
  MaxFaults = 0
INVARIANT CheckpointedRowsAreQueryable
CHECK_DEADLOCK FALSE
