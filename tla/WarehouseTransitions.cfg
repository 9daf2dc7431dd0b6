\* Every job type, one consumer that fails and dies.
SPECIFICATION Spec
CONSTANTS
  c1 = c1
  c2 = c2
  Consumers = {c1}
  NTables = 2
  MaxRow = 2
  MaxChanges = 2
  PkOf <- PlainPk
  DateOf <- OneDate
  Today = 2
  JobKinds = {"sync", "upgrade_to_warm", "upgrade_to_hot", "downgrade_to_warm", "downgrade_to_cold"}
  MaxJobs = 3
  MaxFaults = 2
PROPERTIES CheckpointAdvanceIsBacked ExportedBeforeDrop
CHECK_DEADLOCK FALSE
