\* A hot source of two tables is downgraded; one export fails.
SPECIFICATION Spec
CONSTANTS
  c1 = c1
  c2 = c2
  Consumers = {c1}
  NTables = 2
  MaxRow = 2
  MaxChanges = 2
  PkOf <- PlainPk
  DateOf <- OneDate
  Today = 2
  JobKinds = {"upgrade_to_hot", "downgrade_to_warm"}
  MaxJobs = 2
  MaxFaults = 1
PROPERTY ClickHouseDroppedAfterR2
CHECK_DEADLOCK FALSE
