CONSTANTS
  Snapshots = 2
  Retention = 1
  MaxSeq = 4
  MaxFaults = 0
SPECIFICATION Spec
INVARIANTS
  ReloadSatisfied
CHECK_DEADLOCK FALSE
