SPECIFICATION ChainSpec
CONSTANTS
  Snapshots = 2
  Retention = 1
  MaxSeq = 2
  MaxFaults = 0
INVARIANTS
  ShownWasPublished
  NeverOlderTorrent
CHECK_DEADLOCK FALSE
