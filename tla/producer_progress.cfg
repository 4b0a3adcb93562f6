CONSTANTS
  Snapshots = 3
  Retention = 1
  MaxSeq = 3
  MaxFaults = 1
SPECIFICATION FairSpec
INVARIANTS
  TypeOK
  CanonicalPair
  RetainedPairs
  StatePublished
PROPERTIES
  StateNeverEarlier
  SuccessMeansPublished
  PublishesUpstream
CHECK_DEADLOCK FALSE
