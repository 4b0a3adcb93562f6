SPECIFICATION FairSpec
CONSTANTS
  a = a
  b = b
  Hash = {a, b}
  NoHash = NoHash
  Absent = Absent
  Empty = Empty
  Garbled = Garbled
  Signed <- TwoRecords
  MaxDeaths = 1
  MaxFailures = 1
INVARIANT
  TypeOK
PROPERTIES
  CleanStop
  Converges
CHECK_DEADLOCK FALSE
