SPECIFICATION FairSpec
CONSTANTS
  Hash = {a, b}
  NoHash = NoHash
  Empty = Empty
  Attempts = 2
  Runs = 1
  Reloads = 1
  MaxSeq = 3
  MaxDeaths = 1
INVARIANTS
  TypeOK
  RecordedWasHeld
PROPERTY
  SeederPrevails
CHECK_DEADLOCK FALSE
