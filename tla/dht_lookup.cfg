SPECIFICATION FairSpec
CONSTANTS
  a = a
  b = b
  c = c
  Hash = {a, b, c}
  NoHash = NoHash
  Signed <- TwiceSigned
  Unsigned <- Bogus
  Attempts = 2
  MaxOpen = 1
  MaxLate = 1
INVARIANTS
  TypeOK
PROPERTIES
  FreshAnswer
  PromiseKept
  DiscoveryReturns
  NewestFound
CHECK_DEADLOCK FALSE
