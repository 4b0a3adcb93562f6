SPECIFICATION Spec
CONSTANTS
  a = a
  b = b
  c = c
  NoHash = NoHash
  Hash = {a, b, c}
  Signed <- Refreshed
  Modes = {"swarm", "leech"}
  MissLimit = 1
INVARIANTS
  TypeOK
  OneTransfer
  Reconciled
  LeechDelivers
PROPERTIES
  FollowerSpec
