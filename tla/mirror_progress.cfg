SPECIFICATION DiscoveringSpec
CONSTANTS
  a = a
  b = b
  c = c
  NoHash = NoHash
  Hash = {a, b}
  Signed <- TwoRecords
  Modes = {"swarm", "leech"}
  MissLimit = 0
PROPERTIES
  ShutdownCompletes
  FollowsNewest
