SPECIFICATION Spec
CONSTANTS
  a = a
  b = b
  c = c
  NoHash = NoHash
  Hash = {a, b, c}
  Signed <- ThreeRecords
  Modes = {"swarm"}
  MissLimit = 0
PROPERTIES
  ResumesAfterCheck
