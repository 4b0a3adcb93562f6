CONSTANTS
  a = a
  b = b
  Hash = {a, b}
  Bytes = {a, b}
  NoBytes = NoBytes
  NoFile = NoFile
  NoStatus = NoStatus
  Push <- TwoSnapshots
SPECIFICATION Spec
INVARIANTS
  TypeOK
  AcknowledgedIsShown
  RedirectResolves
PROPERTIES
  BoardSpec
