SPECIFICATION FairSpec
CONSTANTS
  UnhealthySeconds = 3
  StaleStatsSeconds = 2
  CooldownSeconds = 12
  None = None
  MaxKills = 2
INVARIANTS
  TypeOK
  OwedIsPending
PROPERTIES
  RestartSpacing
  OnlyPersistentFailure
  SickIsRestarted
  OwedIsPushed
CHECK_DEADLOCK FALSE
