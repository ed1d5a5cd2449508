SPECIFICATION FairSpec
CONSTANTS
  MaxRequests = 4
  MaxEvents = 2
INVARIANTS
  TypeOK
  SettledModeInForce
PROPERTIES
  OperatorOfflineHolds
  DeliversOnlyOnline
  BusyEnds
CHECK_DEADLOCK FALSE
