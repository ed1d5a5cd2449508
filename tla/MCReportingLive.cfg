SPECIFICATION FairSpec
CONSTANTS
  v1 = v1
  f1 = f1
  f2 = f2
  Verifiers = {v1}
  Flushers = {f1, f2}
  Configs <- MCDelivering
  MaxLimit = 3
  BatchSize = 2
  RetryCap = 1
  LegacyRows = 1
  MaxEvents = 3
  MaxCrashes = 0
PROPERTIES
  EventuallyRemoved
