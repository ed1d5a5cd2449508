SPECIFICATION Spec
CONSTANTS
  v1 = v1
  v2 = v2
  f1 = f1
  f2 = f2
  Verifiers = {v1, v2}
  Flushers = {f1, f2}
  Configs <- MCConfigs
  MaxLimit = 2
  BatchSize = 2
  RetryCap = 1
  LegacyRows = 1
  MaxEvents = 4
  MaxCrashes = 1
INVARIANTS
  TypeOK
  NoEventLost
  DeliveredInOrder
  QueueOvershootBounded
PROPERTIES
  NeverRequeued
  ImplementsAuditTrail
SYMMETRY MCSymmetry
