SPECIFICATION ConfigSpec
CONSTANTS
  c1 = c1
  c2 = c2
  unsound = unsound
  Empty = Empty
  Damaged = Damaged
  u1 = u1
  u2 = u2
  Configs = {c1, c2, unsound}
  Sound = {c1, c2}
  Updaters = {u1, u2}
  MaxCrashes = 1
INVARIANTS
  ConfigTypeOK
  ActiveWasSaved
  UnsoundStaysOut
  CopiesAgree
CHECK_DEADLOCK FALSE
