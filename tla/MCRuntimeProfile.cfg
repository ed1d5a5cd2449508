SPECIFICATION Spec
CONSTANTS
  d1 = d1
  d2 = d2
  p1 = p1
  l1 = l1
  l2 = l2
  pol1 = pol1
  pol2 = pol2
  v1 = v1
  v2 = v2
  c1 = c1
  c2 = c2
  u1 = u1
  Startup = Startup
  Restore = Restore
  NoDevice = NoDevice
  NoPolicy = NoPolicy
  NoVersion = NoVersion
  NoProfile = NoProfile
  NoLane = NoLane
  NoId = NoId
  Devices = {d2}
  Policies = {pol1, pol2}
  Versions = {v1, v2}
  Offered = {v1}
  ProfileIds = {p1}
  LaneIds = {l1, l2}
  Profiles <- MCProfiles
  Lanes <- MCLanes
  Answers <- MCAnswers
  Bucket <- MCBucket
  Commands = {c1}
  Viewers = {u1}
  MaxCrashes = 1
CHECK_DEADLOCK FALSE
INVARIANTS
  TypeOK
  InForceIsStored
  AssignmentPersists
  SnapshotIsOnePicture
  InstallsFollowPolicy
PROPERTIES
  CallsReturn
