SPECIFICATION Spec
CONSTANTS
  c1 = c1
  c2 = c2
  d1 = d1
  l1 = l1
  l2 = l2
  s1 = s1
  s2 = s2
  v1 = v1
  v2 = v2
  u1 = u1
  Empty = Empty
  Damaged = Damaged
  NoChallenge = NoChallenge
  NoSession = NoSession
  NoPackage = NoPackage
  Domains = {d1}
  Sessions = {s1, s2}
  Calls = {v1, v2}
  MaxOffline <- MCMaxOffline
  AuditAll = TRUE
  Complex = TRUE
  Ttl = 1
  CleanupAt = 0
  Configs = {c1, c2}
  Sound = {c1, c2}
  Reports = {c1}
  Updaters = {}
  MaxCrashes = 1
  Challenges = {l1, l2}
  Requests <- MCLivenessRequests
  Packages = {}
  MaxTime = 2
SYMMETRY MCSymmetry
INVARIANTS
  TypeOK
  ChallengeAcceptedOnce
  ChallengesStayUsable
