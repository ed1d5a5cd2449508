SPECIFICATION Spec
CONSTANTS
  d1 = d1
  d2 = d2
  A = A
  B = B
  R = R
  NoKey = NoKey
  i1 = i1
  s1 = s1
  Domains = {d1}
  Keys = {A, R}
  Packages <- MCTwoPackages
  Configs <- MCOneConfig
  Installable <- MCInstalledA
  Importers = {i1}
  Syncers = {s1}
  Skew = 1
  MaxTime = 1
  MaxCrashes = 0
INVARIANTS
  ClockFollowsActivePackage
