SPECIFICATION Spec
CONSTANTS
  d1 = d1
  d2 = d2
  A = A
  B = B
  R = R
  NoKey = NoKey
  i1 = i1
  i2 = i2
  s1 = s1
  s2 = s2
  Domains = {d1, d2}
  Keys = {A, B, R}
  Packages <- MCPackages
  Configs <- MCConfigs
  Installable <- MCInstallable
  Importers = {i1, i2}
  Syncers = {s1, s2}
  Skew = 1
  MaxTime = 2
  MaxCrashes = 1
INVARIANTS
  TypeOK
  GateNeedsSignedPackage
  SequencesIncrease
  SignerChain
  LeaseMatchesSync
  ClockWithinSkew
PROPERTIES
  ImplementsTrustLedger
SYMMETRY MCSymmetry
