SPECIFICATION Spec
CONSTANTS
  dA = dA
  dB = dB
  k1 = k1
  k2 = k2
  m1 = m1
  m2 = m2
  m3 = m3
  doc = doc
  url = url
  text = text
  cert = cert
  i1 = i1
  i2 = i2
  c1 = c1
  NoPackage = NoPackage
  NoKey = NoKey
  NoFile = NoFile
  NoText = NoText
  NoProvenance = NoProvenance
  Comment = Comment
  Garbage = Garbage
  Imports = {i1, i2}
  Domains = {dA, dB}
  Keys = {k1, k2}
  Identifiers = {m1, m2, m3, doc, url, text}
  Base58 = {text}
  Certificates = {cert}
  Issued <- MCIssued
  Files <- MCFiles
  KeyFiles <- MCKeyFiles
  MaxPackageBytes = 1
  MaxPackageEntries = 3
  MaxSafeJsonInteger = 3
  Skew = 1
  MaxTime = 3
  MaxSwaps = 1
  Calls = {c1}
  Base <- MCBase
  Requests <- MCRequests
  BadgeConfigs <- MCBadgeConfigs
  Legacy <- MCLegacy
  MaxStatusEntries = 1
  TrustCap = 3
  StatusCap = 2
SYMMETRY MCSymmetry
CHECK_DEADLOCK FALSE
INVARIANTS
  TypeOK
  StoredIsSigned
  GovernedStoreIsExact
  ValidBadgeRestsOnTrust
  StatusListsGoverned
