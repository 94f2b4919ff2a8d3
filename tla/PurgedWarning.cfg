SPECIFICATION Spec
CONSTANTS
  c1 = c1
  g1 = g1
  ios = ios
  macos = macos
  a16 = a16
  a17 = a17
  a18 = a18
  m10 = m10
  Cves = {c1}
  Peers = {g1}
  AliasOf <- MCAliasOf
  Ancient = {c1, g1}
  Sheets = {s1}
  Products = {ios, macos}
  Advisories = {a16, a17, a18, m10}
  Product <- MCProduct
  Branch <- MCBranch
  Version <- MCVersion
  Fixes <- MCFixes
  Old = {a16, m10}
  NoAdvisory = NoAdvisory
  NoProduct = NoProduct
  DebVersions <- MCDebVersions
PROPERTY
  OnlyTheIrrelevantForgotten
