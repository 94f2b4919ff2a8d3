SPECIFICATION Spec
CONSTANTS
  c1 = c1
  c2 = c2
  c3 = c3
  Cves = {c1, c2}
  Place <- MCPlace
  Newer <- MCNewer
  MaxRevision <- MCRevisions
  Malformed <- MCMalformed
  Ancient = {c1}
  Cap = 1
  CutShort = FALSE
  RefreshCap = 2
  MaxFail = 2
  CommitEvery = 2
  NoTree = NoTree
  NoRow = NoRow
INVARIANTS
  TypeOK
  NothingMissed
  CatalogComplete
PROPERTIES
  KeepsWatermark
