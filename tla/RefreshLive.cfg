SPECIFICATION WalkedLiveSpec
CONSTANTS
  c1 = c1
  c2 = c2
  c3 = c3
  Cves = {c1, c2, c3}
  Place <- MCPlace
  Newer <- MCNewer
  MaxRevision <- MCOneRevision
  Malformed = {}
  Ancient = {c1}
  Cap = 1
  CutShort = FALSE
  RefreshCap = 2
  MaxFail = 1
  CommitEvery = 2
  NoTree = NoTree
  NoRow = NoRow
PROPERTY
  EnrichedWithinCap
