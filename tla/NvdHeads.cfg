SPECIFICATION HeadsSpec
CONSTANTS
  os = os
  app = app
  MaxCve = 3
  Heads = {os, app}
  RecordsOf <- MCRecordsOf
  Matchers <- MCMatchers
  PageSize = 1
  MaxResults = 2
  CommitEvery = 1
  Versions = {0, 1, 2, 3}
  NoBound = NoBound
  NoRecord = NoRecord
  NoVerdict = NoVerdict
INVARIANTS
  WholeOrUnknown
  CatalogAgrees
PROPERTY
  KeepsListed
