SPECIFICATION MCSpec
CONSTANTS
  a = a
  b = b
  c = c
  d = d
  npm = npm
  pypi = pypi
  Ids = {a, b, c, d}
  Place <- MCPlace
  Ecosystems = {npm, pypi}
  EcoOf <- MCEcoOf
  Listed <- MCListed
  Malformed = {c}
  Cap = 2
  MaxTime = 3
  MaxMissed = 1
  NoTree = NoTree
  NoEco = NoEco
INVARIANTS
  TypeOK
  WalksAreWhole
  CursorCoversQuietTicks
PROPERTIES
  TipKeepsWatermark
