SPECIFICATION LiveSpec
CONSTANTS
  defects = defects
  seen = seen
  Items = {i1}
  Tables = {defects, seen}
  Position <- MCPosition
  MaxFaults = 2
  ReuseDir = FALSE
  Torn = Torn
  NoMap = NoMap
  NoManifest = NoManifest
INVARIANTS
  ServedIsWhole
  StaysServed
  OneFaultIsRecoverable
PROPERTIES
  ImportIsOneMap
  KeepsPromise
  ServedAgain
