SPECIFICATION Spec
CONSTANTS
  r1 = r1
  r2 = r2
  Rows = {r1, r2}
  Models = {m1, m2}
  Ticks = {t1, t2}
  ListedBy <- MCListedBy
  Newer <- MCNewer
  Columns = {"score", "fixed_raw"}
  DraftCap = 2
  NoRow = NoRow
  NoTxn = NoTxn
  NoDraft = NoDraft
SYMMETRY TickSymmetry
INVARIANTS
  NoDraftDecides
PROPERTIES
  MixedOnlyByCrossing
  RedraftedOnlyByCrossing
