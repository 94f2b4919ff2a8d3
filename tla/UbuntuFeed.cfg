SPECIFICATION LiveSpec
CONSTANTS
  linux = linux
  nvidia = nvidia
  c1 = c1
  c2 = c2
  c3 = c3
  Packages = {linux, nvidia}
  Turn <- MCTurn
  Cves = {c1, c2, c3}
  Newer <- MCNewer
  Affects <- MCAffects
  Ancient = {c1}
  PageSize = 2
  MaxConsecutiveFail = 2
  MaxTotalFail = 2
  MaxConsecutiveSlow = 2
  MaxTotalSlow = 3
  MaxChanges = 1
  NoCheckout = NoCheckout
INVARIANT
  TypeOK
PROPERTIES
  KeepsSteady
  DropsWithdrawn
  TickEnds
  EveryPageCounts
