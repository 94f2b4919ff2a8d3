SPECIFICATION Spec
CONSTANTS
  nvd = nvd
  ubuntu = ubuntu
  debian = debian
  firewall = firewall
  vulnerability = vulnerability
  exposure = exposure
  trust = trust
  bad = bad
  good = good
  other = other
  Unknown = Unknown
  NoDevice = NoDevice
  NoAxis = NoAxis
  NoKey = NoKey
  NoOne = NoOne
  NoPosture = NoPosture
  NoTxn = NoTxn
  Nvd = nvd
  Distrustable = {nvd}
  Speaks <- MCSpeaks
  Order <- MCOrder
  IdRank <- MCIdRank
  Listed <- MCListed
  Dominance <- MCDominance
  Devices = {d1}
  Axes = {vulnerability, exposure}
  Keys = {k1, k2}
  Observers = {nvd, ubuntu}
  Policy = {nvd, ubuntu}
  Statuses = {bad, good}
SYMMETRY KeySymmetry
INVARIANTS
  Authority
  NoSilentClean
PROPERTIES
  LossOnlyByCompleteFetch
  PostureMatchesRows
  KeepsContract
