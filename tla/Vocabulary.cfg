SPECIFICATION Spec
CONSTANTS
  Terms = {cve, osv, port}
  Seeds = {cve}
  Formats = {osv}
  Sources = {first}
  Sweeps = {p1, p2}
  NoTerm = NoTerm
  NoTask = NoTask
SYMMETRY SweepSymmetry
INVARIANT
  TrustIsRecorded
PROPERTY
  ReviewsStick
