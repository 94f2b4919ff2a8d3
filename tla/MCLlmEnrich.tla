---------------------------- MODULE MCLlmEnrich ----------------------------
(* Instances of LlmEnrich for TLC.                                          *)
EXTENDS LlmEnrich, TLC

CONSTANTS r1, r2

MCListedBy == [r \in Rows |-> IF r = r1 THEN {"mitre", "nvd"} ELSE {"osv"}]
MCNewer == [r \in Rows |-> IF r = r1 THEN 1 ELSE 2]
ModelSymmetry == Permutations(Models)
TickSymmetry == ModelSymmetry \cup Permutations(Ticks)
=============================================================================
