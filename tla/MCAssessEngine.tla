--------------------------- MODULE MCAssessEngine ---------------------------
(* Instances of AssessEngine for TLC.  The names are those of the bundled   *)
(* policy (posture/policy/policy.yaml), which gives the orders.             *)
EXTENDS AssessEngine, TLC

CONSTANTS nvd, ubuntu, debian, firewall,
          vulnerability, exposure, trust,
          bad, good, other

MCSpeaks == [o \in Observers |-> IF o = firewall THEN exposure
                                                 ELSE vulnerability]
MCOrder == [o \in Observers |-> IF o = nvd THEN 10 ELSE 5]
MCIdRank == [o \in Observers |-> CASE o = debian -> 1
                                   [] o = firewall -> 2
                                   [] o = nvd -> 3
                                   [] o = ubuntu -> 4]
MCListed == Statuses \ {other}
MCDominance == [s \in MCListed |-> IF s = bad THEN 1 ELSE 2]
KeySymmetry == Permutations(Keys)
=============================================================================
