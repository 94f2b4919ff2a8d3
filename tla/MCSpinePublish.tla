--------------------------- MODULE MCSpinePublish ---------------------------
(* Instances of SpinePublish for TLC: the catalog rows are exported first,  *)
(* then the flat tables (FLAT_TABLES of posture/export.py).                 *)
EXTENDS SpinePublish, TLC

CONSTANTS defects, seen

MCPosition == [t \in Tables |-> IF t = defects THEN 1 ELSE 2]
ItemSymmetry == Permutations(Items)
=============================================================================
