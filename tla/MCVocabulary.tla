---------------------------- MODULE MCVocabulary ----------------------------
(* Instances of Vocabulary for TLC.                                         *)
EXTENDS Vocabulary, TLC

SweepSymmetry == Permutations(Sweeps)
=============================================================================
