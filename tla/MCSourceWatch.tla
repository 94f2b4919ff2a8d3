---------------------------- MODULE MCSourceWatch ----------------------------
(* Instances of SourceWatch for TLC.                                        *)
EXTENDS SourceWatch

CONSTANT mitre

\* The source answers to a window of one day.
MCWindow == [o \in Observers |-> 1]
MCEvents ==
  {[id |-> "gap", of |-> mitre, degrading |-> TRUE, status |-> "active",
    supersedes |-> "nothing"]}
=============================================================================
