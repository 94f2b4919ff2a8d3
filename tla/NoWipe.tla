------------------------------- MODULE NoWipe -------------------------------
(***************************************************************************)
(* What the verdict store promises its readers, whatever its writers are:  *)
(* the verdicts of a device's axis change only by                          *)
(*   - a Replacement with a non-empty set holding one verdict per key,     *)
(*   - a Revision, which edits or adds verdicts one by one and takes none  *)
(*     away nor touches a distrust flag, or                                *)
(*   - a Retraction, which flags every verdict resting on one observer.    *)
(* It is the "no-wipe" contract the comments of store.py and engine.py     *)
(* describe; AssessEngine is shown to implement it.                        *)
(***************************************************************************)
CONSTANTS Devices, Axes, Observers

VARIABLES verdicts,  \* [Devices -> [Axes -> set of verdict rows]]
          marks      \* the observers an operator has distrusted

store == <<verdicts, marks>>

Init ==
  /\ verdicts = [d \in Devices |-> [a \in Axes |-> {}]]
  /\ marks = {}

\* The row of key and observer of r, in a set of rows.
SameRow(r, s) == r.key = s.key /\ r.observer = s.observer

OnePerKey(rows) == \A r, s \in rows : r.key = s.key => r = s

IsReplacement(old, new) == new # {} /\ OnePerKey(new)

IsRevision(old, new) ==
  /\ \A r \in old : \E s \in new : SameRow(r, s) /\ s.flagged = r.flagged
  /\ \A s \in new : ~s.flagged \/ \E r \in old : SameRow(r, s) /\ r.flagged

Flag(rows, o) ==
  {[r EXCEPT !.flagged = @ \/ r.observer = o] : r \in rows}

Replace(d) ==
  /\ \A a \in Axes :
       \/ verdicts'[d][a] = verdicts[d][a]
       \/ IsReplacement(verdicts[d][a], verdicts'[d][a])
  /\ \A e \in Devices \ {d} : verdicts'[e] = verdicts[e]
  /\ UNCHANGED marks

Revise ==
  /\ \A d \in Devices, a \in Axes :
       IsRevision(verdicts[d][a], verdicts'[d][a])
  /\ UNCHANGED marks

Retract(o) ==
  /\ verdicts' = [d \in Devices |-> [a \in Axes |-> Flag(verdicts[d][a], o)]]
  /\ marks' = marks \cup {o}

Next ==
  \/ \E d \in Devices : Replace(d)
  \/ Revise
  \/ \E o \in Observers : Retract(o)

Spec == Init /\ [][Next]_store
=============================================================================
