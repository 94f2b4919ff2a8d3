------------------------------ MODULE Watermark ------------------------------
(***************************************************************************)
(* What a reader that follows a versioned source by differences promises:  *)
(* the mark it resumes from never runs ahead of what it has taken.         *)
(*   - Take: one record is taken, at a newer version than before;          *)
(*   - Skip: some versions cannot be read and are passed over for good;    *)
(*   - Advance: the mark moves, with everything else up to it taken;       *)
(*   - Restart: the mark is set without taking anything, and the promise   *)
(*     starts anew from there.                                             *)
(* The CVE stream (CatalogStream) and the advisory diffs (PeerFeeds) are   *)
(* shown to implement it, with ticks that die between any two steps.       *)
(***************************************************************************)
EXTENDS Naturals

CONSTANTS Ids, NoMark

VARIABLES
  unread, \* the versions, <<id, version>>, that could not be read
  base, \* the versions the promise starts from, or NoMark
  mark, \* the versions the reader resumes from, or NoMark
  got   \* [Ids -> Nat], the newest version taken, 0 if none

watermark == <<unread, base, mark, got>>

Covered(versions) ==
  \A i \in Ids : \/ <<i, versions[i]>> \in unread
                 \/ versions[i] = base[i]
                 \/ versions[i] <= got[i]

Init ==
  /\ base = NoMark
  /\ mark = NoMark
  /\ got = [i \in Ids |-> 0]

Take(i) ==
  /\ got'[i] > got[i]
  /\ \A j \in Ids \ {i} : got'[j] = got[j]
  /\ UNCHANGED <<unread, base, mark>>

Skip ==
  /\ unread \subseteq unread'
  /\ UNCHANGED <<base, mark, got>>

Advance ==
  /\ mark # NoMark
  /\ mark' # NoMark
  /\ Covered(mark')
  /\ UNCHANGED <<unread, base, got>>

Restart ==
  /\ mark' # NoMark
  /\ base' = mark'
  /\ UNCHANGED <<unread, got>>

Next == (\E i \in Ids : Take(i)) \/ Skip \/ Advance \/ Restart

Spec == Init /\ [][Next]_watermark
=============================================================================
