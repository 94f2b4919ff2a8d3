----------------------------- MODULE MCOverlays -----------------------------
(* Instances of Overlays for TLC: two branches of one product, the fix of   *)
(* the older one found in the archives only, and an advisory of another     *)
(* product beside it.  One CVE is enough: every operator of Overlays and    *)
(* AppleFixes treats each CVE by itself.  Beside them the order of package  *)
(* versions, by which the Ubuntu observer knows whether a device is at the  *)
(* fix: all versions of up to three of six characters, and some with an     *)
(* epoch and a revision.                                                    *)
EXTENDS Overlays

CONSTANTS c1, g1, ios, macos, a16, a17, a18, m10

MCProduct == [a \in Advisories |-> IF a = m10 THEN macos ELSE ios]
MCBranch == [a \in Advisories |-> CASE a = a16 -> 16 [] a = a17 -> 17
                                     [] a = a18 -> 18 [] a = m10 -> 10]
MCVersion == [a \in Advisories |-> CASE a = a16 -> 167 [] a = a17 -> 171
                                      [] a = a18 -> 180 [] a = m10 -> 108]
MCFixes == [a \in Advisories |-> {c1}]
MCAliasOf == [g \in Peers |-> {c1}]

\* The characters 0, 1, 2, a, + and ~.
MCShort == UNION {[1 .. n -> {48, 49, 50, 97, 43, 126}] : n \in 0 .. 3}

\* With and without "1:", of "1", "1~" and "1.0", with "-0", "-1", "-~" or not.
MCLong == {e \o u \o r : e \in {<<>>, <<49, 58>>},
                         u \in {<<49>>, <<49, 126>>, <<49, 46, 48>>},
                         r \in {<<>>, <<45, 48>>, <<45, 49>>, <<45, 126>>}}
MCDebVersions == MCShort \cup MCLong
=============================================================================
