-------------------------- MODULE MCCatalogRefresh --------------------------
(* Instances of CatalogRefresh for TLC.  The newest CVE has the last path,  *)
(* as CVE ids have it.                                                      *)
EXTENDS CatalogRefresh

CONSTANTS c1, c2, c3

MCPlace == [c \in Cves |-> CASE c = c1 -> 1 [] c = c2 -> 2 [] c = c3 -> 3]
MCNewer == MCPlace
MCRevisions == [c \in Cves |-> IF c = c1 THEN 1 ELSE 2]
MCOneRevision == [c \in Cves |-> 1]

\* The stream cannot parse the ancient CVE; NVD lists it all the same.
MCMalformed == {<<c1, 1>>}

(* The steady state of the daily job, which Init reaches: the stream was    *)
(* bootstrapped, the back-catalog is walked, and nothing is enriched yet.   *)
Walked ==
  LET published == [c \in Cves |-> 1]
      skeleton == [stratum |-> "mitre", retired |-> FALSE]
  IN  /\ tree = published
      /\ kept = TRUE
      /\ cursor = published
      /\ defects = [c \in Cves |-> skeleton]
      /\ bfCursor = Cardinality(Cves)
      /\ bfDone = TRUE
      /\ sTip = NoTree /\ sSweeping = FALSE /\ sLeft = {}
      /\ bTip = NoTree /\ bSlice = {} /\ bLeft = {}
      /\ base = published
      /\ got = published
      /\ orderly = TRUE
      /\ analysed = {}
      /\ refreshing = FALSE /\ pool = {} /\ batch = {} /\ fails = 0

\* Nothing more is published, so the ticks of the git-fed producers find no
\* path to take and are left out.
WalkedNext == World \/ Refresh \/ Writers

WalkedLiveSpec == Walked /\ [][WalkedNext]_vars /\ Fairness
=============================================================================
