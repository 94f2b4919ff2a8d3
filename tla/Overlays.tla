------------------------------ MODULE Overlays ------------------------------
(***************************************************************************)
(* The overlays of the catalog (KEV, EPSS, Apple, Debian and Ubuntu fixes) *)
(* and the purge, which forgets an ancient row only if no overlay says it  *)
(* still matters.  posture/sources/{kev,epss,debian_ingest}.py and         *)
(* purge_defects of posture/store.py; AppleFixes builds Apple's overlay,   *)
(* UbuntuIngest details Ubuntu's.  What the distributions' observers say   *)
(* of a CVE when they are handed the overlays instead of asking the        *)
(* trackers: posture/sources/{debian,ubuntu}_tracker.py.                   *)
(*                                                                         *)
(* The commands are steps of one daily job and each is one transaction;    *)
(* what counts is the order in which they ran, failed or were skipped.     *)
(* Beside the job the stream's own timer brings CVEs, also between the     *)
(* purge's query and its first delete, which opens its transaction.        *)
(***************************************************************************)
EXTENDS AppleFixes, Debver

CONSTANTS
  Peers,    \* ids of peer advisories, beside the CVEs
  AliasOf,  \* [Peers -> SUBSET Cves], the aliases a peer row registers
  Ancient,  \* ids published before the cutoff; undated ones are not
  Sheets    \* the (release, package) pairs of the Debian scope

Ids == Cves \cup Peers

ASSUME OverlayAssumption ==
  /\ Cves \cap Peers = {}
  /\ AliasOf \in [Peers -> SUBSET Cves]
  /\ Ancient \subseteq Ids

VARIABLES
  defects,    \* the ids that have a catalog row
  seenIds,    \* seen_defects
  crosswalk,  \* alias edges, a set of pairs of ids
  kev,        \* the known-exploited CVEs
  epss,       \* [Cves -> Likelihood], high at or above the keep percentile
  debian,     \* [Sheets -> [Cves -> DebianStatus]]
  ubuntu,     \* [Cves -> UbuntuStatus], of one release and package
  purging     \* purge: the ids its query has selected, {} when it does not run

catalog == <<defects, seenIds, crosswalk>>
overlays == <<kev, epss, debian, ubuntu>>
vars == <<catalog, overlays, purging, appleVars>>

Likelihood == {"none", "low", "high"}
DebianStatus == {"none", "resolved", "open", "undetermined"}
\* A status that awaits triage is like one that is pending; those that leave
\* nothing open but are no fix either (not affected, ignored) are left out.
UbuntuStatus == {"none", "released", "needed", "pending"}

\* A row is written with its first sighting and the edges to its aliases, in
\* both directions (upsert_defect, mark_seen, add_defect_alias).
TakeRow(i) ==
  LET aliases == IF i \in Peers THEN AliasOf[i] ELSE {}
  IN /\ defects' = defects \cup {i}
     /\ seenIds' = seenIds \cup {i}
     /\ crosswalk' = crosswalk \cup ({i} \X aliases) \cup (aliases \X {i})
     /\ UNCHANGED <<overlays, purging, appleVars>>

\* The store's refreshes: a KEV row is upserted, the others are replaced whole
\* (Debian sheet by sheet).
UpsertKev(rows) == kev' = kev \cup rows
ReplaceEpss(rows) == epss' = rows
ReplaceDebianFixes(scope, rows) ==
  debian' = [s \in Sheets |-> IF s \in scope THEN rows[s] ELSE debian[s]]

\* kev_ingest_tick: what the fetched list names is upserted, nothing is ever
\* removed.  A failed fetch changes nothing.
KevTick(listed) ==
  /\ UpsertKev(listed)
  /\ UNCHANGED <<catalog, epss, debian, ubuntu, purging, appleVars>>

\* epss_ingest_tick: the whole table is replaced by the rows that parse; a
\* snapshot without a single one is a failed fetch.
EpssTick(snapshot) ==
  /\ \E c \in Cves : snapshot[c] # "none"
  /\ ReplaceEpss(snapshot)
  /\ UNCHANGED <<catalog, kev, debian, ubuntu, purging, appleVars>>

\* debian_ingest_tick: one bulk fetch, then each sheet of the scope replaced
\* by its slice, be it empty.
DebianTick(scope, sheets) ==
  /\ scope # {}
  /\ ReplaceDebianFixes(scope, sheets)
  /\ UNCHANGED <<catalog, kev, epss, ubuntu, purging, appleVars>>

\* An Ubuntu tick has run, see UbuntuIngest.
UbuntuTick(sheet) ==
  /\ ubuntu' = sheet
  /\ UNCHANGED <<catalog, kev, epss, debian, purging, appleVars>>

-----------------------------------------------------------------------------
(* The observers of the distributions, offline, on a device of one package.*)
(* Of several packages the first decides that has something to say.        *)

\* _inject_debian_fixes_overlay: what a device is handed of its sheet, and
\* nothing at all while the table is empty.
DebianInjected == \E s \in Sheets, c \in Cves : debian[s][c] # "none"

\* _decide, which takes the device for up to date; without the overlay the
\* bundled sample document is asked instead.
DebianSays(s, c) ==
  CASE ~DebianInjected -> "sample"
    [] DebianInjected /\ debian[s][c] = "resolved" -> "patched"
    [] DebianInjected /\ debian[s][c] = "open" -> "unpatched"
    [] OTHER -> "silent"

UbuntuInjected == \E c \in Cves : ubuntu[c] # "none"

\* _normalize_overlay_status and _decide: a released fix is compared with the
\* device's kernel, atFix being Kge of the two; a status that is pending says
\* nothing.
UbuntuSays(c, atFix) ==
  CASE ~UbuntuInjected -> "sample"
    [] UbuntuInjected /\ ubuntu[c] = "released" ->
         IF atFix THEN "patched" ELSE "unpatched"
    [] UbuntuInjected /\ ubuntu[c] = "needed" -> "unpatched"
    [] OTHER -> "silent"

-----------------------------------------------------------------------------
(* purge_defects.                                                          *)

HighlyLikely == {c \in Cves : epss[c] = "high"}
DebianOpen ==
  {c \in Cves : \E s \in Sheets : debian[s][c] \in {"open", "undetermined"}}
UbuntuOpen == {c \in Cves : ubuntu[c] \in {"needed", "pending"}}
AppleFixed == {c \in Cves : \E p \in Products : apple[p][c] # NoAdvisory}

\* Mutants: a high likelihood of exploitation stands in for its being known;
\* one list of open statuses for both distributions.
SparedByLikelihood == HighlyLikely \cup DebianOpen \cup UbuntuOpen \cup AppleFixed
SparedByOneList ==
  kev \cup HighlyLikely \cup UbuntuOpen \cup AppleFixed
    \cup {c \in Cves : \E s \in Sheets :
            debian[s][c] \in {"needed", "pending", "undetermined"}}

\* What an overlay spares; they are keyed by CVE ids.
Spared == kev \cup HighlyLikely \cup DebianOpen \cup UbuntuOpen \cup AppleFixed

Candidates == (defects \cap Ancient) \ Spared

\* Mutant: only the edges that start at a purged row are deleted.
EdgesFrom(gone) == {e \in crosswalk : e[1] \in gone}

EdgesOf(gone) == {e \in crosswalk : e[1] \in gone \/ e[2] \in gone}

Forget(gone) ==
  /\ defects' = defects \ gone
  /\ seenIds' = seenIds \ gone
  /\ crosswalk' = crosswalk \ EdgesOf(gone)

\* The query; with nothing to purge the command is over.
PurgeSelects ==
  /\ Candidates # {}
  /\ purging' = Candidates
  /\ UNCHANGED <<catalog, overlays, appleVars>>

\* The rows, their edges and sightings, and what the overlays still hold of
\* them, in one transaction.
PurgeDeletes ==
  /\ purging # {}
  /\ Forget(purging)
  /\ kev' = kev \ purging
  /\ epss' = [c \in Cves |-> IF c \in purging THEN "none" ELSE epss[c]]
  /\ debian' = [s \in Sheets |-> [c \in Cves |->
                  IF c \in purging THEN "none" ELSE debian[s][c]]]
  /\ ubuntu' = [c \in Cves |-> IF c \in purging THEN "none" ELSE ubuntu[c]]
  /\ apple' = [p \in Products |-> [c \in Cves |->
                 IF c \in purging THEN NoAdvisory ELSE apple[p][c]]]
  /\ purging' = {}
  /\ UNCHANGED <<replaced, appleTick, basis>>

\* The command is killed; its transaction is rolled back.
PurgeDies ==
  /\ purging # {}
  /\ purging' = {}
  /\ UNCHANGED <<catalog, overlays, appleVars>>

-----------------------------------------------------------------------------

Init ==
  /\ AppleInit
  /\ defects = {}
  /\ seenIds = {}
  /\ crosswalk = {}
  /\ kev = {}
  /\ epss = [c \in Cves |-> "none"]
  /\ debian = [s \in Sheets |-> [c \in Cves |-> "none"]]
  /\ ubuntu = [c \in Cves |-> "none"]
  /\ purging = {}

\* The commands of the daily job that feed the catalog.
Feeds ==
  \/ \E i \in Ids : TakeRow(i)
  \/ \E cves \in SUBSET Cves : KevTick(cves)
  \/ \E sheet \in [Cves -> UbuntuStatus] : UbuntuTick(sheet)
  \/ \E snapshot \in [Cves -> Likelihood] : EpssTick(snapshot)
  \/ \E scope \in SUBSET Sheets, sheets \in [Sheets -> [Cves -> DebianStatus]] :
       DebianTick(scope, sheets)

Apple == AppleNext /\ UNCHANGED <<catalog, overlays, purging>>

\* One command of the job at a time.
Job ==
  \/ purging = {} /\ product = NoProduct /\ replaced = NothingWritten
       /\ (Feeds \/ PurgeSelects)
  \/ purging = {} /\ Apple
  \/ PurgeDeletes
  \/ PurgeDies

\* posture-stream.timer runs beside it.
Stream == \E c \in Cves : TakeRow(c)

Next == Job \/ Stream

Spec == Init /\ [][Next]_vars

-----------------------------------------------------------------------------
(* Properties.                                                             *)

\* Types of the catalog's keys and of the overlays (store.py:150-330).
TypeOK ==
  /\ AppleTypeOK
  /\ defects \subseteq Ids
  /\ seenIds \subseteq Ids
  /\ crosswalk \subseteq Ids \X Ids
  /\ kev \subseteq Cves
  /\ epss \in [Cves -> Likelihood]
  /\ debian \in [Sheets -> [Cves -> DebianStatus]]
  /\ ubuntu \in [Cves -> UbuntuStatus]
  /\ purging \subseteq Ids

\* A CVE once known to be exploited is never forgotten, neither by the purge
\* nor by a feed that lists less than it did (store.py:1755).
ExploitedNeverForgotten ==
  [][kev \cap defects \subseteq kev' \cap defects']_vars

\* Over any sequence of ingests and purges the first sightings are those of
\* the rows there are, so a row that comes back is new again, and no edge is
\* left that touches no row or lacks its reverse (store.py:1762-1764, "no
\* orphan is left behind to be exported").
NoOrphans ==
  /\ seenIds = defects
  /\ \A e \in crosswalk :
       /\ <<e[2], e[1]>> \in crosswalk
       /\ {e[1], e[2]} \cap defects # {}

\* What the purge leaves of the warnings: a CVE that Debian or Ubuntu calls open
\* on a device, or that Apple has fixed in a later version than the device's,
\* is still a warning to that device when the purge is over.  The one warning
\* that goes is that of a device below a fix Ubuntu has released, when the
\* purge has selected the CVE: no list of open statuses names a released one
\* (store.py:1732-1733, 1785-1787, against debian_tracker.py:212 and
\* ubuntu_tracker.py:303).
PurgeKeepsWarnings ==
  [][purging # {} =>
       \A c \in Cves :
         /\ \A s \in Sheets :
              DebianSays(s, c) = "unpatched" => DebianSays(s, c)' = "unpatched"
         /\ UbuntuSays(c, TRUE) = "unpatched"
              => UbuntuSays(c, TRUE)' = "unpatched"
         /\ UbuntuSays(c, FALSE) = "unpatched"
              => \/ UbuntuSays(c, FALSE)' = "unpatched"
                 \/ ubuntu[c] = "released" /\ c \in purging
         /\ \A p \in Products, a \in Advisories :
              AppleDecide(p, c, Version[a]) = "unpatched"
                => AppleDecide(p, c, Version[a])' = "unpatched"]_vars

\* A device is called patched for a released fix exactly if its version is at
\* the fix or past it in the order of Debian Policy, by which pre-releases come
\* before, leading zeros and missing parts do not count (debver.py:9-14,
\* ubuntu_tracker.py:184-190): atFix is Kge, and Misjudged goes through all
\* versions.
PatchedIsAtFix ==
  \A c \in Cves :
    ubuntu[c] = "released" =>
      /\ Misjudged = {}
      /\ UbuntuSays(c, TRUE) = "patched"
      /\ UbuntuSays(c, FALSE) = "unpatched"

(* What the documentation says and the code does not do.                   *)

\* store.py:1749-1750, "a way to forget what is genuinely irrelevant": what
\* Ubuntu's observer calls unpatched on some device is not forgotten.
OnlyTheIrrelevantForgotten ==
  [][purging # {} =>
       \A c \in Cves, atFix \in BOOLEAN :
         UbuntuSays(c, atFix) = "unpatched"
           => UbuntuSays(c, atFix)' = "unpatched"]_vars

\* debian_tracker.py:250-253, no fallback to the sample document, which would
\* leak into a real client's verdicts: not so for a table that has been filled
\* and is empty again.
NoSampleLeak == [][DebianInjected => DebianInjected']_vars

\* store.py:1755: never forget a known-exploited defect, under none of
\* the ids it goes by.
ExploitedAliasKept ==
  [][\A i \in defects :
       (\E c \in kev : <<c, i>> \in crosswalk) => i \in defects']_vars
=============================================================================
