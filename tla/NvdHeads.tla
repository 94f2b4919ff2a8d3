------------------------------ MODULE NvdHeads ------------------------------
(***************************************************************************)
(* How the verdicts of one device come from NVD: the paged query for a CPE *)
(* head (nvd_query_cpe of posture/sources/nvd_cve.py) as the live observer *)
(* and the CPE ingest of posture/refresh.py use it, while NVD publishes    *)
(* and revises CVEs between two pages; the decision of a CVE for a version *)
(* (decide_cve_for_device); and the offline path, which decides from what  *)
(* the catalog keeps of a CVE (_enriched_record, _defect_row_to_vuln).     *)
(*                                                                         *)
(* Versions are numbers, 0 standing for "*", which sorts before them all.  *)
(* A list of entries is a function from places to entries, of which only   *)
(* the order of the places matters: a list that has been filtered keeps    *)
(* the places of what is left.                                             *)
(***************************************************************************)
EXTENDS Naturals, Sequences, SequencesExt

CONSTANTS
  MaxCve,      \* the CVEs are 1 .. MaxCve, in the order NVD lists them
  Heads,       \* CPE heads, part:vendor:product
  RecordsOf,   \* [Cves -> SUBSET Record], what NVD may come to say of each
  Matchers,    \* the device's nvd_cpe matchers, in order: a head, a version
  PageSize,    \* PAGE_SIZE
  MaxResults,  \* MAX_RESULTS
  CommitEvery, \* _COMMIT_EVERY_ROWS
  Versions,    \* versions to compare decisions for
  NoBound, NoRecord, NoVerdict

Cves == 1 .. MaxCve

\* One cpeMatch entry; crit is the version of its criteria, 0 for "*".
Match(head, vulnerable, startIncl, startExcl, endIncl, endExcl, crit) ==
  [head |-> head, vulnerable |-> vulnerable,
   startIncl |-> startIncl, startExcl |-> startExcl,
   endIncl |-> endIncl, endExcl |-> endExcl, crit |-> crit]

\* Mutant: the projection keeps entries that are not vulnerable.
AllMatches(record) == record

\* What the catalog keeps of a CVE: fixed_raw.ranges of _enriched_record.
Ranges(record) ==
  LET kept == {i \in DOMAIN record : record[i].vulnerable}
  IN  [i \in kept |-> record[i]]

Bounds == Nat \cup {NoBound}

Entry == [head : Heads, vulnerable : BOOLEAN,
          startIncl : Bounds, startExcl : Bounds,
          endIncl : Bounds, endExcl : Bounds, crit : Nat]

Verdicts ==
  [status : {"unpatched", "patched", "not_affected"}, fixedIn : Bounds]

ASSUME HeadsAssumption ==
  /\ MaxCve \in Nat
  /\ PageSize \in Nat \ {0}
  /\ MaxResults \in Nat \ {0}
  /\ CommitEvery \in Nat \ {0}
  /\ Matchers \in Seq([head : Heads, version : Nat])
  /\ \A c \in Cves :
       RecordsOf[c] \subseteq Seq(Entry) /\ NoRecord \notin RecordsOf[c]
  /\ NoVerdict \notin Verdicts

-----------------------------------------------------------------------------
(* One CVE against one version.                                            *)

\* _decide_range, after the tests of the lower bounds.
Above(v, m) ==
  /\ m.startIncl # NoBound => v >= m.startIncl
  /\ m.startExcl # NoBound => v > m.startExcl

Verdict(status, fixedIn) == [status |-> status, fixedIn |-> fixedIn]

\* _decide_range.
DecideRange(v, m) ==
  IF ~Above(v, m) THEN Verdict("not_affected", NoBound)
  ELSE IF m.endExcl # NoBound
  THEN Verdict(IF v < m.endExcl THEN "unpatched" ELSE "patched", m.endExcl)
  ELSE IF m.endIncl # NoBound
  THEN Verdict(IF v <= m.endIncl THEN "unpatched" ELSE "patched", m.endIncl)
  ELSE Verdict(IF m.crit \in {0, v} THEN "unpatched" ELSE "not_affected", NoBound)

\* What each vulnerable entry that names the head says, _ranges_for_cve.
Said(record, v, head) ==
  LET ranges == {i \in DOMAIN record :
                   record[i].vulnerable /\ record[i].head = head}
  IN  [i \in ranges |-> DecideRange(v, record[i])]

\* decide_cve_for_device: the first unpatched range, else the last patched
\* one; no verdict at all if no vulnerable entry names the head.
Decide(record, v, head) ==
  LET said == Said(record, v, head)
      Of(status) == {i \in DOMAIN said : said[i].status = status}
  IN  IF DOMAIN said = {} THEN NoVerdict
      ELSE IF Of("unpatched") # {} THEN said[Min(Of("unpatched"))]
      ELSE IF Of("patched") # {} THEN said[Max(Of("patched"))]
      ELSE Verdict("not_affected", NoBound)

\* _defect_row_to_vuln: every range it rebuilds is a vulnerable entry again.
Rebuilt(ranges) ==
  [i \in DOMAIN ranges |-> [ranges[i] EXCEPT !.vulnerable = TRUE]]

\* Rows written over others, by their CVE.
Over(new, old) ==
  [c \in DOMAIN new \cup DOMAIN old |->
    IF c \in DOMAIN new THEN new[c] ELSE old[c]]

\* The verdicts of one matcher written over those of the matchers before it:
\* the engine and upsert_verdict both keep the last one of a key.
Overlaid(old, matcher, records) ==
  LET Decision(c) == Decide(records[c], matcher.version, matcher.head)
  IN  [c \in Cves |->
        IF c \in DOMAIN records /\ Decision(c) # NoVerdict
        THEN Decision(c) ELSE old[c]]

\* All matchers, one after the other.
Decided(old, records) ==
  FoldLeft(LAMBDA acc, matcher : Overlaid(acc, matcher, records), old, Matchers)

-----------------------------------------------------------------------------

VARIABLES
  record,   \* NVD: its current record of each CVE
  catalog,  \* fixed_raw.ranges of each defect row with source nvd
  origin,   \* history: the record each row was made from
  stored,   \* the device's verdicts by the nvd observer
  client,   \* who queries: "none", "assess" or "ingest"
  turn,     \* the matcher whose head is queried
  start,    \* nvd_query_cpe's startIndex
  rows,     \* out: the records gathered for this head
  ended,    \* how the query ended: "no", "complete" or "incomplete"
  found,    \* assess: the verdicts of the heads done
  whole,    \* assess: no head was incomplete
  steady,   \* history: the CVEs that concerned each head since the start
  shifted,  \* history: heads whose list lost a row already walked past
  denied    \* history: heads answered as having no rows at all

headsVars ==
  <<record, catalog, origin, stored, client, turn, start, rows, ended,
    found, whole, steady, shifted, denied>>

query == <<start, rows, ended>>
device == <<found, whole>>
history == <<steady, shifted, denied>>

NoRows == [c \in {} |-> NoRecord]
Silent == [c \in Cves |-> NoVerdict]

\* The history of a query is kept while its client runs.
Forget ==
  /\ steady' = [h \in Heads |-> {}]
  /\ shifted' = {}
  /\ denied' = {}

\* virtualMatchString: the CVEs with an entry for the head, in order.
Lists(r, head) == r # NoRecord /\ \E i \in DOMAIN r : r[i].head = head
Listing(head) == {c \in Cves : Lists(record[c], head)}
Rank(head, c) == Cardinality({d \in Listing(head) : d < c})

\* Those it would give a device with the head a verdict for.
Concerned(rec, head) ==
  {c \in Cves : rec[c] # NoRecord /\ Lists(Ranges(rec[c]), head)}

QueriedHead == Matchers[turn].head

\* The query of a head is under way.
Paging == client # "none" /\ turn <= Len(Matchers) /\ ended = "no"

-----------------------------------------------------------------------------
(* NVD.                                                                    *)

\* A CVE is published or revised.  A head's list that loses a row before the
\* place the query has reached moves up under it.
Revises(c, r) ==
  /\ record[c] # r
  /\ \A d \in Cves : d < c => record[d] # NoRecord
  /\ record' = [record EXCEPT ![c] = r]
  /\ steady' = [h \in Heads |-> steady[h] \cap Concerned(record', h)]
  /\ shifted' = IF Paging /\ Lists(record[c], QueriedHead) /\ ~Lists(r, QueriedHead)
                    /\ Rank(QueriedHead, c) < start
                 THEN shifted \cup {QueriedHead} ELSE shifted
  /\ UNCHANGED <<catalog, origin, stored, client, turn, query, device, denied>>

-----------------------------------------------------------------------------
(* nvd_query_cpe, one page at a time.                                      *)

Ends(how, out) ==
  /\ rows' = out
  /\ ended' = how
  /\ start' = 0

\* The page at startIndex, as NVD would cut it now.
Page == {c \in Listing(QueriedHead) :
           Rank(QueriedHead, c) \in start .. start + PageSize - 1}

Elsewhere == UNCHANGED <<record, catalog, origin, stored, client, turn, device,
                         steady, shifted>>

\* Mutant: the runaway net counts as an end.
CapIsTheEnd ==
  /\ Paging
  /\ Page # {}
  /\ LET out == Over(Restrict(record, Page), rows)
         next == start + Cardinality(Page)
         total == Cardinality(Listing(QueriedHead))
     IN  IF next >= total \/ next >= MaxResults
         THEN Ends("complete", out)
         ELSE rows' = out /\ start' = next /\ UNCHANGED ended
  /\ UNCHANGED denied
  /\ Elsewhere

\* A page with rows: go on, unless totalResults or the cap is reached.
PageArrives ==
  /\ Paging
  /\ Page # {}
  /\ LET out == Over(Restrict(record, Page), rows)
         next == start + Cardinality(Page)
         total == Cardinality(Listing(QueriedHead))
     IN  IF next >= total
         THEN Ends("complete", out)
         ELSE IF next >= MaxResults
         THEN Ends("incomplete", out)
         ELSE rows' = out /\ start' = next /\ UNCHANGED ended
  /\ UNCHANGED denied
  /\ Elsewhere

\* An answer without rows, right or wrong: complete only as the first page.
EmptyPage ==
  /\ Paging
  /\ IF start = 0
     THEN Ends("complete", NoRows) /\ denied' = denied \cup {QueriedHead}
     ELSE Ends("incomplete", rows) /\ UNCHANGED denied
  /\ Elsewhere

\* 404, and 404 again: the head is taken for absent, on any page.
AbsentTwice ==
  /\ Paging
  /\ Ends("complete", NoRows)
  /\ denied' = denied \cup {QueriedHead}
  /\ Elsewhere

\* Every retry of the page failed.
GivesUp ==
  /\ Paging
  /\ Ends("incomplete", rows)
  /\ UNCHANGED denied
  /\ Elsewhere

-----------------------------------------------------------------------------
(* Its callers.                                                            *)

Begin(who) ==
  /\ client = "none"
  /\ client' = who
  /\ turn' = 1
  /\ steady' = [h \in Heads |-> Concerned(record, h)]
  /\ shifted' = {}
  /\ denied' = {}
  /\ UNCHANGED <<record, catalog, origin, stored, query, device>>

\* Mutant: only the last head decides whether the answer is whole.
LastHeadDecides ==
  /\ client = "assess"
  /\ ended # "no"
  /\ found' = Overlaid(found, Matchers[turn], rows)
  /\ whole' = (ended = "complete")
  /\ turn' = turn + 1
  /\ rows' = NoRows
  /\ ended' = "no"
  /\ UNCHANGED <<record, catalog, origin, stored, client, start, history>>

\* NvdCveObserver.assess, --live: interpret the head's rows, take the next.
HeadAssessed ==
  /\ client = "assess"
  /\ ended # "no"
  /\ found' = Overlaid(found, Matchers[turn], rows)
  /\ whole' = (whole /\ ended = "complete")
  /\ turn' = turn + 1
  /\ rows' = NoRows
  /\ ended' = "no"
  /\ UNCHANGED <<record, catalog, origin, stored, client, start, history>>

\* The gate of commit_device_verdicts, for a non-empty or an empty answer.
Gated(verdicts, complete) ==
  IF complete /\ verdicts # Silent THEN verdicts ELSE stored

\* The assessment's commit.
AssessCommits ==
  /\ client = "assess"
  /\ turn > Len(Matchers)
  /\ stored' = Gated(found, whole)
  /\ client' = "none"
  /\ turn' = 1
  /\ found' = Silent
  /\ whole' = TRUE
  /\ Forget
  /\ UNCHANGED <<record, catalog, origin, query>>

\* upsert_defect of some enriched records.
Enriched(records) ==
  /\ catalog' = Over([c \in DOMAIN records |-> Ranges(records[c])], catalog)
  /\ origin' = Over(records, origin)

\* nvd_cpe_ingest_tick: a complete head is written, any other is skipped.
HeadIngested ==
  /\ client = "ingest"
  /\ ended # "no"
  /\ IF ended = "complete" THEN Enriched(rows) ELSE UNCHANGED <<catalog, origin>>
  /\ turn' = turn + 1
  /\ rows' = NoRows
  /\ ended' = "no"
  /\ UNCHANGED <<record, stored, client, start, device, history>>

IngestEnds ==
  /\ client = "ingest"
  /\ turn > Len(Matchers)
  /\ client' = "none"
  /\ turn' = 1
  /\ Forget
  /\ UNCHANGED <<record, catalog, origin, stored, query, device>>

\* Either process dies.  An ingest that dies while it writes a head leaves
\* the rows of its last _COMMIT_EVERY_ROWS.
Dies(kept) ==
  /\ client # "none"
  /\ kept \subseteq DOMAIN rows
  /\ kept # {} => client = "ingest" /\ ended = "complete"
  /\ \A c \in kept, d \in DOMAIN rows : d < c => d \in kept
  /\ Cardinality(kept) % CommitEvery = 0
  /\ Enriched(Restrict(rows, kept))
  /\ client' = "none"
  /\ turn' = 1
  /\ start' = 0
  /\ rows' = NoRows
  /\ ended' = "no"
  /\ found' = Silent
  /\ whole' = TRUE
  /\ Forget
  /\ UNCHANGED <<record, stored>>

-----------------------------------------------------------------------------
(* The other ways a verdict comes about.                                   *)

\* refresh_tick for one CVE: the row, committed, then the device's verdict,
\* unless it dies between the two commits.
Refreshes(c) ==
  /\ record[c] # NoRecord
  /\ Enriched(Restrict(record, {c}))
  /\ stored' \in {stored, Decided(stored, Restrict(record, {c}))}
  /\ UNCHANGED <<record, client, turn, query, device, history>>

\* defects_for_cpe_head, before it looks at the head.
Held == {c \in Cves : catalog[c] # NoRecord}

\* assess without --live, over a catalog with NVD rows: always complete.
AssessOffline ==
  /\ Held # {}
  /\ stored' = Gated(Decided(Silent, [c \in Held |-> Rebuilt(catalog[c])]), TRUE)
  /\ UNCHANGED <<record, catalog, origin, client, turn, query, device, history>>

-----------------------------------------------------------------------------

HeadsInit ==
  /\ record = [c \in Cves |-> NoRecord]
  /\ catalog = [c \in Cves |-> NoRecord]
  /\ origin = [c \in Cves |-> NoRecord]
  /\ stored = Silent
  /\ client = "none"
  /\ turn = 1
  /\ start = 0
  /\ rows = NoRows
  /\ ended = "no"
  /\ found = Silent
  /\ whole = TRUE
  /\ steady = [h \in Heads |-> {}]
  /\ shifted = {}
  /\ denied = {}

Query == PageArrives \/ EmptyPage \/ AbsentTwice \/ GivesUp

Assess == Begin("assess") \/ HeadAssessed \/ AssessCommits \/ AssessOffline

Ingest == Begin("ingest") \/ HeadIngested \/ IngestEnds

HeadsNext ==
  \/ \E c \in Cves, r \in UNION {RecordsOf[d] : d \in Cves} :
       r \in RecordsOf[c] /\ Revises(c, r)
  \/ Query
  \/ Assess
  \/ Ingest
  \/ \E kept \in SUBSET Cves : Dies(kept)
  \/ \E c \in Cves : Refreshes(c)

HeadsSpec == HeadsInit /\ [][HeadsNext]_headsVars

-----------------------------------------------------------------------------
(* Properties.                                                             *)

\* A query that calls itself complete and has rows has the row of every CVE
\* that concerned the head all along, whatever NVD published meanwhile,
\* unless NVD took a row out before the page it was asked for
\* (nvd_cve.py:296-298).
WholeOrUnknown ==
  ended = "complete" /\ rows # NoRows /\ QueriedHead \notin shifted
    => steady[QueriedHead] \subseteq DOMAIN rows

\* A live assessment loses the verdict of a CVE that concerned the device all
\* along only if NVD renumbered the list of the head under the query, or gave
\* an answer without any row for it (nvd_cve.py:14-16, 376-411).
KeepsListed ==
  [][client = "assess" /\ client' = "none"
       => \A c \in Cves :
            stored[c] # NoVerdict /\ stored'[c] = NoVerdict
              => \A i \in DOMAIN Matchers :
                   LET head == Matchers[i].head
                   IN  c \in steady[head] => head \in shifted \cup denied]_headsVars

\* What the catalog keeps of a CVE decides it as NVD's own record does, for
\* any version and head (nvd_cve.py:466-475, "nothing the decision ... read
\* is lost").
CatalogAgrees ==
  \A c \in Cves :
    catalog[c] # NoRecord
      => \A v \in Versions, head \in Heads :
           Decide(Rebuilt(catalog[c]), v, head) = Decide(origin[c], v, head)

\* Not so: an ingest that dies half way leaves nothing of a head
\* (refresh.py:197-198).
NoHalfHead ==
  [][client = "ingest" /\ client' = "none" => UNCHANGED catalog]_headsVars
=============================================================================
