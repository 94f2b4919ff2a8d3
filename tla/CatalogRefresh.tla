--------------------------- MODULE CatalogRefresh ---------------------------
(***************************************************************************)
(* The catalog under all its regular writers: the stream and the back-fill *)
(* of CatalogStream, and with them the NVD enrichment (refresh_tick and    *)
(* nvd_cpe_ingest_tick of posture/refresh.py) and the purge of ancient     *)
(* rows (purge_defects of posture/store.py).                               *)
(*                                                                         *)
(* refresh_tick reads its pool of pending skeletons, then fetches them one *)
(* by one from NVD while other processes go on; what it has enriched sits  *)
(* in an open transaction, which keeps the other writers out, until it     *)
(* commits.  The verdicts a tick re-decides are in AssessEngine.           *)
(***************************************************************************)
EXTENDS CatalogStream

CONSTANTS
  Newer,       \* [Cves -> Nat], order of publication, later is higher
  Ancient,     \* those published before the purge's cutoff
  RefreshCap,  \* skeletons per refresh tick
  MaxFail,     \* MAX_CONSECUTIVE_FAIL
  CommitEvery  \* _COMMIT_EVERY_ROWS

ASSUME RefreshAssumption ==
  /\ Newer \in [Cves -> Nat]
  /\ \A c, d \in Cves : Newer[c] = Newer[d] => c = d
  /\ Ancient \subseteq Cves
  /\ RefreshCap \in Nat \ {0}
  /\ MaxFail \in Nat \ {0}
  /\ CommitEvery \in Nat \ {0}
  /\ NoRow \notin Row

VARIABLES
  analysed,   \* NVD: the CVEs it has a record of
  refreshing, \* a refresh tick runs
  pool,       \* refresh tick: the skeletons it has yet to fetch
  batch,      \* refresh tick: rows enriched but not committed
  fails       \* refresh tick: consecutive_fail

refreshTick == <<refreshing, pool, batch, fails>>
vars == <<streamVars, analysed, refreshTick>>

\* Everything but the catalog rows.
elsewhere == <<tree, kept, state, streamTick, backfillTick, history>>

\* The open transaction of the refresh holds SQLite's write lock.
Unlocked == batch = {}

\* The skeletons the catalog still waits to see enriched.
Pending == {c \in Cves : defects[c] # NoRow /\ defects[c].stratum = "mitre"}

\* pending_enrichment_ids(limit=cap), the newest first.
PendingIds ==
  {c \in Pending : Cardinality({d \in Pending : Newer[d] > Newer[c]}) < RefreshCap}

Enriched(rows, cves) ==
  [c \in Cves |-> IF c \in cves THEN Upserted(rows[c], "nvd") ELSE rows[c]]

-----------------------------------------------------------------------------
(* The world: NVD catches up, time passes.                                 *)

Analyse(c) ==
  /\ c \notin analysed
  /\ analysed' = analysed \cup {c}
  /\ UNCHANGED <<streamVars, refreshTick>>

\* discovered_at falls behind the TTL of the retries.
Retire(c) ==
  /\ defects[c] # NoRow
  /\ ~defects[c].retired
  /\ defects' = [defects EXCEPT ![c].retired = TRUE]
  /\ UNCHANGED <<elsewhere, analysed, refreshTick>>

-----------------------------------------------------------------------------
(* refresh_tick.                                                           *)

\* The cap is applied first, the TTL filter to what it let through.
RefreshStart ==
  /\ ~refreshing
  /\ refreshing' = TRUE
  /\ pool' = {c \in PendingIds : ~defects[c].retired}
  /\ fails' = 0
  /\ UNCHANGED <<streamVars, analysed, batch>>

NextToFetch(c) == c \in pool /\ \A d \in pool : Newer[d] <= Newer[c]

\* NVD has a record: upsert it, commit every so many rows.
FetchEnriches(c) ==
  /\ NextToFetch(c)
  /\ c \in analysed
  /\ pool' = pool \ {c}
  /\ fails' = 0
  /\ IF Cardinality(batch \cup {c}) = CommitEvery
     THEN batch' = {} /\ defects' = Enriched(defects, batch \cup {c})
     ELSE batch' = batch \cup {c} /\ UNCHANGED defects
  /\ UNCHANGED <<elsewhere, analysed, refreshing>>

\* Mutant: an absent CVE counts against the breaker.
AbsentCounts(c) ==
  /\ NextToFetch(c)
  /\ c \notin analysed
  /\ fails' = fails + 1
  /\ pool' = IF fails' >= MaxFail THEN {} ELSE pool \ {c}
  /\ UNCHANGED <<streamVars, analysed, refreshing, batch>>

\* NVD proves it has none: a complete answer, the skeleton stays pending.
FetchAbsent(c) ==
  /\ NextToFetch(c)
  /\ c \notin analysed
  /\ pool' = pool \ {c}
  /\ fails' = 0
  /\ UNCHANGED <<streamVars, analysed, refreshing, batch>>

\* Incomplete, or an exception; the breaker trips at MaxFail in a row.
FetchFails(c) ==
  /\ NextToFetch(c)
  /\ fails' = fails + 1
  /\ pool' = IF fails' >= MaxFail THEN {} ELSE pool \ {c}
  /\ UNCHANGED <<streamVars, analysed, refreshing, batch>>

\* The wall-clock budget of REFRESH_MAX_SECONDS is spent.
OutOfTime ==
  /\ pool # {}
  /\ pool' = {}
  /\ UNCHANGED <<streamVars, analysed, refreshing, batch, fails>>

RefreshCommit ==
  /\ refreshing
  /\ pool = {}
  /\ defects' = Enriched(defects, batch)
  /\ batch' = {}
  /\ fails' = 0
  /\ refreshing' = FALSE
  /\ UNCHANGED <<elsewhere, analysed, pool>>

\* Mutant: the transaction outlives the tick.
DieWithoutRollback ==
  /\ refreshing
  /\ refreshing' = FALSE
  /\ pool' = {}
  /\ fails' = 0
  /\ UNCHANGED <<streamVars, analysed, batch>>

\* The process dies, or systemd's TimeoutStartSec ends it: rolled back.
RefreshDies ==
  /\ refreshing
  /\ refreshing' = FALSE
  /\ pool' = {}
  /\ batch' = {}
  /\ fails' = 0
  /\ UNCHANGED <<streamVars, analysed>>

-----------------------------------------------------------------------------
(* The other two writers, each one transaction.                            *)

\* nvd_cpe_ingest_tick for one CPE head: every CVE NVD lists for it.
NvdCpeIngest(head) ==
  /\ Unlocked
  /\ head \subseteq analysed
  /\ defects' = Enriched(defects, head)
  /\ UNCHANGED <<elsewhere, analysed, refreshTick>>

\* Mutant: the cutoff date is not looked at.
PurgeRecent(gone) ==
  /\ Unlocked
  /\ defects' = [c \in Cves |-> IF c \in gone THEN NoRow ELSE defects[c]]
  /\ UNCHANGED <<elsewhere, analysed, refreshTick>>

\* purge_defects: rows that are ancient, and spared by no overlay.
PurgeDefects(gone) ==
  /\ Unlocked
  /\ gone \subseteq Ancient
  /\ defects' = [c \in Cves |-> IF c \in gone THEN NoRow ELSE defects[c]]
  /\ UNCHANGED <<elsewhere, analysed, refreshTick>>

-----------------------------------------------------------------------------

Init ==
  /\ StreamInit
  /\ analysed = {}
  /\ refreshing = FALSE
  /\ pool = {}
  /\ batch = {}
  /\ fails = 0

\* A step of a git-fed producer; one that writes waits for the lock.
Produce ==
  /\ Upstream \/ Stream \/ Backfill
  /\ Unlocked \/ UNCHANGED <<defects, state>>
  /\ UNCHANGED <<analysed, refreshTick>>

World == \E c \in Cves : Analyse(c) \/ Retire(c)

Refresh ==
  \/ RefreshStart
  \/ \E c \in Cves : FetchEnriches(c) \/ FetchAbsent(c) \/ FetchFails(c)
  \/ OutOfTime
  \/ RefreshCommit
  \/ RefreshDies

Writers == \E cves \in SUBSET Cves : NvdCpeIngest(cves) \/ PurgeDefects(cves)

Next == Produce \/ World \/ Refresh \/ Writers

Spec == Init /\ [][Next]_vars

(* Fairness.  The ticks are run again and again by a timer; NVD answers    *)
(* infinitely often a question put to it infinitely often; and a tick that *)
(* has enriched a CVE is not killed before its commit every single time.   *)
Fairness ==
  /\ WF_vars(RefreshStart)
  /\ SF_vars(RefreshCommit)
  /\ \A c \in Cves :
       /\ SF_vars(FetchEnriches(c))
       /\ SF_vars(FetchAbsent(c))
       /\ SF_vars(RefreshCommit /\ c \in batch)

LiveSpec == Spec /\ Fairness

-----------------------------------------------------------------------------
(* Properties.                                                             *)

\* Types of the refresh tick; the breaker never counts past its limit
\* (refresh.py:284-306).
TypeOK ==
  /\ StreamTypeOK
  /\ analysed \subseteq Cves
  /\ refreshing \in BOOLEAN
  /\ pool \subseteq Cves
  /\ batch \subseteq Cves
  /\ fails \in 0 .. MaxFail
  /\ ~refreshing => pool = {} /\ batch = {}

\* Whoever else writes, whatever dies half way: once the back-catalog is
\* walked, every CVE the stream's cursor knows has a row, unless it is ancient
\* enough for the purge to have forgotten it (stream.py:302-324,
\* store.py:1751-1766).
CatalogComplete ==
  cursor # NoTree /\ bfDone /\ orderly
    => \A c \in Cves \ Ancient :
         cursor[c] > 0 /\ NeverMalformed(c) => defects[c] # NoRow

\* A skeleton NVD has a record of does not stay for ever among the newest
\* RefreshCap that are pending: it is enriched, or the TTL retires it, or newer
\* ones that stay pending push it out (refresh.py:56-73 and 266-308).
EnrichedWithinCap ==
  \A c \in Cves :
    (c \in PendingIds /\ c \in analysed)
      ~> (c \notin PendingIds \/ defects[c].retired)

(* What the documentation says and the code does not do.                   *)

\* refresh.py:51-53: the cap is "Safe to cap: un-enriched ids stay pending for
\* the next tick, no loss": whatever NVD has a record of is enriched in the
\* end, unless the TTL retires it first.
EnrichedInTheEnd ==
  \A c \in Cves :
    (c \in Pending /\ c \in analysed)
      ~> (c \notin Pending \/ defects[c].retired)
=============================================================================
