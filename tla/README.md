# A TLA+ verification of posture

`posture` keeps a catalog of public defects (CVEs and their peers), publishes
it as a map that clients download, and assesses devices against it.  Its
promises are about data that must not be lost, and about silence that must not
be read as good news: an incomplete fetch never wipes what is known, a blank
axis is never "clean", a served map is never half a map.  All of it runs in
short-lived processes, started by timers, which share one SQLite file and one
served directory and may be killed at any point.

This directory models those promises in TLA+, checks them with TLC on small
instances and proves the central ones with TLAPS for every instance.
`PROJECT.json` lists the runs, the mutants that show each property can fail,
the lines of code every definition stands for, the hazards and the theorems.

## The system

| Component | State | Operations | Modelled by |
|---|---|---|---|
| Assessment engine (`engine.py`, `observer.py`) | an open transaction; the findings of the axis being assessed | `assess`, `_assess_axis`, `_run_observer` | `AssessEngine` |
| Verdict store (`store.py`) | `verdicts`, `device_posture`, `distrust_marks` | `commit_device_verdicts`, `upsert_verdict`, `upsert_axis_posture`, `mark_distrust` | `AssessEngine`, abstractly `NoWipe` |
| Stream and back-fill (`stream.py`, `git_ingest.py`) | the keys `stream:mitre_cursor`, `stream:backfill_cursor`, `stream:backfill_done`; a git clone | `stream_tick`, `backfill_tick` | `CatalogStream` |
| NVD refresh (`refresh.py`) | none beyond one tick | `refresh_tick`, `nvd_cpe_ingest_tick` | `CatalogRefresh`; its verdicts in `AssessEngine`, its CPE heads in `NvdHeads` |
| NVD observer (`sources/nvd_cve.py`) | none beyond one query | `nvd_query_cpe`, `assess`, `decide_cve_for_device` | `NvdHeads` |
| Defect catalog (`store.py`) | `defects`, `seen_defects`, `crosswalk` | `upsert_defect`, `set_enrich_state`, `mark_seen`, `add_defect_alias`, `pending_enrichment_ids`, `purge_defects` | `CatalogStream`, `CatalogRefresh`, `Overlays` |
| Spine (`export.py`) | the directories `spine`, `.spine-staging`, `.spine-previous` | `export_spine`, `publish_spine`, `verify_spine`, `import_spine` | `SpinePublish` |
| Ubuntu overlay (`sources/ubuntu_ingest.py`, `sources/ubuntu_git_ingest.py`) | `ubuntu_fixes`; a git clone | `ubuntu_ingest_tick`, `ubuntu_git_ingest_tick` | `UbuntuIngest` |
| Peer advisories (`sources/ghsa.py`, `sources/osv.py`) | the keys `ghsa:*`, `osv:*`; a git clone | `ghsa_ingest_tick`, `osv_ingest_tick` | `PeerFeeds` |
| Apple overlay (`sources/apple_ingest.py`, `sources/apple_advisory.py`) | `apple_fixes` | `apple_ingest_tick` | `AppleFixes` |
| KEV, EPSS, Debian (`sources/kev.py`, `sources/epss.py`, `sources/debian_ingest.py`) | `kev`, `epss`, `debian_fixes` | one tick each | `Overlays` |
| LLM enrichment (`llm_enrich.py`) | columns of `defects` | `llm_enrich_tick`, `distrust_provider` | `LlmEnrich` |
| Glossary, monitor, discovery (`glossary.py`, `vocab_monitor.py`, `discovery.py`) | `glossary`, `term_changes`, `candidates` | add, promote, deprecate, review; the scans | `Vocabulary` |
| Health, policy, history, repair (`health.py`, `policy.py`, `source_history.py`, `repair.py`) | `health_samples`, `repair_proposals`; the policy and ledger files | record, degrade; reconcile, apply, dismiss | `SourceWatch` |
| Version comparison (`debver.py`) | none | `compare`, `ge` | `Debver`, used by `Overlays` |
| Other observers (`sources/`) | none | `assess(device, policy)` | an answer or a crash in `AssessEngine`; Debian's and Ubuntu's offline answers in `Overlays` |
| Daily job (`scripts/vps_spine.sh`, `systemd/`) | a stamp file | the commands above in order | its steps are actions of the other modules |

How they interact.  The stream runs every ten minutes, the daily job once a
day, an operator's `assess` and `distrust` at any time; each is a process of its
own with a connection of its own.  They meet in SQLite, where a transaction
opened by the first write shuts every other writer out until it commits: the
models give each process its steps, one commit a step, and make a writer that
meets an open transaction wait (the code waits five seconds and then fails; a
failed tick is a `...Dies` action).  The publisher reads the catalog while
others write it, and the web server and its clients read the directory it swaps.

What is hard about it, and what correct means:

* engine: several observers of one axis, some weaker, some failing, some
  silent.  The strongest answer must win in any order of strength
  (`Authority`); a loss of verdicts needs a complete answer
  (`LossOnlyByCompleteFetch`); a posture must agree with its rows
  (`PostureMatchesRows`), and a device be assessed as a whole
  (`AllAxesOrNone`, a theorem), even if the process dies.
* stream and back-fill: they die in the middle, upstream moves on, its history
  may be rewritten.  The cursor must not run ahead of the catalog
  (`KeepsWatermark`), and no record fall between the two (`NothingMissed`).
* refresh: NVD fails, lags and answers slowly, while the stream and the purge
  write the same rows.  No row may get lost (`CatalogComplete`), and what stays
  within the cap of a tick must be enriched in the end (`EnrichedWithinCap`).
* spine: the publisher fails or dies, the catalog changes, a client downloads
  through it all.  What is served and what is imported must be one whole map
  (`ServedIsWhole`, `ImportIsOneMap`), there must be one to serve
  (`StaysServed`, `ServedAgain`), and no single fault may lose it
  (`OneFaultIsRecoverable`).  Its readers need not know how (`KeepsPromise`).
* Ubuntu overlay: a feed of a thousand pages fails, lags, stops short and
  changes while it is read, and a second source overwrites the first.  What
  could not be read must not be deleted (`KeepsSteady`), what upstream dropped
  must not stay (`DropsWithdrawn`), and the tick must come to an end
  (`TickEnds`, `EveryPageCounts`).
* NVD observer: a head has thousands of CVEs over several pages, which NVD
  revises under the query, and a device has several heads.  An answer must be
  whole or unknown (`WholeOrUnknown`), a partial one must cost no verdict
  (`KeepsListed`), and the offline path must decide as the live one
  (`CatalogAgrees`).
* peers: capped walks over trees and zips that grow, cursors that three phases
  share, archives and reads that fail unnoticed.  A resumed walk must skip nothing
  an archive delivered (`WalksAreWhole`), no cursor pass what was neither taken nor
  passed unread (`TipKeepsWatermark`, `CursorCoversQuietTicks`).
* overlays and purge: five feeds on schedules of their own decide what the purge
  may forget, and the observers decide from what it leaves.  It must never forget
  a known-exploited CVE (`ExploitedNeverForgotten`), silence a warning of a fix
  that is not out yet (`PurgeKeepsWarnings`) nor leave an edge or a sighting without its row
  (`NoOrphans`); Apple's two passes must agree on the earliest fix
  (`EarliestFixWins`).
* LLM enrichment: real sources write a row while its draft is being made, and so
  do other ticks of drafts.  No draft may decide a verdict (`NoDraftDecides`).  A
  provider's text is found by its label, and what was retracted stays out, unless
  two ticks cross on a row (`MixedOnlyByCrossing`, `RedraftedOnlyByCrossing`).
* glossary and discovery: scans and an operator write the same terms.  Trust must
  have a record (`TrustIsRecorded`), a review must stand (`ReviewsStick`).
* source watch: a sweep reads, and writes later, beside another one.  It must
  raise no false alarm (`NoFalseAlarm`) and miss nothing for ever (`Noticed`).

## The modules

**`NoWipe`** is the contract the store's documentation gives for verdicts, with
no engine in it: per device and axis the rows are replaced as a whole by a
non-empty set with one row per key, revised key by key with none removed, or
flagged.  `AssessEngine` implements it: `KeepsContract` is `NoWipe!Spec`.

**`AssessEngine`** has one action for each step of `assess`: `StartAssess`,
`StartAxis` or `BlindAxis` (no observer), `Observe` or `ObserverCrashes` for
each observer in the order of `for_axis`, `FinishAxis` (status, deciding
observer and bias, then the gate `CommitDeviceVerdicts`), `CommitAssess`.
`txn` is the device's rows as the open transaction sees them; it opens with the
first health sample, keeps other writers out, and is dropped by `AbortAssess`,
which stands for a kill as well as for SQLite's "database is locked".
`RefreshNvd` and `RefreshVendors` are the two commits of `refresh_tick` that
write verdicts, and `Distrust` is the operator.  A verdict is a key, an
observer, a status and its distrust flag; a gap is a Boolean; of the insertion
order of `by_key` only the first key is kept, the rest is left open.

**`CatalogStream`** has upstream as a tree of revisions, so that a commit is a
function from CVEs to numbers and `git diff` is a comparison.  A tick fetches a
tip (`StreamFetch`, `BackfillSlice`), upserts record after record
(`StreamTake`, `BackfillTake`), each in its own commit, and then moves its
cursor.  `LoseCursorCommit` makes the diff fail (`StreamReset`).  `base`, `got`
and `orderly` are history: where the stream (re)started, what was ever
upserted, and whether the stream was there before the back-fill.

**`Watermark`** is what a reader that follows a versioned source by differences
promises, with no git in it: it takes records one by one, moves its mark only
over what it has taken or has passed unread (`Skip`), or starts anew.
`CatalogStream` implements it with its cursor as the mark and the unparsable records
as what is unread (`KeepsWatermark`): a read of it that fails ends the tick.
`PeerFeeds` implements it with the advisories' tip (`TipKeepsWatermark`); there
`missed` is unread too.

**`CatalogRefresh`** extends `CatalogStream` with the other regular writers of
the catalog.
A refresh tick fixes its pool, then meets NVD once per skeleton
(`FetchEnriches`, `FetchAbsent`, `FetchFails`); rows it has enriched sit in
`batch`, its open transaction, until a commit.  `NvdCpeIngest` and
`PurgeDefects` are one transaction each.  A row is its stratum, `mitre` or
`nvd`, and whether the retry TTL has retired it.  `Ancient` is what the purge's
cutoff and its overlays let go.

**`SpinePublish`** has a directory as what its files hold and what its manifest
claims.  The publisher exports table by table, each by a query of its own,
writes the manifest, verifies and swaps by two renames; every step may fail as
the code lets it, or the process die, at most `MaxFaults` times.  The client is
external: it downloads the manifest and then the shards it names from whatever
is served by then, possibly cut short.  Its verification and its import are
the code's.

**`ServedMap`** is what a publisher promises whoever reads its directory, with no
files in it: the served map may be withdrawn as it is, and then a whole one is
released, or the one withdrawn is put back, or the publisher dies with nothing
served, which is counted; a client adds the rows of one released map (`Import`).
`SpinePublish` implements it (`KeepsPromise`) with `published` as `served`, the
old map in the middle of a swap (phase `"aside"`) as `aside`, and the deaths
there (`cuts`) as `lost`.

**`UbuntuIngest`** has upstream as the set of CVEs tracked for each package,
listed newest first, and a row as that it exists (a release is one more index).
`StartHttp`, then per request `PageArrives` (how many rows, slow or not) or
`PageFails`, with the four counters of the circuit breaker, then `WriteSheets`,
the one commit, which replaces a package's rows or, after a skipped page, merges
them.  `HttpAborts` is the wall-clock budget and a kill.  The git source is one
action per way its fetch can end (`GitPulls`, `GitPullFails`, `GitPullKilled`,
`GitClones`, `GitCloneKilled`), each with the scan and the replacement that
follow; a fetch that returns an error changes nothing and is a stutter.
`PurgeRows` is the purge's share.  `steady`, `listed` and `unsettled` are
history: what upstream tracked throughout a tick, what at any time of it, and
the packages whose feed misled the pager by shrinking or by an empty page.
`pager.again` alternates with each request, so that asking for the same page for
ever would be seen.

**`NvdHeads`** has NVD's record of a CVE as its sequence of `cpeMatch` entries, a
version as a number, and a head's list as the CVEs with an entry for it.  A
filtered list keeps the places of what is left (only their order counts), so that
no operator on it is recursive and `Decide` can be reasoned about.
`nvd_query_cpe` is one action per page and outcome (`PageArrives`, `EmptyPage`,
`AbsentTwice`, `GivesUp`); its two callers take the heads in turn
(`HeadAssessed`, `HeadIngested`), and `Dies` leaves what the ingest had
committed of a head.  `Decide` is `decide_cve_for_device`, `Ranges` what
`_enriched_record` keeps and `Rebuilt` what `_defect_row_to_vuln` makes of it.
`steady`, `shifted` and `denied` are history: the CVEs that concerned a head
throughout, the heads whose list moved up under the query, and those answered
as having no rows.

**`PeerFeeds`** has a clock for upstream, so that a tree, a zip and a list of
changes are each a function from ids to times.  One tick runs at a time, as the
daily job has it: `GhsaWalk` or `GhsaDiff` over `GhsaTake`, `OsvBackfill` over
the zips, `OsvIncremental` over the lists, each record in its own commit.  The
exit status of `git archive` is not looked at, so a walk takes a slice or what came
before the archive was cut (`Archived`: one archive per slice, as with a cap of up
to 2000); a diff passes an advisory by when its read fails (`GhsaSkip`).  What
either loses is kept in `missed`, a history variable of at most `MaxMissed`
versions, and nothing else may be skipped.

**`AppleFixes`** builds the fix map of a product in two passes: the live index in
the order of its versions, first sighting kept (`ReadIndexed`), then what the
archived indexes name, earlier version wins (`ReadOld`).  `replaced` is the
command's transaction over all its products.  **`Overlays`** extends it with the
other overlays, the catalog's rows, sightings and alias edges, and the purge in
its two steps: the query (`PurgeSelects`) and the deletes (`PurgeDeletes`),
between which the stream's timer may strike.  `DebianSays`, `UbuntuSays` and
`AppleDecide` are what the observers say of a CVE from the overlays, by lists of
statuses of their own; a device is its one package and whether it is at the fix.
**`Debver`** is how the observer finds that out: `Compare` translates the loops of
`debver.py` on sequences of character codes (`CmpAt` is one round of the loop at two
places, `CmpStr` the function that goes from round to round), `PolicyBefore` is the
order as Debian Policy defines it, on lists of texts and numbers, and `Misjudged`
is where the two differ.

**`LlmEnrich`** tells two fields of a row apart by who wrote them, `fixed_raw` key
by key.  Nothing keeps the ticks of `enrich-llm` apart, so any number of them run
at once.  A tick reads a row again and merges its draft into what it read
(`DraftArrives`, `Merged`), and updates the row in a step of its own (`WriteDraft`),
so that an update may put an old `fixed_raw` back; from its first update on `mine`
is its transaction, the only one there is.  The real sources are one action each.
`crossed` is history: of each tick the rows that another one committed while it had
yet to write them.

**`Vocabulary`** and **`SourceWatch`** have sweeps that read in one step and write
in another, any number of them at once, beside the single-step commands of the
operator.  Time is counted in days where it matters.

The `MC...` modules give the constants their values for TLC, the
`...Proofs` modules hold the theorems.

## What the runs check

| Run | Configuration | Checks |
|---|---|---|
| `assess` | two axes (two observers; none), two keys, statuses bad and good, one device | all of `AssessEngine` but `AllAxesOrNone` and its types, which are proved |
| `refresh_catalog` | two CVEs in path order, the ancient one with one revision, which does not parse, the other with two; slices of one; everybody writing, a breaker of two, commits of two rows | `TypeOK`, `KeepsWatermark`, `NothingMissed`, `CatalogComplete` |
| `refresh_live` | three CVEs, the oldest one ancient, all of them skeletons of a catalog that was walked, room for two in a tick | `EnrichedWithinCap` |
| `spine_served` | two tables, one item that comes and goes, two faults, one client | all of `SpinePublish` but its types, which are proved; `KeepsPromise` against `ServedMap` |
| `ubuntu_feed` | two packages with feeds of up to three and two CVEs, pages of at most two, limits of two and three, one upstream change | all of `UbuntuIngest` |
| `nvd_heads` | three CVEs, two heads, pages of one, a cap of two, a matcher for each head, ranges of every shape | all of `NvdHeads` |
| `peer_feeds` | four records of two ecosystems, one malformed; the first of them is there from the start; two a tick, two changes upstream, one advisory lost by an archive or a read | all of `PeerFeeds` |
| `overlays` | one CVE and a peer that aliases it, both ancient, one Debian sheet, four advisories of two products, two of them old | `EarliestFixWins`, `NoOrphans`, `ExploitedNeverForgotten`, `PurgeKeepsWarnings`; `PatchedIsAtFix` over the versions of up to three of the characters 0, 1, 2, a, + and ~, and 24 with a dot, an epoch or a revision (the comparison is proved for all of them) |
| `llm_drafts` | two rows, two providers, two ticks at once, two drafts a tick | `NoDraftDecides`, `MixedOnlyByCrossing`, `RedraftedOnlyByCrossing` |
| `vocabulary` | a seed, a standard format and a third term, one source, two sweeps | `TrustIsRecorded`, `ReviewsStick` |
| `source_watch` | one observer with a window of a day, three days, two sweeps | all of `SourceWatch` but its types, which are proved |
| `killed_clone` | two packages, three CVEs, one change | `FailedCloneWritesNothing`, violated |

The bounds.  Two keys are what it takes for one verdict to be lost or to decide
beside another; two observers for one to override; two axes for a run to die
between two.  Slices of one give the back-fill a full slice with paths left, and
a last one that fits exactly; the second revision is what a cursor can run ahead
of.  The refresh meets a row before, in and after its
batch with two.  One item and two tables suffice for a map that mixes two
moments; two faults allow a crash whose recovery fails as well.  A feed of three
and pages of two give full, short and last pages; limits of two and three let
each counter trip before the others; one upstream change may fall between any
two requests.  Three CVEs and pages of one under a cap of two give a head that
ends before, at and past the cap, and a row that moves between pages.  Four
records, two a tick, let the cap fall inside a zip, at its end and between two
ecosystems; one lost advisory may be the last of a slice or any of a diff.  Three
skeletons and room for two let the cap leave one out, and the two it admits fail,
be absent and be purged.  Two ticks and two providers are what it takes for one to
write under the other.  Four advisories let the old pass find an earlier and a later fix
than the index, and one of another product.  Two sweeps are what it takes to
overlap, and three days to read on one, have an answer, and be stale.
Unbounded
counters are capped where they grow: `MaxRevision`, `MaxFaults`,
`MaxChanges`, `MaxTime`, `MaxMissed`, `MaxDay`.  Deadlock is
checked in every run: no process here may ever be stuck.

One run shows the code doing what its own text says it does not, a finding in
`PROJECT.json`: `killed_clone`, where a clone killed by its timeout leaves a
directory that is taken for a checkout, and instead of returning an error the tick
writes from its scan (`ubuntu_git_ingest.py:319`).

Four configurations of their own show disagreements beside a passing run, which
checks what the code does keep.  TLC finds each violated (`tlc -config X.cfg M`):

| Configuration | Module | Violated | What the code does |
|---|---|---|---|
| `MixedDrafts.cfg` | `MCLlmEnrich` | `RetractableInOneSweep` | a second tick writes over the draft of a first one that it crossed and puts its own label on all of it, so that the sweep of the first provider does not find its text (`llm_enrich.py:82-84`) |
| `RedraftedRow.cfg` | `MCLlmEnrich` | `RetractedStayOut` | a row drafted and retracted between another tick's selection and its re-read is drafted again (`llm_enrich.py:518-520`) |
| `RefreshStarves.cfg` | `MCCatalogRefresh` | `EnrichedInTheEnd` | newer skeletons that NVD does not have fill the cap of every tick and keep out older ones that it has (`refresh.py:51-53`) |
| `PurgedWarning.cfg` | `MCOverlays` | `OnlyTheIrrelevantForgotten` | a CVE whose Ubuntu fix is released is purged with its row, also for a device below the fix, of which the observer said "unpatched" (`store.py:1749-1750`) |

More such differences were met while modelling.  The last section of a module
states those that a property can say, under "What the documentation says and
the code does not do".  No run is registered for the following; TLC finds each of
them violated when the module's configuration checks it alone.  Four need other
values than the registered ones: `SkipsOnlyMalformed` a slice of two
records whose archive may be cut short (`Cap = 2`, `CutShort = TRUE` in `RefreshCatalog.cfg`);
`PatchedIsPatched` a branch without the fix (`MCFixes` empty for `a17`);
`SupersededIsOver` a second event, not degrading, that supersedes `"gap"` (in
`MCEvents`); `DraftsAreOverwritten` the fairness of `LiveSpec`.

* `DistrustIsLasting`: the next assessment replaces a distrusted verdict by an
  unflagged one of the same observer (`README.md:276`).
* `BiasOfDecider`: a posture may carry the bias of one observer beside the name
  of another (`tests/test_engine.py:99`).
* `SkipsOnlyMalformed`: a `git archive` that dies at a record boundary loses the
  rest of the slice for good (`git_ingest.py:56`); in `PeerFeeds` `missed` holds
  what the advisories lose that way and by a failed read (`ghsa.py:220`), until the
  advisory changes again.
* `AlwaysServed`: a death between the two renames leaves nothing served
  (`export.py:581`).
* `NoHalfHead`: an ingest that dies inside a head leaves the rows of its last
  500 (`refresh.py:197`).
* `GhsaUpToTip`, `ModifiedCursorCovers`: an advisory that changes during the walk
  after its path was passed is not taken until it changes again; a list that was
  capped or failed is passed over by the one cursor (`ghsa.py:200`,
  `osv.py:116`).
* `PatchedIsPatched`: the one fix recorded for a product is compared across its
  branches (`apple_advisory.py:605`).
* `NoSampleLeak`: an overlay that was filled and is empty again, by a purge or an
  empty feed, hands nothing over, and the observer reads its bundled sample
  document (`debian_tracker.py:250`).
* `ExploitedAliasKept`: a peer's row of a known-exploited CVE may be purged
  (`store.py:1755`).
* `RealSourceDecides`, `UsableRowsStayReal`, `DraftsAreOverwritten`: a mark of
  distrust outlives the draft it was set for; a peer's ranges do not count as
  affected info; a drafted row is no longer pending, so the refresh does not ask
  for it (`llm_enrich.py:28`, `:275`, `docs/architecture.md:316`).
* `ScansDecideNothing`: a late sweep turns a term promoted meanwhile back into a
  candidate (`vocab_monitor.py:18`).
* `RaisedOnce`, `SupersededIsOver`: an overlapping sweep reopens a settled
  proposal; a superseded event still degrades its source (`repair.py:55`,
  `source_history.py:311`).

Others have no property: a retried range puts skeletons over
enriched rows (`stream.py:189`); an Ubuntu feed with an empty page in it is
taken for complete and replaces the sheet (`ubuntu_ingest.py:154` calls it a
success, `:236` forbids it); after a failed pull the stale checkout overwrites
rows that are newer and the HTTP fallback of `vps_spine.sh:172` does not run;
overlay rows the purge removed return with the next ingest; a partial
fetch gives its axis a status and a gap where `engine.py:29` says UNKNOWN; a CVE
published between the back-fill's walk and a restart of the stream has no owner
(`orderly` in `NothingMissed`); the back-fill overwrites enriched rows
(`stream.py:305` "only-adds"); the export's tables are of different moments
(`store.py:1258`); the import loads shards the manifest does not name
(`ReuseDir`, `README.md:430`) and never deletes a row (`export.py:1530`); of two
matchers of one device the later overrides an "unpatched" of the earlier
(`engine.py:214`); a head answered 404 twice in mid-stream counts as absent and
complete (`nvd_cve.py:318`); the version a range ends with, inclusively, is
given as the fix (`nvd_cve.py:200`); an observer that raises leaves no sample,
so that its silence is never noticed if it never answered (`engine.py:264`); and
one proposal is all a source ever gets (`Noticed`).

## Fairness

Safety needs none.  `EnrichedWithinCap` assumes that the timer starts ticks for
ever (weak fairness of `RefreshStart`), that NVD answers a question asked of it
again and again at some time (strong fairness of the fetch of each CVE, enriched
or absent), and that a tick which holds enriched rows is not killed before its
commit every time (strong fairness of the commit): the timers of `systemd/`,
the retries and the breaker's reset give the first, the others are what the
code must hope for.  Nothing is assumed of failures, kills and the time budget,
which may strike for ever but not always.  Its run starts from a catalog that the
stream and the back-fill have walked, a state of `Spec`, and upstream publishes no
more; then a skeleton that stays among the newest two is asked for in each tick.
`ServedAgain` assumes that the timer
restarts the publisher and that a running publisher goes on (weak fairness of
its own steps together); faults are finitely many, and neither the writers nor
the client are fair.  `TickEnds` assumes only that a request ends, with a page
or without one (weak fairness of `Pages`): curl runs with a time limit and at
most three times (`ubuntu_ingest.py:132`).

## What is proved

For every value of the constants, by TLAPS:

* `AssessEngineProofs`: `AssessTypeOK`, `AuthorityHolds`, `WholePostures`,
  `NeverSilentlyClean`, `OnlyCompleteFetchesLose`, `PosturesMatchRows`, and
  `ImplementsNoWipe`: every step of the engine, the refresh and the operator is a
  step of `NoWipe` or a stutter.
* `CatalogRefreshProofs`: of the stream and the back-fill alone
  (`CatalogStream!StreamSpec`) `StreamTypeCorrect`, `CursorNeverAhead`,
  `ImplementsWatermark` and, if archives are whole (`~CutShort`),
  `NothingIsMissed`; of the catalog with all its writers (`CatalogRefresh!Spec`)
  `CatalogTypeCorrect`, `CatalogKeepsWatermark` and, if archives are whole,
  `CatalogMissesNothing` and `CatalogStaysComplete`.
* `SpinePublishProofs`: `SpineTypeCorrect`, `ServedIsAlwaysWhole`,
  `AMapStaysServed`, `OneFaultLosesNoMap` and, for a client that starts in an
  empty directory (`~ReuseDir`), `ImportsAreOneMap` and `ImplementsServedMap`: every
  step of the publisher, the timer and the client is a step of `ServedMap` or a
  stutter.
* `UbuntuIngestProofs`: `UbuntuTypeCorrect`, `SteadyRowsAreKept`,
  `WithdrawnRowsAreDropped` and `PagesCount`.
* `EnrichmentProofs`: of `LlmEnrich`, for any number of overlapping ticks,
  `LlmTypeCorrect`, `DraftsNeverDecide`, `MixingNeedsCrossing` and
  `RedraftingNeedsCrossing`, and, if there is but one process that drafts,
  `DraftsAreLabelled` and `RetractionsStick`, what the documentation says; of `NvdHeads`
  `CompleteAnswersAreWhole`, `LiveAnswersForgetNothing` and `ProjectionsAgree`.
* `UpkeepProofs`: of `Vocabulary` `VocabularyTypeCorrect`, `TrustHasARecord` and
  `DecisionsStick`; of `SourceWatch` `WatchTypeCorrect` and `AlarmsAreTrue`.
* `OverlaysProofs`, of `AppleFixes` too: `EarliestFixHolds`, `NothingOrphaned`,
  `ExploitedIsKept`, `WarningsOutliveThePurge`, `PatchedAtFix`, and
  `OverlaysTypeCorrect`, which no run checks.  `WarningsOutliveThePurge` covers
  devices at the fix and below it; it leaves out the warning of a device below a fix
  Ubuntu has released, if the purge has selected the CVE.  Of `Debver`, for every two versions
  over the character codes 0 to 127: `PartsCompare`, by which the comparison of an
  upstream part or a revision is Policy's, `VersionsCompare`, by which that of whole
  versions is, and `NoneMisjudged`.
* `PeerFeedsProofs`: `PeersTypeCorrect`, `NoWalkSkips`, `OneCursorCoversAll`, and
  `TipImplementsWatermark`: every step of the advisories' reader is a step of
  `Watermark` or a stutter.  `NoWalkSkips` leaves out the advisories an archive has
  lost, and the steps that lose one are the `Skip` of `Watermark`.

The assumptions are those the modules name (`ConstantsAssumption`,
`SentinelAssumption`, `StreamAssumption`, `RefreshAssumption`, `SpineAssumption`,
`UbuntuAssumption`, `HeadsAssumption`, `LlmAssumption`, `NoneAssumption`,
`VocabularyAssumption`, `SourceWatchAssumption`, `AppleAssumption`, `DebverAssumption`,
`OverlayAssumption`, `PeerAssumption`): types of the
constants, absent values that differ from present ones, orders without ties.

The arguments.  `Authority` is not inductive: it needs that whoever has yet to
be asked is at least as strong as whoever has answered (`AskedInOrder`), from
the order of `for_axis`.  `NoSilentClean` needs that an axis already computed
without a gap has rows in the open transaction (`CleanInv`), which survives
because nobody else can write while `txn` is open.  The refinement needs that
the findings hold one entry per key (`SwapInv`).  `LossOnlyByCompleteFetch` and
`PostureMatchesRows` share one invariant (`RunInv`): each axis is worked on
once, its rows in the open transaction are the stored ones or its posture has no
gap, and a posture without a gap states the worst of those rows; a commit then
shows both at once.  `CursorCovers` needs that a
sweep in progress has taken or still has to take everything between cursor and
tip (`SweepCovers`); `NothingMissed` adds that the walk so far covers every path
up to its cursor that was there when it passed, and that every tip is at least
as new as the one the stream started from (`WalkInv`).  `ServedIsWhole` needs
that the digests describe the staged files up to damaged ones (`StagedInv`), so
that a map which verifies is whole, and that it still is when it is moved in.
`StaysServed` and `OneFaultIsRecoverable` count (`KeptInv`): a served map is
absent only within the swap, while the old one waits beside it, or after a death
there, which is a fault, and only between the removal of the oldest map and the
swap may both maps of the past be missing, when the staged one is whole.
`ImportIsOneMap` needs that the client's directory holds nothing its manifest
does not name (`CopyInv`), so that verification compares everything there is.

`KeepsSteady` needs that the sheets hold all the pager has left behind of what
was tracked all along (`SheetsInv`): a growing feed only moves a CVE away from
the front (`PlacesGrow`), so that what was passed stays passed or is read again,
and a package whose last page was reached has been passed as a whole
(`PlaceType`).

`MixedOnlyByCrossing` and `RedraftedOnlyByCrossing` need what a tick may count on
between its reads and its transaction: a row it has yet to write that is drafted, or
distrusted since its selection, was committed by another tick meanwhile and is in
`crossed`, since only ticks write drafts and a retraction marks drafted rows only;
and its transaction leaves the marked rows that it did not cross on as they are.
Where there is one process that drafts nothing is ever crossed, so that every draft
bears its label and a retraction stays.
`TrustIsRecorded` needs that an absent term has no record, because a
seeding records nothing.  `KeepsWatermark` follows from `CursorCovers` after
each step: the cursor moves to what is then covered.

`EarliestFixWins` needs that each map at hand, the table's, the one under way
and the one replaced, is the best of the advisories read into it, and that the
pages of a pass come in version order (`InOrder`), since the two passes merge by
different rules.  `PurgeKeepsWarnings` needs that what the purge has chosen is
still unspared when it deletes: no overlay is written while it runs
(`SelectionInv`).  `WalksAreWhole` rests on trees and zips that only grow, so
that a record's index only rises and a record not yet taken stays ahead of the
walk (`SliceIsPrefix`), unless an archive lost it (`Lost`); `TipKeepsWatermark` on
each advisory of a sweep being left, taken or passed unread (`Passed`); `CursorCoversQuietTicks` on the cursor moving once, after the
lists of all the ecosystems are in.

With the refresh, the CPE ingest and the purge beside it the stream's invariant
still holds, since none of them writes its keys; the one new thing they do to it
is to delete rows, and what was upserted (`got`) is history.  `CatalogComplete`
adds `RowsKept`: whatever was upserted and is not ancient has a row.  The purge
takes ancient rows only, the refresh and the ingest write rows but remove none,
and `CursorCovers` with `NothingMissed` says what was upserted.

`NoFalseAlarm` needs its like for what a sweep has read and not yet written, by
the day of the reading (`HeldJustified` beside `StoredJustified`), and that no
sample and no sweep is of a day to come (`NothingAhead`), so that a later sample
only makes the comparison with `raisedAt` truer.

`WholeOrUnknown` is about the end of a query, over a list that NVD changes between
pages.  Of an answer still under way the invariant says that every CVE which
concerned the head all along and is listed before the place reached is in it
(`WalkedIsGathered`), unless the head is in `shifted`.  A page keeps this because
it has no more rows than ranks (`PageBound`, an injection) and the ranks of those
it has are consecutive from `start`; a revision keeps it because a CVE's rank only
falls below the place reached if a row of a rank below it leaves the list
(`RankKept`), which is what puts the head in `shifted`.  At the end every listed
CVE has a rank below the total (`RankType`).  `KeepsListed` adds the heads done
before (`HeadsDoneAreFound`): a later matcher overwrites a verdict but never takes
one away, and a record with a vulnerable entry for the head has a verdict
(`ConcernedIsDecided`, which needs that the least and the greatest of the places
exist: `LeastIsIn`, `GreatestIsIn`, from the well-foundedness of strict inclusion).
`CatalogAgrees` needs that each row is the projection of a record NVD had
(`CatalogIsProjected`), and that projecting and rebuilding change no entry the
decision reads (`ProjectionDecides`).

`PatchedIsAtFix` is about data: that the loops of `debver.py`, which walk two
strings by place and in step, order versions as Policy does, which cuts each into
texts and numbers first.  A recursive function is a choice of a solution of its
equation, so that one exists has to be shown before it can be unfolded
(`RecursionHasSolution`, by induction on the rank of an argument).  Such inductions
are done by the least counterexample (`LeastNumber`, `RankInduction`), since a
theorem that takes a predicate as its parameter cannot be used here.  What is then
shown of one round of the loop is that it either tells the two apart as Policy does
or passes on to a pair of places from which Policy's order is the same (`Tells`,
`PassesOn`); the rank that falls is what is left of both strings.

`KeepsPromise` rests on `StagedInv`, by which what is moved in is whole, on
`CopyInv`, by which what an import adds was released, and on where the swap is:
nothing is aside when the old map is about to move, and nothing served while it
is (`SwapInv`).

`EveryPageCounts` is the safety half of `TickEnds`.  It needs no more than the types:
a page with rows in it ends inside the feed, whose length the CVEs bound
(`FeedIsBounded`), and a breaker that has not tripped is below its limits
(`PagesLeftType`).  Since the packages left and the pages left both have a floor,
what `TickEnds` adds is that requests return.

Model-checked only: the four liveness properties (`EnrichedWithinCap`,
`ServedAgain`, `TickEnds`, `Noticed`), which are out of the prover's reach, as is
ENABLED.  Every other property that a passing run checks is a theorem.

## What is not modelled

The decisions of the observers other than NVD's, Apple's, Debian's and Ubuntu's,
which read one answer each and keep no state; the schema
migration; the daily job's disk guard and weekly git maintenance.  Role bindings
(`resolve_role`, `rebind_role`), distribution snapshots and drift flags have no
caller.  Of what is modelled: the content of records, severities and the
parsing of version strings; `--no-verify` imports, signatures, and the freshness
and coverage checks of a served map; shards split by size; power loss, as
opposed to the death of a process, since nothing is fsynced and what survives is
up to the file system; the five-second lock timeout, which is a death of the
waiting process.  The deployment gates (`scripts/check_*.sh`) are text checks
without state, and the rendering of `cli.py` is layout.

## Plan

1. `DailyJob`: the order of `vps_spine.sh`, its degraded steps, disk guard and
   maintenance stamp, over the publisher of `SpinePublish`.
2. `Shards`: the size-capped shard writer, checked against its definition.
3. `Migration`: the schema's steps, interrupted and run again.
4. Proofs: the pager of `UbuntuIngest` and of `NvdHeads` against one abstract
   pager.
