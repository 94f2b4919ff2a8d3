----------------------------- MODULE PeerFeeds -----------------------------
(***************************************************************************)
(* The two peer feeds of the catalog: the GitHub advisories (git, with a   *)
(* back-catalog walked slice by slice and then diffs past a tip) and OSV   *)
(* (a zip per ecosystem, then lists of modified records past a time).      *)
(* posture/sources/ghsa.py and posture/sources/osv.py.                     *)
(*                                                                         *)
(* Upstream is one clock and the time of each record's last change; OSV    *)
(* mirrors the advisories.  The daily job runs one tick at a time, each    *)
(* record is committed on its own, and a tick may die between any two.     *)
(***************************************************************************)
EXTENDS Naturals, FiniteSets

CONSTANTS
  Ids,
  Place,       \* [Ids -> Nat], order of the paths and of a zip's names
  Ecosystems,
  EcoOf,       \* [Ids -> Ecosystems]
  Malformed,   \* the records that do not parse
  Listed,      \* [Ecosystems -> Nat], the order of ecosystems.txt
  Cap,         \* records per tick
  MaxTime,     \* bound on upstream's clock
  MaxMissed,   \* bound on the advisories that reads and archives lose
  NoTree, NoEco

ASSUME PeerAssumption ==
  /\ IsFiniteSet(Ids)
  /\ Place \in [Ids -> Nat \ {0}]
  /\ \A i, j \in Ids : Place[i] = Place[j] => i = j
  /\ EcoOf \in [Ids -> Ecosystems]
  /\ Listed \in [Ecosystems -> Nat]
  /\ Malformed \subseteq Ids
  /\ \A e, f \in Ecosystems : Listed[e] = Listed[f] => e = f
  /\ Cap \in Nat \ {0}
  /\ MaxTime \in Nat \ {0}
  /\ MaxMissed \in Nat
  /\ NoTree \notin [Ids -> Nat]
  /\ NoEco \notin Ecosystems

VARIABLES
  now,      \* upstream's clock
  stamp,    \* [Ids -> Nat], upstream: its last change, 0 if unpublished
  gCursor,  \* ghsa:tree_cursor, the place of the last path walked
  gDone,    \* ghsa:backfill_done
  gTip,     \* ghsa:tip, the commit diffed up to, or NoTree
  gKept,    \* that commit can still be diffed against
  zDone,    \* osv:done_ecosystems
  zEco,     \* osv:backfill_cursor, its ecosystem or NoEco
  zIndex,   \*   and its index into the zip's names
  mCursor,  \* osv:modified_cursor, 0 for the empty string
  job,      \* the running tick: none, walk, diff, zip or csv
  seen,     \* tick: the tree, zip or list it fetched, or NoTree
  eco,      \* tick: the ecosystem in hand, or NoEco
  ecos,     \* tick: the ecosystems it has yet to come to
  left,     \* tick: the records in hand it has yet to upsert
  count,    \* tick: records counted against the cap
  best,     \* tick: max_modified
  gGot,     \* history: newest version taken from the advisories, 0 if none
  zGot,     \* history: newest version taken from OSV
  gBase,    \* history: the commit the diffs (re)started from, or NoTree
  missed,   \* history: advisories passed unread, as <<id, version>>
  early,    \* history: what was published before any tick
  cut       \* history: a list was capped, failed, skipped or raced

upstream == <<now, stamp>>
ghsa == <<gCursor, gDone, gTip, gKept>>
osv == <<zDone, zEco, zIndex, mCursor>>
tick == <<job, seen, eco, ecos, left, count, best>>
history == <<gGot, zGot, gBase, missed, early, cut>>
vars == <<upstream, ghsa, osv, tick, history>>

Trees == [Ids -> Nat]
Published(t) == {i \in Ids : t[i] > 0}
Later(m, n) == IF m > n THEN m ELSE n

\* Upsert a version of a record with its aliases and commit; a record that
\* does not parse is skipped.
Taken(got, i, version) ==
  IF i \in Malformed THEN got ELSE [got EXCEPT ![i] = Later(@, version)]

EndTick ==
  /\ job' = "none"
  /\ seen' = NoTree
  /\ eco' = NoEco
  /\ ecos' = {}
  /\ left' = {}
  /\ count' = 0
  /\ best' = 0

-----------------------------------------------------------------------------
(* Upstream.                                                               *)

\* A record appears or changes; an OSV list being swept is now behind.
Publish(i) ==
  /\ now < MaxTime
  /\ now' = now + 1
  /\ stamp' = [stamp EXCEPT ![i] = now']
  /\ cut' = (cut \/ job = "csv")
  /\ UNCHANGED <<ghsa, osv, tick, gGot, zGot, gBase, missed, early>>

\* History is rewritten, or the clone is replaced.
LoseTip ==
  /\ gTip # NoTree
  /\ gKept
  /\ gKept' = FALSE
  /\ UNCHANGED <<upstream, gCursor, gDone, gTip, osv, tick, history>>

-----------------------------------------------------------------------------
(* ghsa_ingest_tick.  A tick whose fetch fails changes nothing.            *)

\* The first Cap paths past the cursor (git_backfill_slice).
Slice(t) ==
  LET past == {i \in Published(t) : Place[i] > gCursor}
  IN {i \in past : Cardinality({j \in past : Place[j] < Place[i]}) < Cap}

\* Advisories of a tree are passed unread, at versions not taken before.
Misses(tree, passed) ==
  /\ missed' = missed \cup
       {<<i, tree[i]>> : i \in {j \in passed \ Malformed : gGot[j] < tree[j]}}
  /\ Cardinality(missed') <= MaxMissed

Lost(i) == \E m \in missed : m[1] = i

\* What git archive delivers of a slice.  Its exit status is not looked at: if
\* it dies after some record, tarfile may see an archive that is over.
Archived(slice) ==
  {slice} \cup {{i \in slice : Place[i] <= Place[j]} : j \in slice}

GhsaWalk ==
  /\ job = "none"
  /\ ~gDone
  /\ job' = "walk"
  /\ seen' = stamp
  /\ left' \in Archived(Slice(stamp))
  /\ Misses(stamp, Slice(stamp) \ left')
  /\ UNCHANGED <<upstream, ghsa, osv, eco, ecos, count, best, gGot, zGot, gBase,
                 early, cut>>

\* _changed_paths between the recorded tip and the fetched one.
GhsaDiff ==
  /\ job = "none"
  /\ gDone
  /\ gKept
  /\ job' = "diff"
  /\ seen' = stamp
  /\ left' = {i \in Ids : stamp[i] # gTip[i]}
  /\ UNCHANGED <<upstream, ghsa, osv, eco, ecos, count, best, history>>

\* The diff fails: the tip is reset and the tick is a no-op.
GhsaResetTip ==
  /\ job = "none"
  /\ gDone
  /\ ~gKept
  /\ gTip' = stamp
  /\ gKept' = TRUE
  /\ gBase' = stamp
  /\ UNCHANGED <<upstream, gCursor, gDone, osv, tick, gGot, zGot, missed, early,
                 cut>>

NextName(i) == i \in left /\ \A j \in left : Place[i] <= Place[j]

\* One advisory, in path order.
GhsaTake(i) ==
  /\ job \in {"walk", "diff"}
  /\ NextName(i)
  /\ left' = left \ {i}
  /\ gGot' = Taken(gGot, i, seen[i])
  /\ UNCHANGED <<upstream, ghsa, osv, job, seen, eco, ecos, count, best, zGot,
                 gBase, missed, early, cut>>

\* _read_blob fails, be it only this once: the advisory is passed by like one
\* that does not parse, and the sweep goes on.
GhsaSkip(i) ==
  /\ job = "diff"
  /\ NextName(i)
  /\ i \notin Malformed
  /\ left' = left \ {i}
  /\ Misses(seen, {i})
  /\ UNCHANGED <<upstream, ghsa, osv, job, seen, eco, ecos, count, best, gGot,
                 zGot, gBase, early, cut>>

\* The slice is in: move the cursor; past the last path the walk is over and
\* the diffs start from this tick's tip.
GhsaWalked ==
  /\ job = "walk"
  /\ left = {}
  /\ gCursor' \in {Place[i] : i \in Slice(seen)} \cup {gCursor}
  /\ \A i \in Slice(seen) : Place[i] <= gCursor'
  /\ gDone' = (\A i \in Published(seen) : Place[i] <= gCursor')
  /\ gTip' = IF gDone' THEN seen ELSE gTip
  /\ gBase' = gTip'
  /\ EndTick
  /\ UNCHANGED <<upstream, gKept, osv, gGot, zGot, missed, early, cut>>

\* Mutant: the tip becomes what upstream has by the end of the sweep.
DiffedToLatest ==
  /\ job = "diff"
  /\ left = {}
  /\ gTip' = stamp
  /\ gKept' = TRUE
  /\ EndTick
  /\ UNCHANGED <<upstream, gCursor, gDone, osv, history>>

GhsaDiffed ==
  /\ job = "diff"
  /\ left = {}
  /\ gTip' = seen
  /\ gKept' = TRUE
  /\ EndTick
  /\ UNCHANGED <<upstream, gCursor, gDone, osv, history>>

-----------------------------------------------------------------------------
(* osv_ingest_tick.                                                        *)

InEco(e, t) == {i \in Published(t) : EcoOf[i] = e}

\* The index of a record among the names of its zip, from 0.
IndexIn(i, t) == Cardinality({j \in InEco(EcoOf[i], t) : Place[j] < Place[i]})

NextEco(e) == e \in ecos /\ \A f \in ecos : Listed[e] <= Listed[f]

\* Some ecosystem is not done: the tick resumes at the cursor's, whatever
\* comes before it in ecosystems.txt waits for another tick.
OsvBackfill ==
  /\ job = "none"
  /\ ~(Ecosystems \subseteq zDone)
  /\ job' = "zip"
  /\ ecos' = {e \in Ecosystems \ zDone :
                zEco = NoEco \/ Listed[e] >= Listed[zEco]}
  /\ UNCHANGED <<upstream, ghsa, osv, seen, eco, left, count, best, history>>

\* Mutant: the resumed walk begins one name late.
ZipResumedLate(e) ==
  /\ job = "zip" /\ eco = NoEco /\ count < Cap
  /\ NextEco(e)
  /\ ecos' = ecos \ {e}
  /\ eco' = e
  /\ seen' = stamp
  /\ left' = {i \in InEco(e, stamp) : e = zEco => IndexIn(i, stamp) > zIndex}
  /\ UNCHANGED <<upstream, ghsa, osv, job, count, best, history>>

\* The zip arrives: its names from the cursor's index on, or all of them.
ZipArrives(e) ==
  /\ job = "zip" /\ eco = NoEco /\ count < Cap
  /\ NextEco(e)
  /\ ecos' = ecos \ {e}
  /\ eco' = e
  /\ seen' = stamp
  /\ left' = {i \in InEco(e, stamp) : e = zEco => IndexIn(i, stamp) >= zIndex}
  /\ UNCHANGED <<upstream, ghsa, osv, job, count, best, history>>

\* The download fails or is no zip: the ecosystem waits for another tick, and
\* a cursor into it is dropped.
ZipFails(e) ==
  /\ job = "zip" /\ eco = NoEco /\ count < Cap
  /\ NextEco(e)
  /\ ecos' = ecos \ {e}
  /\ zEco' = IF zEco = e THEN NoEco ELSE zEco
  /\ zIndex' = IF zEco = e THEN 0 ELSE zIndex
  /\ UNCHANGED <<upstream, ghsa, zDone, mCursor, job, seen, eco, left, count,
                 best, history>>

ZipTake(i) ==
  /\ job = "zip" /\ count < Cap
  /\ NextName(i)
  /\ left' = left \ {i}
  /\ count' = count + 1
  /\ zGot' = Taken(zGot, i, seen[i])
  /\ UNCHANGED <<upstream, ghsa, osv, job, seen, eco, ecos, best, gGot, gBase,
                 missed, early, cut>>

\* The cap is reached inside the zip: the cursor keeps the place.
ZipCapped(i) ==
  /\ job = "zip" /\ count = Cap
  /\ NextName(i)
  /\ zEco' = eco
  /\ zIndex' = IndexIn(i, seen)
  /\ EndTick
  /\ UNCHANGED <<upstream, ghsa, zDone, mCursor, history>>

\* Mutant: the cursor into the finished zip is kept.
ZipExhaustedKeepingCursor ==
  /\ job = "zip" /\ eco # NoEco /\ left = {}
  /\ zDone' = zDone \cup {eco}
  /\ eco' = NoEco
  /\ seen' = NoTree
  /\ UNCHANGED <<upstream, ghsa, zEco, zIndex, mCursor, job, ecos, left, count,
                 best, history>>

\* The zip is exhausted: the ecosystem is done, the next one begins anew.
ZipExhausted ==
  /\ job = "zip" /\ eco # NoEco /\ left = {}
  /\ zDone' = zDone \cup {eco}
  /\ zEco' = NoEco
  /\ zIndex' = 0
  /\ eco' = NoEco
  /\ seen' = NoTree
  /\ UNCHANGED <<upstream, ghsa, mCursor, job, ecos, left, count, best, history>>

BackfillEnds ==
  /\ job = "zip" /\ eco = NoEco
  /\ ecos = {} \/ count = Cap
  /\ EndTick
  /\ UNCHANGED <<upstream, ghsa, osv, history>>

\* Every ecosystem is done: look for what was modified past the cursor.
OsvIncremental ==
  /\ job = "none"
  /\ Ecosystems \subseteq zDone
  /\ job' = "csv"
  /\ ecos' = Ecosystems
  /\ best' = mCursor
  /\ UNCHANGED <<upstream, ghsa, osv, seen, eco, left, count, history>>

\* Mutant: a later list is filtered by what an earlier one brought.
CsvPastBest(e) ==
  /\ job = "csv" /\ left = {} /\ count < Cap
  /\ NextEco(e)
  /\ ecos' = ecos \ {e}
  /\ eco' = e
  /\ seen' = stamp
  /\ left' = {i \in InEco(e, stamp) : stamp[i] > best}
  /\ UNCHANGED <<upstream, ghsa, osv, job, count, best, history>>

\* An ecosystem's modified_id.csv: what is past the cursor the tick read.
CsvArrives(e) ==
  /\ job = "csv" /\ left = {} /\ count < Cap
  /\ NextEco(e)
  /\ ecos' = ecos \ {e}
  /\ eco' = e
  /\ seen' = stamp
  /\ left' = {i \in InEco(e, stamp) : stamp[i] > mCursor}
  /\ UNCHANGED <<upstream, ghsa, osv, job, count, best, history>>

CsvFails(e) ==
  /\ job = "csv" /\ left = {} /\ count < Cap
  /\ NextEco(e)
  /\ ecos' = ecos \ {e}
  /\ cut' = TRUE
  /\ UNCHANGED <<upstream, ghsa, osv, job, seen, eco, left, count, best, gGot,
                 zGot, gBase, missed, early>>

\* A listed record is fetched as it is now and upserted, in the list's order,
\* which may be any.
CsvTake(i) ==
  /\ job = "csv" /\ count < Cap
  /\ i \in left \ Malformed
  /\ left' = left \ {i}
  /\ count' = count + 1
  /\ best' = Later(best, seen[i])
  /\ zGot' = Taken(zGot, i, stamp[i])
  /\ UNCHANGED <<upstream, ghsa, osv, job, seen, eco, ecos, gGot, gBase,
                 missed, early, cut>>

\* The record's own fetch fails, or it does not parse.
CsvSkip(i) ==
  /\ job = "csv" /\ count < Cap
  /\ i \in left
  /\ left' = left \ {i}
  /\ count' = count + 1
  /\ cut' = TRUE
  /\ UNCHANGED <<upstream, ghsa, osv, job, seen, eco, ecos, best, gGot, zGot,
                 gBase, missed, early>>

\* The lists are swept, or the cap is reached: the cursor moves to the newest
\* change upserted.
CsvAdvance ==
  /\ job = "csv"
  /\ (ecos = {} /\ left = {}) \/ count = Cap
  /\ mCursor' = best
  /\ cut' = (cut \/ ecos # {} \/ left # {})
  /\ EndTick
  /\ UNCHANGED <<upstream, ghsa, zDone, zEco, zIndex, gGot, zGot, gBase, missed,
                 early>>

\* The job is killed, or a write meets a locked database.
TickDies ==
  /\ job # "none"
  /\ EndTick
  /\ UNCHANGED <<upstream, ghsa, osv, history>>

-----------------------------------------------------------------------------

Init ==
  /\ stamp \in [Ids -> {0, 1}]
  /\ now = 1
  /\ gCursor = 0
  /\ gDone = FALSE
  /\ gTip = NoTree
  /\ gKept = TRUE
  /\ zDone = {}
  /\ zEco = NoEco
  /\ zIndex = 0
  /\ mCursor = 0
  /\ job = "none"
  /\ seen = NoTree
  /\ eco = NoEco
  /\ ecos = {}
  /\ left = {}
  /\ count = 0
  /\ best = 0
  /\ gGot = [i \in Ids |-> 0]
  /\ zGot = [i \in Ids |-> 0]
  /\ gBase = NoTree
  /\ missed = {}
  /\ early = Published(stamp)
  /\ cut = FALSE

Upstream == (\E i \in Ids : Publish(i)) \/ LoseTip

Ghsa ==
  \/ GhsaWalk
  \/ GhsaDiff
  \/ GhsaResetTip
  \/ \E i \in Ids : GhsaTake(i) \/ GhsaSkip(i)
  \/ GhsaWalked
  \/ GhsaDiffed

Osv ==
  \/ OsvBackfill
  \/ \E e \in Ecosystems : ZipArrives(e) \/ ZipFails(e)
  \/ \E i \in Ids : ZipTake(i) \/ ZipCapped(i)
  \/ ZipExhausted
  \/ BackfillEnds
  \/ OsvIncremental
  \/ \E e \in Ecosystems : CsvArrives(e) \/ CsvFails(e)
  \/ \E i \in Ids : CsvTake(i) \/ CsvSkip(i)
  \/ CsvAdvance

Next == Upstream \/ Ghsa \/ Osv \/ TickDies

Spec == Init /\ [][Next]_vars

-----------------------------------------------------------------------------
(* Properties.                                                             *)

\* Types; an index is kept only with its ecosystem, which is not done, and a
\* tick never goes past its cap (ghsa.py:41-51, osv.py:72-84).
TypeOK ==
  /\ now \in 0 .. MaxTime
  /\ stamp \in [Ids -> 0 .. now]
  /\ gCursor \in Nat
  /\ gDone \in BOOLEAN
  /\ gTip \in Trees \cup {NoTree}
  /\ gKept \in BOOLEAN
  /\ zDone \subseteq Ecosystems
  /\ zEco \in (Ecosystems \ zDone) \cup {NoEco}
  /\ zIndex \in Nat
  /\ zEco = NoEco => zIndex = 0
  /\ mCursor \in 0 .. now
  /\ job \in {"none", "walk", "diff", "zip", "csv"}
  /\ seen \in Trees \cup {NoTree}
  /\ eco \in Ecosystems \cup {NoEco}
  /\ ecos \subseteq Ecosystems
  /\ left \subseteq Ids
  /\ count \in 0 .. Cap
  /\ best \in 0 .. now
  /\ gGot \in [Ids -> 0 .. now]
  /\ zGot \in [Ids -> 0 .. now]
  /\ gBase \in Trees \cup {NoTree}
  /\ missed \subseteq Ids \X (0 .. now)
  /\ early \subseteq Ids
  /\ cut \in BOOLEAN

\* The advisories implement Watermark: they are taken one by one; whatever
\* died, the recorded tip moves only over what has been upserted at its version
\* or a later one, or of which that very version did not parse or could not be
\* read; and only the end of the walk and a lost tip start the promise anew
\* (ghsa.py:166-168, 219-241).
Following == INSTANCE Watermark WITH Ids <- Ids,
  unread <- (Malformed \X (0 .. MaxTime)) \cup missed,
  NoMark <- NoTree, base <- gBase, mark <- gTip, got <- gGot

TipKeepsWatermark == Following!Spec

\* A walk resumed any number of times, over a tree or a zip that grew in the
\* meantime, passes over no record that was there before it began, but for an
\* advisory some archive was cut short before (ghsa.py:170-176,
\* git_ingest.py:92-117, osv.py:109-114, 180-184).
WalksAreWhole ==
  \A i \in early \ Malformed :
    /\ gDone => gGot[i] > 0 \/ Lost(i)
    /\ EcoOf[i] \in zDone => zGot[i] > 0

\* As long as no list was capped, failed, skipped or overtaken, every record
\* changed up to the cursor's time is in the catalog as of that change, over
\* all the ecosystems that share the one cursor (osv.py:116-118).
CursorCoversQuietTicks ==
  ~cut
    => \A i \in Ids \ Malformed :
         stamp[i] <= mCursor => zGot[i] >= stamp[i]

(* What the documentation says and the code does not do.                   *)

\* ghsa.py:200-201: the backfill owns history, the diff owns what changes
\* after: between them the catalog has every advisory as of the tip.
GhsaUpToTip ==
  gDone => \A i \in Ids \ Malformed : gGot[i] >= gTip[i]

\* osv.py:116-118: what is past the cursor is fetched, so what is not past it
\* is in the catalog.
ModifiedCursorCovers ==
  \A i \in Ids \ Malformed :
    0 < stamp[i] /\ stamp[i] <= mCursor => zGot[i] >= stamp[i]
=============================================================================
