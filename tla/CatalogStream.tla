--------------------------- MODULE CatalogStream ----------------------------
(***************************************************************************)
(* The two git-fed producers of the defect catalog: the forward stream     *)
(* (stream_tick) and the one-shot back-fill (backfill_tick) of             *)
(* posture/stream.py, the latter over posture/git_ingest.py.               *)
(*                                                                         *)
(* Upstream is a git repository of CVE records; a commit is the tree of    *)
(* revisions it holds.  The stream follows upstream from the commit it     *)
(* bootstrapped at, by diffs past a cursor; the back-fill walks the paths  *)
(* of the tree once, slice by slice, past a path cursor.  Every CVE is     *)
(* upserted in a transaction of its own and the cursors are committed      *)
(* last, so either tick may die between any two steps.                     *)
(***************************************************************************)
EXTENDS Naturals, FiniteSets

CONSTANTS
  Cves,
  Place,       \* [Cves -> Nat], the place of its path in path order, from 1
  MaxRevision, \* [Cves -> Nat], bound: how often each is published upstream
  Malformed,   \* the records, <<cve, revision>>, that do not parse
  Cap,         \* records per back-fill tick
  CutShort,    \* git archive may die at a record boundary
  NoTree, NoRow

ASSUME StreamAssumption ==
  /\ IsFiniteSet(Cves)
  /\ Place \in [Cves -> Nat \ {0}]
  /\ \A c, d \in Cves : Place[c] = Place[d] => c = d
  /\ MaxRevision \in [Cves -> Nat]
  /\ Malformed \subseteq Cves \X Nat
  /\ Cap \in Nat \ {0}
  /\ CutShort \in BOOLEAN
  /\ NoTree \notin [Cves -> Nat]

VARIABLES
  tree,      \* upstream's tip: the revision of each CVE, 0 if it has none
  cursor,    \* stream:mitre_cursor, the commit streamed so far, or NoTree
  kept,      \* the cursor's commit can still be diffed against
  defects,   \* the catalog: [Cves -> Row]
  bfCursor,  \* stream:backfill_cursor, the place of the last path walked
  bfDone,    \* stream:backfill_done
  sTip,      \* stream tick: the tip it fetched, or NoTree
  sSweeping, \* stream tick: it has its diff and is upserting
  sLeft,     \* stream tick: changed CVEs not yet upserted
  bTip,      \* back-fill tick: the tip it fetched, or NoTree
  bSlice,    \* back-fill tick: the CVEs of its slice
  bLeft,     \* back-fill tick: parsed records not yet upserted
  base,      \* history: the commit the stream (re)started from, or NoTree
  got,       \* history: the newest revision ever upserted, 0 if none
  orderly    \* history: the stream was bootstrapped before the back-fill
             \*          began, and never restarted

streamTick == <<sTip, sSweeping, sLeft>>
backfillTick == <<bTip, bSlice, bLeft>>
state == <<cursor, bfCursor, bfDone>>
history == <<base, got, orderly>>
streamVars == <<tree, kept, defects, state, streamTick, backfillTick, history>>

Trees == [Cves -> Nat]
Readable(t, c) == t[c] > 0 /\ <<c, t[c]>> \notin Malformed

(* A row's stratum says which map it was last written from; a skeleton     *)
(* (mitre) is pending enrichment.  retired: it was discovered more than    *)
(* PENDING_TTL_DAYS ago.  source and enrich_state are set together in one  *)
(* transaction by every writer modelled here, so one field stands for both.*)
Row == [stratum : {"mitre", "nvd"}, retired : BOOLEAN]

\* upsert_defect with set_enrich_state: the row is overwritten, whatever it
\* held, except its discovery date.
Upserted(row, stratum) ==
  [stratum |-> stratum,
   retired |-> IF row = NoRow THEN FALSE ELSE row.retired]

\* Upsert the skeleton of revision r of c, mark it seen and commit.
TakeSkeleton(c, r) ==
  /\ defects' = [defects EXCEPT ![c] = Upserted(@, "mitre")]
  /\ got' = [got EXCEPT ![c] = IF @ < r THEN r ELSE @]

-----------------------------------------------------------------------------
(* Upstream.                                                               *)

Publish(c) ==
  /\ tree[c] < MaxRevision[c]
  /\ tree' = [tree EXCEPT ![c] = @ + 1]
  /\ UNCHANGED <<kept, defects, state, streamTick, backfillTick, history>>

\* History is rewritten, or the clone is replaced: git diff will fail.
LoseCursorCommit ==
  /\ cursor # NoTree
  /\ kept
  /\ kept' = FALSE
  /\ UNCHANGED <<tree, defects, state, streamTick, backfillTick, history>>

-----------------------------------------------------------------------------
(* stream_tick.  A tick whose fetch fails changes nothing.                 *)

StreamIdle == sTip = NoTree

EndStreamTick ==
  /\ sTip' = NoTree
  /\ sSweeping' = FALSE
  /\ sLeft' = {}

StreamFetch ==
  /\ StreamIdle
  /\ sTip' = tree
  /\ UNCHANGED <<tree, kept, defects, state, sSweeping, sLeft, backfillTick,
                 history>>

\* _set_cursor(new), followed by the commit of _cmd_stream.
SetCursor ==
  /\ cursor' = sTip
  /\ kept' = TRUE
  /\ EndStreamTick
  /\ UNCHANGED <<tree, defects, bfCursor, bfDone, backfillTick>>

\* First run: only the tip is recorded.
StreamBootstrap ==
  /\ ~StreamIdle
  /\ cursor = NoTree
  /\ SetCursor
  /\ base' = sTip
  /\ UNCHANGED <<got, orderly>>

\* The diff fails: the cursor is reset and the tick is a no-op.
StreamReset ==
  /\ ~StreamIdle
  /\ ~sSweeping
  /\ cursor # NoTree
  /\ ~kept
  /\ SetCursor
  /\ base' = sTip
  /\ orderly' = FALSE
  /\ UNCHANGED got

\* _changed_cve_paths: what the tip added or modified.
StreamDiff ==
  /\ ~StreamIdle
  /\ ~sSweeping
  /\ cursor # NoTree
  /\ kept
  /\ sSweeping' = TRUE
  /\ sLeft' = {c \in Cves : sTip[c] > 0 /\ sTip[c] # cursor[c]}
  /\ UNCHANGED <<tree, kept, defects, state, sTip, backfillTick, history>>

\* Mutant: a record that does not parse ends the sweep.
TakeAborting(c) ==
  /\ c \in sLeft
  /\ IF Readable(sTip, c)
     THEN TakeSkeleton(c, sTip[c]) /\ sLeft' = sLeft \ {c}
     ELSE UNCHANGED <<defects, got>> /\ sLeft' = {}
  /\ UNCHANGED <<tree, kept, state, sTip, sSweeping, backfillTick, base,
                 orderly>>

\* One path of the sweep: an unreadable or malformed record is skipped.
StreamTake(c) ==
  /\ c \in sLeft
  /\ sLeft' = sLeft \ {c}
  /\ IF Readable(sTip, c) THEN TakeSkeleton(c, sTip[c])
                          ELSE UNCHANGED <<defects, got>>
  /\ UNCHANGED <<tree, kept, state, sTip, sSweeping, backfillTick, base,
                 orderly>>

\* The sweep is over: advance the cursor.
StreamAdvance ==
  /\ sSweeping
  /\ sLeft = {}
  /\ SetCursor
  /\ UNCHANGED history

\* The prefetch fails, a write meets a locked database, or the process dies.
StreamDies ==
  /\ ~StreamIdle
  /\ EndStreamTick
  /\ UNCHANGED <<tree, kept, defects, state, backfillTick, history>>

-----------------------------------------------------------------------------
(* backfill_tick.                                                          *)

BackfillIdle == bTip = NoTree

\* The paths of a tree past a place, and the first Cap of them.
PathsPast(t, n) == {c \in Cves : t[c] > 0 /\ Place[c] > n}

FirstPaths(paths) ==
  {c \in paths : Cardinality({d \in paths : Place[d] < Place[c]}) < Cap}

\* What git archive delivers of a slice.  Its exit status is not looked at: if
\* it dies after some record, tarfile may see an archive that is over.
Archived(slice) ==
  {slice} \cup
    {{c \in slice : Place[c] <= Place[d]} : d \in IF CutShort THEN slice ELSE {}}

EndBackfillTick ==
  /\ bTip' = NoTree
  /\ bSlice' = {}
  /\ bLeft' = {}

\* Fetch, list the paths and parse the records of the next slice.
BackfillSlice ==
  /\ BackfillIdle
  /\ ~bfDone
  /\ bTip' = tree
  /\ bSlice' = FirstPaths(PathsPast(tree, bfCursor))
  /\ \E whole \in Archived(bSlice') :
       bLeft' = {c \in whole : Readable(tree, c)}
  /\ orderly' = (orderly /\ cursor # NoTree)
  /\ UNCHANGED <<tree, kept, defects, state, streamTick, base, got>>

BackfillTake(c) ==
  /\ c \in bLeft
  /\ bLeft' = bLeft \ {c}
  /\ TakeSkeleton(c, bTip[c])
  /\ UNCHANGED <<tree, kept, state, streamTick, bTip, bSlice, base, orderly>>

\* Mutant: a slice that fills its cap counts as the last one.
AdvanceDoneAtCap ==
  /\ ~BackfillIdle
  /\ bLeft = {}
  /\ bfCursor' \in {Place[c] : c \in bSlice} \cup {bfCursor}
  /\ \A c \in bSlice : Place[c] <= bfCursor'
  /\ bfDone' = (Cardinality(bSlice) <= Cap)
  /\ EndBackfillTick
  /\ UNCHANGED <<tree, kept, defects, cursor, streamTick, history>>

\* The cursor moves to the last path of the slice; the walk is over once no
\* path of the tip lies beyond it.
BackfillAdvance ==
  /\ ~BackfillIdle
  /\ bLeft = {}
  /\ bfCursor' \in {Place[c] : c \in bSlice} \cup {bfCursor}
  /\ \A c \in bSlice : Place[c] <= bfCursor'
  /\ bfDone' = (PathsPast(bTip, bfCursor) \subseteq bSlice)
  /\ EndBackfillTick
  /\ UNCHANGED <<tree, kept, defects, cursor, streamTick, history>>

BackfillDies ==
  /\ ~BackfillIdle
  /\ EndBackfillTick
  /\ UNCHANGED <<tree, kept, defects, state, streamTick, history>>

-----------------------------------------------------------------------------

StreamInit ==
  /\ tree \in [Cves -> {0, 1}]
  /\ kept = TRUE
  /\ cursor = NoTree
  /\ defects = [c \in Cves |-> NoRow]
  /\ bfCursor = 0
  /\ bfDone = FALSE
  /\ sTip = NoTree
  /\ sSweeping = FALSE
  /\ sLeft = {}
  /\ bTip = NoTree
  /\ bSlice = {}
  /\ bLeft = {}
  /\ base = NoTree
  /\ got = [c \in Cves |-> 0]
  /\ orderly = TRUE

Upstream == (\E c \in Cves : Publish(c)) \/ LoseCursorCommit

Stream ==
  \/ StreamFetch
  \/ StreamBootstrap
  \/ StreamReset
  \/ StreamDiff
  \/ \E c \in Cves : StreamTake(c)
  \/ StreamAdvance
  \/ StreamDies

Backfill ==
  \/ BackfillSlice
  \/ \E c \in Cves : BackfillTake(c)
  \/ BackfillAdvance
  \/ BackfillDies

StreamNext == Upstream \/ Stream \/ Backfill

StreamSpec == StreamInit /\ [][StreamNext]_streamVars

-----------------------------------------------------------------------------
(* Properties.                                                             *)

\* Types of the catalog, of the state keys and of the running ticks
\* (stream.py:46-60, store.py:1844-1854).
StreamTypeOK ==
  /\ tree \in Trees
  /\ kept \in BOOLEAN
  /\ cursor \in Trees \cup {NoTree}
  /\ defects \in [Cves -> Row \cup {NoRow}]
  /\ bfCursor \in Nat
  /\ bfDone \in BOOLEAN
  /\ sTip \in Trees \cup {NoTree}
  /\ sSweeping \in BOOLEAN
  /\ sLeft \subseteq Cves
  /\ bTip \in Trees \cup {NoTree}
  /\ bSlice \subseteq Cves
  /\ bLeft \subseteq bSlice
  /\ base \in Trees \cup {NoTree}
  /\ got \in [Cves -> Nat]
  /\ orderly \in BOOLEAN

\* The stream's cursor never runs ahead of the catalog: a record the cursor's
\* commit holds, and which has changed since the stream (re)started, has been
\* upserted at that revision or a later one, however often ticks died
\* (stream.py:187-190, "the cursor advances only after the parse sweep
\* succeeds").
CursorCovers ==
  cursor # NoTree
    => \A c \in Cves :
         Readable(cursor, c) => cursor[c] = base[c] \/ got[c] >= cursor[c]

\* The same as a promise of every step: the stream implements Watermark, so
\* it takes records one by one, moves the cursor only over what it has taken
\* and starts over only with the cursor at its new base.
Following == INSTANCE Watermark WITH Ids <- Cves, unread <- Malformed,
  NoMark <- NoTree, base <- base, mark <- cursor, got <- got

KeepsWatermark == Following!Spec

NeverMalformed(c) == \A m \in Malformed : m[1] # c

\* The stream and the back-fill leave no gap between them: once the walk is
\* over, every record the stream's cursor knows has been upserted by one of
\* the two, provided the stream was bootstrapped first and never restarted,
\* and the archives were whole (stream.py:302-324).
NothingMissed ==
  cursor # NoTree /\ bfDone /\ orderly
    => \A c \in Cves : cursor[c] > 0 /\ NeverMalformed(c) => got[c] > 0

(* What the documentation says and the code does not do.                   *)

\* git_ingest.py:56-57: only a malformed record is dropped from a slice.
SkipsOnlyMalformed ==
  [][bfCursor' # bfCursor
       => \A c \in bSlice : Readable(bTip, c) => got[c] > 0]_streamVars
=============================================================================
