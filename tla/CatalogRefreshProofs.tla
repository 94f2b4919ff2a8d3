------------------------- MODULE CatalogRefreshProofs -----------------------
(***************************************************************************)
(* Proofs about CatalogStream and CatalogRefresh, for every set of CVEs,   *)
(* every order of paths, every slice cap, refresh cap and breaker, and any *)
(* number of revisions.  The stream and the back-fill come first, by       *)
(* themselves (StreamSpec); the last section carries what holds of them    *)
(* over to the catalog under all its writers (Spec), which touch none of   *)
(* the producers' state but the rows.                                      *)
(***************************************************************************)
EXTENDS CatalogRefresh, FiniteSetTheorems, TLAPS

-----------------------------------------------------------------------------
(* Type correctness.                                                        *)

LEMMA TakeType ==
  ASSUME StreamTypeOK, NEW c \in Cves, NEW r \in Nat, TakeSkeleton(c, r)
  PROVE  /\ defects' \in [Cves -> Row \cup {NoRow}]
         /\ got' \in [Cves -> Nat]
         /\ got'[c] >= r
         /\ \A d \in Cves : got'[d] >= got[d]
<1>1. Upserted(defects[c], "mitre") \in Row
  BY DEF StreamTypeOK, Upserted, Row
<1>2. defects' \in [Cves -> Row \cup {NoRow}]
  BY <1>1 DEF TakeSkeleton, StreamTypeOK
<1>3. got' \in [Cves -> Nat] /\ got'[c] >= r /\ \A d \in Cves : got'[d] >= got[d]
  BY DEF TakeSkeleton, StreamTypeOK
<1> QED
  BY <1>2, <1>3

\* A slice holds paths of the tree past the cursor, and with a path all those
\* between the cursor and it.
LEMMA SliceIsPrefix ==
  ASSUME NEW t \in Trees, NEW n \in Nat
  PROVE  LET slice == FirstPaths(PathsPast(t, n))
         IN  /\ slice \subseteq PathsPast(t, n)
             /\ \A c \in slice, d \in PathsPast(t, n) :
                  Place[d] < Place[c] => d \in slice
<1> DEFINE paths == PathsPast(t, n)
           before(c) == {e \in paths : Place[e] < Place[c]}
<1>1. \A c \in Cves : Place[c] \in Nat
  BY StreamAssumption
<1>2. ASSUME NEW c \in FirstPaths(paths), NEW d \in paths, Place[d] < Place[c]
      PROVE  d \in FirstPaths(paths)
  <2>1. c \in Cves /\ d \in Cves
    BY <1>2 DEF FirstPaths, PathsPast
  <2>2. before(d) \subseteq before(c)
    BY <1>1, <1>2, <2>1 DEF PathsPast
  <2>3. IsFiniteSet(before(c))
    BY FS_Subset, StreamAssumption DEF PathsPast
  <2>4. /\ IsFiniteSet(before(d))
        /\ Cardinality(before(d)) <= Cardinality(before(c))
    BY <2>2, <2>3, FS_Subset
  <2>5. Cardinality(before(c)) \in Nat /\ Cardinality(before(d)) \in Nat
    BY <2>3, <2>4, FS_CardinalityType
  <2>6. Cardinality(before(c)) < Cap
    BY <1>2 DEF FirstPaths
  <2>7. Cardinality(before(d)) < Cap
    BY <2>4, <2>5, <2>6, StreamAssumption
  <2> QED
    BY <1>2, <2>7 DEF FirstPaths
<1>3. FirstPaths(paths) \subseteq paths
  BY DEF FirstPaths
<1> QED
  BY <1>2, <1>3

\* What a tick has in hand when it upserts: without it the types are not
\* inductive.
Phases ==
  /\ sSweeping => sTip \in Trees /\ cursor # NoTree
  /\ sLeft # {} => sSweeping
  /\ bLeft # {} => bTip \in Trees

TypeInv == StreamTypeOK /\ Phases

LEMMA StreamInitType == StreamInit => TypeInv
<1> SUFFICES ASSUME StreamInit PROVE TypeInv
  OBVIOUS
<1>1. tree \in Trees
  BY DEF StreamInit, Trees
<1>2. defects \in [Cves -> Row \cup {NoRow}] /\ got \in [Cves -> Nat]
  BY DEF StreamInit
<1> QED
  BY <1>1, <1>2 DEF StreamInit, TypeInv, StreamTypeOK, Phases

LEMMA UpstreamType == TypeInv /\ Upstream => TypeInv'
<1> SUFFICES ASSUME TypeInv, Upstream PROVE TypeInv'
  OBVIOUS
<1> USE DEF TypeInv, StreamTypeOK, Phases, state, streamTick, backfillTick, history
<1>1. ASSUME NEW c \in Cves, Publish(c) PROVE TypeInv'
  <2>1. tree' \in Trees
    BY <1>1 DEF Publish, Trees
  <2> QED
    BY <1>1, <2>1 DEF Publish
<1>2. CASE LoseCursorCommit
  BY <1>2 DEF LoseCursorCommit
<1> QED
  BY <1>1, <1>2 DEF Upstream

LEMMA StreamType == TypeInv /\ Stream => TypeInv'
<1> SUFFICES ASSUME TypeInv, Stream PROVE TypeInv'
  OBVIOUS
<1> USE DEF TypeInv, StreamTypeOK, Phases, state, streamTick, backfillTick,
            history, StreamIdle
<1>1. CASE StreamFetch
  BY <1>1 DEF StreamFetch
<1>2. CASE StreamBootstrap \/ StreamReset \/ StreamAdvance
  BY <1>2 DEF StreamBootstrap, StreamReset, StreamAdvance, SetCursor,
              EndStreamTick
<1>3. CASE StreamDiff
  BY <1>3 DEF StreamDiff
<1>4. ASSUME NEW c \in Cves, StreamTake(c) PROVE TypeInv'
  <2>1. CASE Readable(sTip, c)
    <3>1. TakeSkeleton(c, sTip[c])
      BY <1>4, <2>1 DEF StreamTake
    <3>2. sTip[c] \in Nat
      BY <1>4 DEF StreamTake, Trees
    <3>3. /\ defects' \in [Cves -> Row \cup {NoRow}]
          /\ got' \in [Cves -> Nat]
      BY <3>1, <3>2, TakeType
    <3> QED
      BY <1>4, <3>3 DEF StreamTake
  <2>2. CASE ~Readable(sTip, c)
    BY <1>4, <2>2 DEF StreamTake
  <2> QED
    BY <2>1, <2>2
<1>5. CASE StreamDies
  BY <1>5 DEF StreamDies, EndStreamTick
<1> QED
  BY <1>1, <1>2, <1>3, <1>4, <1>5 DEF Stream

LEMMA BackfillType == TypeInv /\ Backfill => TypeInv'
<1> SUFFICES ASSUME TypeInv, Backfill PROVE TypeInv'
  OBVIOUS
<1> USE DEF TypeInv, StreamTypeOK, Phases, state, streamTick, history
<1>1. CASE BackfillSlice
  <2>1. bSlice' \subseteq Cves
    BY <1>1 DEF BackfillSlice, FirstPaths, PathsPast
  <2>2. \A whole \in Archived(bSlice') : whole \subseteq bSlice'
    BY DEF Archived
  <2>3. bLeft' \subseteq bSlice'
    BY <1>1, <2>2 DEF BackfillSlice
  <2>4. orderly' \in BOOLEAN
    BY <1>1 DEF BackfillSlice
  <2> QED
    BY <1>1, <2>1, <2>3, <2>4 DEF BackfillSlice
<1>2. ASSUME NEW c \in Cves, BackfillTake(c) PROVE TypeInv'
  <2>1. TakeSkeleton(c, bTip[c])
    BY <1>2 DEF BackfillTake
  <2>2. bTip[c] \in Nat
    BY <1>2 DEF BackfillTake, Trees
  <2>3. /\ defects' \in [Cves -> Row \cup {NoRow}]
        /\ got' \in [Cves -> Nat]
    BY <2>1, <2>2, TakeType
  <2> QED
    BY <1>2, <2>3 DEF BackfillTake
<1>3. CASE BackfillAdvance
  <2>1. bfCursor' \in Nat
    BY <1>3, StreamAssumption DEF BackfillAdvance
  <2> QED
    BY <1>3, <2>1 DEF BackfillAdvance, EndBackfillTick
<1>4. CASE BackfillDies
  BY <1>4 DEF BackfillDies, EndBackfillTick
<1> QED
  BY <1>1, <1>2, <1>3, <1>4 DEF Backfill

LEMMA StutterType == TypeInv /\ UNCHANGED streamVars => TypeInv'
BY DEF TypeInv, StreamTypeOK, Phases, streamVars, state, streamTick,
       backfillTick, history

LEMMA StepType == TypeInv /\ [StreamNext]_streamVars => TypeInv'
BY UpstreamType, StreamType, BackfillType, StutterType DEF StreamNext

LEMMA TypeInvHolds == StreamSpec => []TypeInv
BY StreamInitType, StepType, PTL DEF StreamSpec

\* Catalog, state keys and running ticks are well typed in every state.
THEOREM StreamTypeCorrect == StreamSpec => []StreamTypeOK
BY TypeInvHolds, PTL DEF TypeInv

-----------------------------------------------------------------------------
(* The stream's cursor.  CursorCovers is not inductive: the cursor jumps to *)
(* the tip when a sweep ends, so the invariant adds what a sweep has got    *)
(* done, that every changed record no longer in sLeft has been upserted.    *)

SweepCovers ==
  sSweeping
    => \A c \in Cves \ sLeft :
         Readable(sTip, c) => sTip[c] = cursor[c] \/ got[c] >= sTip[c]

CoverInv == CursorCovers /\ SweepCovers

\* An upsert never takes back what was got.
LEMMA GotGrows ==
  ASSUME TypeInv, [StreamNext]_streamVars
  PROVE  \A c \in Cves : got'[c] \in Nat /\ got'[c] >= got[c]
<1> USE DEF TypeInv, StreamTypeOK, Phases
<1>1. CASE got' = got
  BY <1>1
<1>2. ASSUME NEW c \in Cves, NEW r \in Nat, TakeSkeleton(c, r)
      PROVE  \A d \in Cves : got'[d] \in Nat /\ got'[d] >= got[d]
  BY <1>2, TakeType
<1>3. ASSUME NEW c \in Cves, StreamTake(c)
      PROVE  \A d \in Cves : got'[d] \in Nat /\ got'[d] >= got[d]
  <2>1. sTip[c] \in Nat
    BY <1>3 DEF StreamTake, Trees
  <2> QED
    BY <1>1, <1>2, <1>3, <2>1 DEF StreamTake
<1>4. ASSUME NEW c \in Cves, BackfillTake(c)
      PROVE  \A d \in Cves : got'[d] \in Nat /\ got'[d] >= got[d]
  <2>1. bTip[c] \in Nat
    BY <1>4 DEF BackfillTake, Trees
  <2> QED
    BY <1>2, <1>4, <2>1 DEF BackfillTake
<1> QED
  BY <1>1, <1>3, <1>4
     DEF StreamNext, Upstream, Stream, Backfill, Publish, LoseCursorCommit,
         StreamFetch, StreamBootstrap, StreamReset, StreamDiff, StreamAdvance,
         StreamDies, BackfillSlice, BackfillAdvance, BackfillDies, streamVars,
         history

LEMMA StepCovers ==
  ASSUME TypeInv, CoverInv, [StreamNext]_streamVars
  PROVE  CoverInv'
<1> USE DEF TypeInv, StreamTypeOK, Phases
<1>1. \A c \in Cves : got'[c] \in Nat /\ got[c] \in Nat /\ got'[c] >= got[c]
  BY GotGrows
<1>2. CASE UNCHANGED <<cursor, base, sTip, sSweeping, sLeft>>
  <2>1. CursorCovers'
    <3> SUFFICES ASSUME cursor # NoTree, NEW c \in Cves, Readable(cursor, c)
                 PROVE  cursor[c] = base[c] \/ got'[c] >= cursor[c]
      BY <1>2 DEF CursorCovers, Readable
    <3>1. cursor[c] \in Nat
      BY DEF Trees
    <3> QED
      BY <1>1, <3>1 DEF CoverInv, CursorCovers
  <2>2. SweepCovers'
    <3> SUFFICES ASSUME sSweeping, NEW c \in Cves \ sLeft, Readable(sTip, c)
                 PROVE  sTip[c] = cursor[c] \/ got'[c] >= sTip[c]
      BY <1>2 DEF SweepCovers, Readable
    <3>1. sTip[c] \in Nat
      BY DEF Trees
    <3> QED
      BY <1>1, <3>1 DEF CoverInv, SweepCovers
  <2> QED
    BY <2>1, <2>2 DEF CoverInv
<1>3. CASE StreamFetch
  <2>1. ~sSweeping /\ ~sSweeping'
    BY <1>3, StreamAssumption DEF StreamFetch, StreamIdle, Trees
  <2> QED
    BY <1>3, <2>1 DEF StreamFetch, CoverInv, CursorCovers, SweepCovers,
                      Readable, state, history
<1>4. CASE StreamBootstrap \/ StreamReset
  BY <1>4 DEF StreamBootstrap, StreamReset, SetCursor, EndStreamTick,
              CoverInv, CursorCovers, SweepCovers
<1>5. CASE StreamDiff
  <2>1. SweepCovers'
    BY <1>5 DEF StreamDiff, StreamIdle, SweepCovers, Readable, state
  <2> QED
    BY <1>5, <2>1 DEF StreamDiff, CoverInv, CursorCovers, state, history
<1>6. ASSUME NEW c \in Cves, StreamTake(c) PROVE CoverInv'
  <2>1. CursorCovers'
    BY <1>1, <1>6 DEF StreamTake, CoverInv, CursorCovers, Readable, Trees, state
  <2>2. Readable(sTip, c) => got'[c] >= sTip[c]
    BY <1>6, TakeType DEF StreamTake, Trees
  <2>3. SweepCovers'
    BY <1>1, <1>6, <2>2
       DEF StreamTake, CoverInv, SweepCovers, Readable, Trees, state
  <2> QED
    BY <2>1, <2>3 DEF CoverInv
<1>7. CASE StreamAdvance
  <2>1. CursorCovers'
    BY <1>7 DEF StreamAdvance, SetCursor, EndStreamTick, CoverInv,
                CursorCovers, SweepCovers, Readable, history
  <2>2. SweepCovers'
    BY <1>7 DEF StreamAdvance, SetCursor, EndStreamTick, SweepCovers
  <2> QED
    BY <2>1, <2>2 DEF CoverInv
<1>8. CASE StreamDies
  BY <1>8 DEF StreamDies, EndStreamTick, CoverInv, CursorCovers, SweepCovers,
              state, history
<1>9. CASE Upstream \/ Backfill \/ UNCHANGED streamVars
  BY <1>2, <1>9
     DEF Upstream, Publish, LoseCursorCommit, Backfill, BackfillSlice,
         BackfillTake, BackfillAdvance, BackfillDies, state, streamTick,
         history, streamVars
<1> QED
  BY <1>3, <1>4, <1>5, <1>6, <1>7, <1>8, <1>9 DEF StreamNext, Stream

\* The cursor never runs ahead of the catalog.
THEOREM CursorNeverAhead == StreamSpec => []CursorCovers
<1>1. StreamInit => CoverInv
  BY DEF StreamInit, CoverInv, CursorCovers, SweepCovers
<1>2. StreamSpec => []CoverInv
  BY <1>1, StepCovers, TypeInvHolds, PTL DEF StreamSpec
<1> QED
  BY <1>2, PTL DEF CoverInv

\* A record that is upserted is a Take of Watermark, or nothing new.
LEMMA TakeMaps ==
  ASSUME TypeInv, NEW c \in Cves, NEW r \in Nat, TakeSkeleton(c, r),
         UNCHANGED <<base, cursor>>
  PROVE  [Following!Next]_(Following!watermark)
<1> USE DEF TypeInv, StreamTypeOK
<1>1. got' = [got EXCEPT ![c] = IF got[c] < r THEN r ELSE got[c]]
  BY DEF TakeSkeleton
<1>2. CASE got[c] < r
  <2>1. Following!Take(c)
    BY <1>1, <1>2 DEF Following!Take
  <2> QED
    BY <2>1 DEF Following!Next
<1>3. CASE ~(got[c] < r)
  <2>1. got' = got
    BY <1>1, <1>3
  <2> QED
    BY <2>1 DEF Following!watermark
<1> QED
  BY <1>2, <1>3

LEMMA StepMaps ==
  ASSUME TypeInv, CoverInv', [StreamNext]_streamVars
  PROVE  [Following!Next]_(Following!watermark)
<1> USE DEF TypeInv, StreamTypeOK, Phases
<1>1. CASE UNCHANGED <<base, cursor, got>>
  BY <1>1 DEF Following!watermark
<1>2. CASE StreamBootstrap \/ StreamReset
  <2>1. cursor' # NoTree /\ base' = cursor' /\ got' = got
    BY <1>2 DEF StreamBootstrap, StreamReset, SetCursor, StreamIdle
  <2> QED
    BY <2>1 DEF Following!Restart, Following!Next
<1>3. CASE StreamAdvance
  <2>1. cursor # NoTree /\ cursor' # NoTree /\ cursor' \in Trees
           /\ UNCHANGED <<base, got>>
    BY <1>3, StreamAssumption DEF StreamAdvance, SetCursor, Trees, history
  <2>2. Following!Covered(cursor')
    <3> SUFFICES ASSUME NEW c \in Cves,
                        <<c, cursor'[c]>> \notin Malformed,
                        cursor'[c] # base[c]
                 PROVE  cursor'[c] <= got[c]
      BY DEF Following!Covered
    <3>1. cursor'[c] \in Nat /\ got[c] \in Nat
      BY <2>1 DEF Trees
    <3>2. CASE cursor'[c] > 0
      BY <2>1, <3>1, <3>2 DEF CoverInv, CursorCovers, Readable
    <3>3. CASE ~(cursor'[c] > 0)
      BY <3>1, <3>3
    <3> QED
      BY <3>2, <3>3
  <2> QED
    BY <2>1, <2>2 DEF Following!Advance, Following!Next
<1>4. ASSUME NEW c \in Cves, StreamTake(c)
      PROVE  [Following!Next]_(Following!watermark)
  <2>1. sTip[c] \in Nat /\ UNCHANGED <<base, cursor>>
    BY <1>4 DEF StreamTake, Trees, state
  <2> QED
    BY <1>1, <1>4, <2>1, TakeMaps DEF StreamTake
<1>5. ASSUME NEW c \in Cves, BackfillTake(c)
      PROVE  [Following!Next]_(Following!watermark)
  <2>1. bTip[c] \in Nat /\ UNCHANGED <<base, cursor>>
    BY <1>5 DEF BackfillTake, Trees, state
  <2> QED
    BY <1>5, <2>1, TakeMaps DEF BackfillTake
<1> QED
  BY <1>1, <1>2, <1>3, <1>4, <1>5
     DEF StreamNext, Upstream, Stream, Backfill, Publish, LoseCursorCommit,
         StreamFetch, StreamDiff, StreamDies, BackfillSlice, BackfillAdvance,
         BackfillDies, streamVars, state, history

\* The stream, with a back-fill beside it and ticks that die anywhere, follows
\* upstream as Watermark has it.
THEOREM ImplementsWatermark == StreamSpec => KeepsWatermark
<1>1. StreamInit => Following!Init /\ CoverInv
  BY DEF StreamInit, Following!Init, CoverInv, CursorCovers, SweepCovers
<1>2. TypeInv /\ CoverInv /\ [StreamNext]_streamVars => CoverInv'
  BY StepCovers
<1>3. TypeInv /\ CoverInv' /\ [StreamNext]_streamVars
        => [Following!Next]_(Following!watermark)
  BY StepMaps
<1> QED
  BY <1>1, <1>2, <1>3, TypeInvHolds, PTL
     DEF StreamSpec, KeepsWatermark, Following!Spec

-----------------------------------------------------------------------------
(* The stream and the back-fill together.  What no single producer knows:   *)
(* a back-fill that began after the stream's bootstrap reads tips no older  *)
(* than base, so each record base holds and the walk has passed was in the  *)
(* slice that passed it.                                                    *)

Behind(s, t) == s # NoTree => \A c \in Cves : s[c] <= t[c]

TipsBehind ==
  /\ Behind(sTip, tree)
  /\ Behind(bTip, tree)
  /\ Behind(base, tree)
  /\ cursor = NoTree <=> base = NoTree

SliceCovers ==
  bTip # NoTree
    => /\ bSlice = FirstPaths(PathsPast(bTip, bfCursor))
       /\ \A c \in bSlice \ bLeft : Readable(bTip, c) => got[c] > 0

NotBegun == bfCursor = 0 /\ ~bfDone /\ bTip = NoTree

Walked(c) == bfDone \/ Place[c] <= bfCursor

WalkCovers ==
  orderly
    => IF base = NoTree
       THEN NotBegun
       ELSE /\ bTip # NoTree => Behind(base, bTip)
            /\ \A c \in Cves :
                 NeverMalformed(c) /\ base[c] > 0 /\ Walked(c) => got[c] > 0

WalkInv == TipsBehind /\ SliceCovers /\ WalkCovers

LEMMA NeverMalformedReads ==
  ASSUME NEW c \in Cves, NEW t \in Trees, NeverMalformed(c), t[c] > 0
  PROVE  Readable(t, c)
<1>1. <<c, t[c]>> \notin Malformed
  <2>1. <<c, t[c]>>[1] = c
    OBVIOUS
  <2> QED
    BY <2>1 DEF NeverMalformed
<1> QED
  BY <1>1 DEF Readable

\* Steps that leave the walk alone, got aside.
LEMMA WalkUndisturbed ==
  ASSUME TypeInv, WalkInv, [StreamNext]_streamVars,
         UNCHANGED <<bTip, bSlice, bLeft, bfCursor, bfDone, base, orderly>>
  PROVE  SliceCovers' /\ WalkCovers'
<1> USE DEF TypeInv, StreamTypeOK
<1>1. \A c \in Cves : got[c] > 0 => got'[c] > 0
  BY GotGrows
<1>2. SliceCovers'
  BY <1>1 DEF WalkInv, SliceCovers, Readable, FirstPaths, PathsPast
<1>3. WalkCovers'
  BY <1>1 DEF WalkInv, WalkCovers, NotBegun, Walked, Behind, NeverMalformed
<1> QED
  BY <1>2, <1>3

LEMMA StreamWalks ==
  ASSUME TypeInv, WalkInv, StreamNext, Upstream \/ Stream
  PROVE  WalkInv'
<1> USE DEF TypeInv, StreamTypeOK, Phases
<1>1. ASSUME NEW c \in Cves, Publish(c) PROVE WalkInv'
  <2>1. \A d \in Cves : tree[d] \in Nat /\ tree'[d] \in Nat /\ tree[d] <= tree'[d]
    BY <1>1 DEF Publish, Trees
  <2>2. ASSUME NEW s \in {sTip, bTip, base}
        PROVE  Behind(s, tree')
    BY <2>1, <2>2 DEF Behind, WalkInv, TipsBehind, Trees
  <2>3. SliceCovers' /\ WalkCovers'
    BY <1>1, WalkUndisturbed DEF Publish, backfillTick, history, state
  <2>4. /\ sTip' = sTip
        /\ bTip' = bTip
        /\ base' = base
        /\ cursor' = cursor
    BY <1>1 DEF Publish, streamTick, backfillTick, history, state
  <2> QED
    BY <2>2, <2>3, <2>4 DEF WalkInv, TipsBehind
<1>2. ASSUME LoseCursorCommit \/ StreamDies \/ StreamDiff \/ StreamAdvance
             \/ \E c \in Cves : StreamTake(c)
      PROVE  WalkInv'
  <2>1. UNCHANGED <<bTip, bSlice, bLeft, bfCursor, bfDone, base, orderly, tree>>
    BY <1>2 DEF LoseCursorCommit, StreamDies, StreamDiff, StreamAdvance,
                SetCursor, StreamTake, backfillTick, history, state
  <2>2. SliceCovers' /\ WalkCovers'
    BY <2>1, WalkUndisturbed
  <2>3. sTip' = sTip \/ sTip' = NoTree
    BY <1>2 DEF LoseCursorCommit, StreamDies, StreamDiff, StreamAdvance,
                SetCursor, EndStreamTick, StreamTake, streamTick
  <2>4. cursor = NoTree <=> cursor' = NoTree
    BY <1>2, StreamAssumption
       DEF LoseCursorCommit, StreamDies, StreamDiff, StreamAdvance, SetCursor,
           StreamTake, Trees, state
  <2>5. Behind(sTip', tree)
    BY <2>3 DEF WalkInv, TipsBehind, Behind
  <2> QED
    BY <2>1, <2>2, <2>4, <2>5 DEF WalkInv, TipsBehind, Behind
<1>3. CASE StreamFetch
  <2>1. UNCHANGED <<bTip, bSlice, bLeft, bfCursor, bfDone, base, orderly, tree,
                    cursor>>
    BY <1>3 DEF StreamFetch, backfillTick, history, state
  <2>2. SliceCovers' /\ WalkCovers'
    BY <2>1, WalkUndisturbed
  <2>3. Behind(sTip', tree)
    BY <1>3 DEF StreamFetch, Behind, Trees
  <2> QED
    BY <2>1, <2>2, <2>3 DEF WalkInv, TipsBehind, Behind
<1>4. CASE StreamBootstrap \/ StreamReset
  <2>1. /\ UNCHANGED <<tree, bTip, bSlice, bLeft, bfCursor, bfDone, got>>
        /\ cursor' = sTip /\ base' = sTip /\ sTip' = NoTree
        /\ sTip # NoTree
    BY <1>4 DEF StreamBootstrap, StreamReset, SetCursor, EndStreamTick,
                StreamIdle, backfillTick
  <2>2. orderly' => base = NoTree /\ orderly
    BY <1>4 DEF StreamBootstrap, StreamReset, WalkInv, TipsBehind
  <2>3. orderly' => NotBegun /\ NotBegun'
    BY <2>1, <2>2 DEF WalkInv, WalkCovers, NotBegun
  <2>4. \A c \in Cves : orderly' => ~Walked(c)'
    BY <2>3, StreamAssumption DEF NotBegun, Walked
  <2>5. WalkCovers'
    BY <2>1, <2>3, <2>4 DEF WalkCovers, NotBegun
  <2>6. SliceCovers'
    BY <2>1 DEF WalkInv, SliceCovers, Readable, FirstPaths, PathsPast
  <2>7. TipsBehind'
    BY <2>1 DEF WalkInv, TipsBehind, Behind
  <2> QED
    BY <2>5, <2>6, <2>7 DEF WalkInv
<1> QED
  BY <1>1, <1>2, <1>3, <1>4 DEF Upstream, Stream

LEMMA BackfillWalks ==
  ASSUME ~CutShort, TypeInv, WalkInv, StreamNext, Backfill
  PROVE  WalkInv'
<1> USE DEF TypeInv, StreamTypeOK, Phases
<1>1. CASE BackfillSlice
  <2>1. /\ UNCHANGED <<tree, sTip, cursor, base, got, bfCursor, bfDone>>
        /\ bTip' = tree
        /\ bSlice' = FirstPaths(PathsPast(tree, bfCursor))
        /\ orderly' => orderly /\ cursor # NoTree
    BY <1>1 DEF BackfillSlice, streamTick, state
  <2>2. bLeft' = {c \in bSlice' : Readable(tree, c)}
    BY <1>1 DEF BackfillSlice, Archived
  <2>3. TipsBehind'
    BY <2>1 DEF WalkInv, TipsBehind, Behind, Trees
  <2>4. SliceCovers'
    BY <2>1, <2>2 DEF SliceCovers, Readable, FirstPaths, PathsPast
  <2>5. WalkCovers'
    BY <2>1 DEF WalkInv, WalkCovers, TipsBehind, Behind, Walked, NotBegun,
                NeverMalformed
  <2> QED
    BY <2>3, <2>4, <2>5 DEF WalkInv
<1>2. ASSUME NEW c \in Cves, BackfillTake(c) PROVE WalkInv'
  <2>1. /\ UNCHANGED <<tree, sTip, cursor, base, bfCursor, bfDone, bTip, bSlice,
                       orderly>>
        /\ c \in bLeft
        /\ bLeft' = bLeft \ {c}
    BY <1>2 DEF BackfillTake, streamTick, state
  <2>2. \A d \in Cves : got[d] > 0 => got'[d] > 0
    BY GotGrows
  <2>3. Readable(bTip, c) => got'[c] > 0
    <3>1. bTip[c] \in Nat
      BY <2>1 DEF Trees
    <3>2. got'[c] >= bTip[c] /\ got'[c] \in Nat
      BY <1>2, <3>1, TakeType DEF BackfillTake
    <3> QED
      BY <3>1, <3>2 DEF Readable
  <2>4. SliceCovers'
    BY <2>1, <2>2, <2>3 DEF WalkInv, SliceCovers, Readable, FirstPaths, PathsPast
  <2>5. WalkCovers'
    BY <2>1, <2>2 DEF WalkInv, WalkCovers, NotBegun, Walked, Behind, NeverMalformed
  <2> QED
    BY <2>1, <2>4, <2>5 DEF WalkInv, TipsBehind, Behind
<1>3. CASE BackfillAdvance
  <2>1. /\ UNCHANGED <<tree, sTip, cursor, base, got, orderly>>
        /\ bTip' = NoTree
        /\ bTip # NoTree
        /\ bLeft = {}
    BY <1>3 DEF BackfillAdvance, EndBackfillTick, BackfillIdle, streamTick, history
  <2>2. /\ bTip \in Trees
        /\ bSlice = FirstPaths(PathsPast(bTip, bfCursor))
        /\ \A c \in bSlice : Readable(bTip, c) => got[c] > 0
    BY <2>1 DEF WalkInv, SliceCovers
  <2>3. ASSUME orderly, base # NoTree, NEW c \in Cves, NeverMalformed(c),
               base[c] > 0, Walked(c)'
        PROVE  got[c] > 0
    <3>1. Place[c] \in Nat /\ bfCursor \in Nat
      BY StreamAssumption
    <3>2. CASE Walked(c)
      BY <2>3, <3>2 DEF WalkInv, WalkCovers
    <3>3. CASE ~Walked(c)
      <4>1. bTip[c] > 0
        BY <2>1, <2>2, <2>3 DEF WalkInv, WalkCovers, Behind, Trees
      <4>2. c \in PathsPast(bTip, bfCursor)
        BY <3>1, <3>3, <4>1 DEF Walked, PathsPast
      <4>3. c \in bSlice
        <5>1. CASE bfDone'
          BY <1>3, <4>2, <5>1 DEF BackfillAdvance
        <5>2. CASE ~bfDone'
          <6>1. Place[c] <= bfCursor' /\ ~(Place[c] <= bfCursor)
            BY <2>3, <3>3, <5>2 DEF Walked
          <6>2. PICK d \in bSlice : bfCursor' = Place[d]
            BY <1>3, <6>1 DEF BackfillAdvance
          <6>3. d \in Cves /\ Place[d] \in Nat
            BY StreamAssumption
          <6>4. c = d \/ Place[c] < Place[d]
            BY <3>1, <6>1, <6>2, <6>3, StreamAssumption
          <6> QED
            BY <2>2, <4>2, <6>2, <6>4, SliceIsPrefix
        <5> QED
          BY <5>1, <5>2
      <4>4. Readable(bTip, c)
        BY <2>2, <2>3, <4>1, NeverMalformedReads
      <4> QED
        BY <2>2, <4>3, <4>4
    <3> QED
      BY <3>2, <3>3
  <2>4. orderly => base # NoTree
    BY <2>1 DEF WalkInv, WalkCovers, NotBegun
  <2>5. WalkCovers'
    BY <2>1, <2>3, <2>4 DEF WalkCovers, NeverMalformed, Behind
  <2>6. SliceCovers' /\ TipsBehind'
    BY <2>1 DEF WalkInv, SliceCovers, TipsBehind, Behind
  <2> QED
    BY <2>5, <2>6 DEF WalkInv
<1>4. CASE BackfillDies
  <2>1. /\ UNCHANGED <<tree, sTip, cursor, base, got, orderly, bfCursor, bfDone>>
        /\ bTip' = NoTree
    BY <1>4 DEF BackfillDies, EndBackfillTick, streamTick, history, state
  <2> QED
    BY <2>1 DEF WalkInv, TipsBehind, SliceCovers, WalkCovers, NotBegun, Walked,
                Behind, NeverMalformed
<1> QED
  BY <1>1, <1>2, <1>3, <1>4 DEF Backfill

LEMMA StepWalks ==
  ASSUME ~CutShort, TypeInv, WalkInv, [StreamNext]_streamVars
  PROVE  WalkInv'
<1>1. CASE UNCHANGED streamVars
  BY <1>1 DEF streamVars, streamTick, backfillTick, state, history, WalkInv,
              TipsBehind, SliceCovers, WalkCovers, NotBegun, Walked, Behind,
              NeverMalformed, Readable, FirstPaths, PathsPast
<1> QED
  BY <1>1, StreamWalks, BackfillWalks DEF StreamNext

\* A walk that is over and a cursor that is covered leave no gap.
LEMMA WalkMeetsStream == TypeInv /\ CursorCovers /\ WalkInv => NothingMissed
<1> SUFFICES ASSUME TypeInv, CursorCovers, WalkInv, cursor # NoTree, bfDone,
                    orderly, NEW c \in Cves, cursor[c] > 0, NeverMalformed(c)
             PROVE  got[c] > 0
  BY DEF NothingMissed
<1>1. cursor \in Trees /\ base # NoTree
  BY DEF TypeInv, StreamTypeOK, WalkInv, TipsBehind
<1>2. Readable(cursor, c)
  BY <1>1, NeverMalformedReads
<1>3. CASE cursor[c] = base[c]
  BY <1>1, <1>3 DEF WalkInv, WalkCovers, Walked
<1>4. CASE got[c] >= cursor[c]
  BY <1>1, <1>4 DEF TypeInv, StreamTypeOK, Trees
<1> QED
  BY <1>1, <1>2, <1>3, <1>4 DEF CursorCovers

\* No record is missed between the stream and an orderly back-fill, if git
\* archive delivers whole slices.
THEOREM NothingIsMissed ==
  ASSUME ~CutShort
  PROVE  StreamSpec => []NothingMissed
<1>1. StreamInit => WalkInv
  BY DEF StreamInit, WalkInv, TipsBehind, SliceCovers, WalkCovers, NotBegun,
         Behind
<1>2. TypeInv /\ WalkInv /\ [StreamNext]_streamVars => WalkInv'
  BY StepWalks
<1>3. TypeInv /\ CursorCovers /\ WalkInv => NothingMissed
  BY WalkMeetsStream
<1> QED
  BY <1>1, <1>2, <1>3, TypeInvHolds, CursorNeverAhead, PTL DEF StreamSpec

-----------------------------------------------------------------------------
(* All the writers of the catalog.  A step of Next is a step of the         *)
(* producers, or it leaves all of theirs but the rows alone.                *)

LEMMA StepSplits ==
  ASSUME [Next]_vars
  PROVE  [StreamNext]_streamVars \/ UNCHANGED elsewhere
<1>1. CASE Produce
  BY <1>1 DEF Produce, StreamNext
<1>2. CASE World
  BY <1>2 DEF World, Analyse, Retire, streamVars, elsewhere
<1>3. CASE Refresh
  BY <1>3 DEF Refresh, RefreshStart, FetchEnriches, FetchAbsent, FetchFails,
              OutOfTime, RefreshCommit, RefreshDies, streamVars, elsewhere
<1>4. CASE Writers
  BY <1>4 DEF Writers, NvdCpeIngest, PurgeDefects, elsewhere
<1>5. CASE UNCHANGED vars
  BY <1>5 DEF vars
<1> QED
  BY <1>1, <1>2, <1>3, <1>4, <1>5 DEF Next

\* TypeOK is not inductive: a failure may be counted only while the pool has
\* something left, which the breaker empties when it trips.
TickOK ==
  /\ analysed \subseteq Cves
  /\ refreshing \in BOOLEAN
  /\ pool \subseteq Cves
  /\ batch \subseteq Cves
  /\ fails \in 0 .. MaxFail
  /\ pool # {} => refreshing /\ fails < MaxFail
  /\ batch # {} => refreshing

RefreshInv == TypeInv /\ TickOK

LEMMA BreakerLimit == MaxFail \in Nat /\ 0 < MaxFail
BY RefreshAssumption

LEMMA EnrichedType ==
  ASSUME defects \in [Cves -> Row \cup {NoRow}], NEW cves \in SUBSET Cves
  PROVE  /\ Enriched(defects, cves) \in [Cves -> Row \cup {NoRow}]
         /\ \A c \in Cves : defects[c] # NoRow
                              => Enriched(defects, cves)[c] # NoRow
<1>1. \A c \in Cves : Upserted(defects[c], "nvd") \in Row
  BY DEF Upserted, Row
<1> QED
  BY <1>1, RefreshAssumption DEF Enriched

\* What a step does to the rows: none is lost but an ancient one, and they
\* keep their type.
LEMMA RowsStep ==
  ASSUME RefreshInv, [Next]_vars
  PROVE  /\ defects' \in [Cves -> Row \cup {NoRow}]
         /\ \A c \in Cves \ Ancient : defects[c] # NoRow => defects'[c] # NoRow
<1> DEFINE Kept == /\ defects' \in [Cves -> Row \cup {NoRow}]
                   /\ \A c \in Cves \ Ancient :
                        defects[c] # NoRow => defects'[c] # NoRow
<1> USE DEF RefreshInv, TickOK, TypeInv, StreamTypeOK
<1>1. CASE UNCHANGED defects
  BY <1>1
<1>2. ASSUME NEW c \in Cves, NEW r \in Nat, TakeSkeleton(c, r) PROVE Kept
  <2>1. Upserted(defects[c], "mitre") \in Row
    BY DEF Upserted, Row
  <2> QED
    BY <1>2, <2>1, RefreshAssumption DEF TakeSkeleton
<1>3. CASE Produce
  <2>1. ASSUME NEW c \in Cves, StreamTake(c) PROVE Kept
    <3>1. sTip[c] \in Nat
      BY <2>1 DEF StreamTake, Phases, Trees
    <3> QED
      BY <1>1, <1>2, <2>1, <3>1 DEF StreamTake
  <2>2. ASSUME NEW c \in Cves, BackfillTake(c) PROVE Kept
    <3>1. bTip[c] \in Nat
      BY <2>2 DEF BackfillTake, Phases, Trees
    <3> QED
      BY <1>2, <2>2, <3>1 DEF BackfillTake
  <2> QED
    BY <1>1, <1>3, <2>1, <2>2
       DEF Produce, Upstream, Stream, Backfill, Publish, LoseCursorCommit,
           StreamFetch, StreamBootstrap, StreamReset, StreamDiff,
           StreamAdvance, StreamDies, SetCursor, BackfillSlice,
           BackfillAdvance, BackfillDies
<1>4. ASSUME NEW c \in Cves, Retire(c) PROVE Kept
  <2>1. defects[c] \in Row
    BY <1>4 DEF Retire
  <2>2. [defects[c] EXCEPT !.retired = TRUE] \in Row
    BY <2>1 DEF Row
  <2> QED
    BY <1>4, <2>2, RefreshAssumption DEF Retire
<1>5. ASSUME NEW cves \in SUBSET Cves, defects' = Enriched(defects, cves)
      PROVE  Kept
  BY <1>5, EnrichedType
<1>6. CASE Refresh
  <2>1. ASSUME NEW c \in Cves, FetchEnriches(c) PROVE Kept
    <3>1. batch \cup {c} \in SUBSET Cves
      OBVIOUS
    <3> QED
      BY <1>1, <1>5, <2>1, <3>1 DEF FetchEnriches
  <2>2. CASE RefreshCommit
    BY <1>5, <2>2 DEF RefreshCommit
  <2> QED
    BY <1>1, <1>6, <2>1, <2>2
       DEF Refresh, RefreshStart, FetchAbsent, FetchFails, OutOfTime,
           RefreshDies, streamVars
<1>7. ASSUME NEW gone \in SUBSET Cves, PurgeDefects(gone) PROVE Kept
  BY <1>7 DEF PurgeDefects
<1> QED
  BY <1>1, <1>3, <1>4, <1>5, <1>6, <1>7
     DEF Next, World, Analyse, Writers, NvdCpeIngest, vars, streamVars

LEMMA RefreshStep ==
  ASSUME RefreshInv, [Next]_vars
  PROVE  RefreshInv'
<1>1. TypeInv'
  <2>1. CASE [StreamNext]_streamVars
    BY <2>1, StepType DEF RefreshInv
  <2>2. CASE UNCHANGED elsewhere
    BY <2>2, RowsStep DEF RefreshInv, TypeInv, StreamTypeOK, Phases, elsewhere,
                          state, streamTick, backfillTick, history
  <2> QED
    BY <2>1, <2>2, StepSplits
<1>2. CASE Refresh
  <2> USE BreakerLimit DEF RefreshInv, TickOK
  <2>1. ASSUME RefreshStart PROVE TickOK'
    <3>1. pool' \subseteq Cves
      BY <2>1 DEF RefreshStart, PendingIds, Pending
    <3> QED
      BY <2>1, <3>1 DEF RefreshStart
  <2>2. ASSUME NEW c \in Cves, FetchEnriches(c) \/ FetchAbsent(c) PROVE TickOK'
    BY <2>2 DEF FetchEnriches, FetchAbsent, NextToFetch
  <2>3. ASSUME NEW c \in Cves, FetchFails(c) PROVE TickOK'
    BY <2>3 DEF FetchFails, NextToFetch
  <2>4. ASSUME OutOfTime PROVE TickOK'
    BY <2>4 DEF OutOfTime
  <2>5. ASSUME RefreshCommit \/ RefreshDies PROVE TickOK'
    <3>1. refreshing' = FALSE /\ analysed' = analysed
      BY <2>5 DEF RefreshCommit, RefreshDies
    <3>2. pool' = {} /\ batch' = {} /\ fails' = 0
      BY <2>5 DEF RefreshCommit, RefreshDies
    <3>3. fails' \in 0 .. MaxFail
      BY <3>2
    <3> QED
      BY <3>1, <3>2, <3>3, Zenon
  <2> HIDE DEF TickOK
  <2>6. TickOK'
    BY <1>2, <2>1, <2>2, <2>3, <2>4, <2>5 DEF Refresh
  <2> QED
    BY <1>1, <2>6
<1>3. CASE ~Refresh
  <2>1. UNCHANGED <<analysed, refreshTick>> \/ \E c \in Cves : Analyse(c)
    BY <1>3 DEF Next, Produce, World, Retire, Writers, NvdCpeIngest,
                PurgeDefects, vars
  <2>2. TickOK'
    BY <2>1 DEF RefreshInv, TickOK, Analyse, refreshTick
  <2> QED
    BY <1>1, <2>2 DEF RefreshInv
<1> QED
  BY <1>2, <1>3

LEMMA RefreshInvHolds == Spec => []RefreshInv
<1>1. Init => RefreshInv
  <2> SUFFICES ASSUME Init PROVE RefreshInv
    OBVIOUS
  <2>1. TypeInv
    BY StreamInitType DEF Init
  <2>2. pool = {} /\ batch = {} /\ fails = 0 /\ refreshing = FALSE /\ analysed = {}
    BY DEF Init
  <2>3. fails \in 0 .. MaxFail
    BY <2>2, BreakerLimit
  <2>4. TickOK
    BY <2>2, <2>3, Zenon DEF TickOK
  <2> QED
    BY <2>1, <2>4 DEF RefreshInv
<1> QED
  BY <1>1, RefreshStep, PTL DEF Spec

LEMMA RefreshInvTypes == RefreshInv => TypeOK
BY DEF RefreshInv, TickOK, TypeInv, TypeOK

\* The catalog under all its writers is well typed, and the breaker of the
\* refresh never counts past its limit (refresh_tick).
THEOREM CatalogTypeCorrect == Spec => []TypeOK
BY RefreshInvHolds, RefreshInvTypes, PTL

\* What holds of the stream and the back-fill holds of them beside the other
\* writers: the cursor never runs ahead of the catalog, and with whole archives
\* the walk has missed nothing.
LEMMA StepCoversHere ==
  ASSUME RefreshInv, CoverInv, [Next]_vars
  PROVE  CoverInv'
<1>1. CASE [StreamNext]_streamVars
  BY <1>1, StepCovers DEF RefreshInv
<1>2. CASE UNCHANGED elsewhere
  BY <1>2 DEF elsewhere, CoverInv, CursorCovers, SweepCovers, Readable, state,
              streamTick, history
<1> QED
  BY <1>1, <1>2, StepSplits

LEMMA StepWalksHere ==
  ASSUME ~CutShort, RefreshInv, WalkInv, [Next]_vars
  PROVE  WalkInv'
<1>1. CASE [StreamNext]_streamVars
  BY <1>1, StepWalks DEF RefreshInv
<1>2. CASE UNCHANGED elsewhere
  BY <1>2 DEF elsewhere, state, streamTick, backfillTick, history, WalkInv,
              TipsBehind, SliceCovers, WalkCovers, NotBegun, Walked, Behind,
              NeverMalformed, Readable, FirstPaths, PathsPast
<1> QED
  BY <1>1, <1>2, StepSplits

LEMMA ProducersHold ==
  /\ Spec => []CoverInv
  /\ ~CutShort => (Spec => []WalkInv)
<1>1. Init => CoverInv /\ WalkInv
  BY DEF Init, StreamInit, CoverInv, CursorCovers, SweepCovers, WalkInv,
         TipsBehind, SliceCovers, WalkCovers, NotBegun, Behind
<1>2. Spec => []CoverInv
  <2>1. RefreshInv /\ CoverInv /\ [Next]_vars => CoverInv'
    BY StepCoversHere
  <2> QED
    BY <1>1, <2>1, RefreshInvHolds, PTL DEF Spec
<1>3. ASSUME ~CutShort PROVE Spec => []WalkInv
  <2>1. RefreshInv /\ WalkInv /\ [Next]_vars => WalkInv'
    BY <1>3, StepWalksHere
  <2> QED
    BY <1>1, <2>1, RefreshInvHolds, PTL DEF Spec
<1> QED
  BY <1>2, <1>3

\* The stream follows upstream as Watermark has it whatever else writes to the
\* catalog (stream_tick beside refresh_tick, nvd_cpe_ingest_tick and
\* purge_defects).
THEOREM CatalogKeepsWatermark == Spec => KeepsWatermark
<1>1. Init => Following!Init
  BY DEF Init, StreamInit, Following!Init
<1>2. RefreshInv /\ CoverInv' /\ [Next]_vars
        => [Following!Next]_(Following!watermark)
  <2> SUFFICES ASSUME RefreshInv, CoverInv', [Next]_vars
               PROVE  [Following!Next]_(Following!watermark)
    OBVIOUS
  <2>1. CASE [StreamNext]_streamVars
    BY <2>1, StepMaps DEF RefreshInv
  <2>2. CASE UNCHANGED elsewhere
    BY <2>2 DEF elsewhere, state, history, Following!watermark
  <2> QED
    BY <2>1, <2>2, StepSplits
<1> QED
  BY <1>1, <1>2, ProducersHold, RefreshInvHolds, PTL
     DEF Spec, KeepsWatermark, Following!Spec

\* No record is missed between the stream and an orderly back-fill under all
\* the writers of the catalog, if git archive delivers whole slices.
THEOREM CatalogMissesNothing ==
  ASSUME ~CutShort
  PROVE  Spec => []NothingMissed
<1>1. RefreshInv /\ CoverInv /\ WalkInv => NothingMissed
  BY WalkMeetsStream DEF RefreshInv, CoverInv
<1> QED
  BY <1>1, ProducersHold, RefreshInvHolds, PTL

\* What was ever upserted still has a row, unless the purge may have it.
RowsKept == \A c \in Cves \ Ancient : got[c] > 0 => defects[c] # NoRow

LEMMA StepKeepsRows ==
  ASSUME RefreshInv, RowsKept, [Next]_vars
  PROVE  RowsKept'
<1> SUFFICES ASSUME NEW c \in Cves \ Ancient, got'[c] > 0
             PROVE  defects'[c] # NoRow
  BY DEF RowsKept
<1> USE DEF RefreshInv, TypeInv, StreamTypeOK
<1>1. CASE got'[c] = got[c]
  BY <1>1, RowsStep DEF RowsKept
<1>2. CASE got'[c] # got[c]
  <2>1. ASSUME NEW d \in Cves, NEW r, TakeSkeleton(d, r) PROVE defects'[c] # NoRow
    <3>1. d = c
      BY <1>2, <2>1 DEF TakeSkeleton
    <3>2. defects'[c] = Upserted(defects[c], "mitre")
      BY <2>1, <3>1 DEF TakeSkeleton
    <3>3. Upserted(defects[c], "mitre") \in Row
      BY DEF Upserted, Row
    <3> QED
      BY <3>2, <3>3, RefreshAssumption
  <2>2. \E d \in Cves : \E r \in {sTip[d], bTip[d]} : TakeSkeleton(d, r)
    <3>1. [StreamNext]_streamVars
      BY <1>2, StepSplits DEF elsewhere, history
    <3> QED
      BY <1>2, <3>1
         DEF StreamNext, Upstream, Stream, Backfill, Publish, LoseCursorCommit,
             StreamFetch, StreamBootstrap, StreamReset, StreamDiff, StreamTake,
             StreamAdvance, StreamDies, BackfillSlice, BackfillTake,
             BackfillAdvance, BackfillDies, streamVars, history
  <2> QED
    BY <2>1, <2>2
<1> QED
  BY <1>1, <1>2

\* Once the back-catalog is walked, every CVE the stream's cursor knows has a
\* row that no other writer, no death and no rollback took from it, unless the
\* purge forgot it for its age (backfill_tick, refresh_tick, purge_defects).
THEOREM CatalogStaysComplete ==
  ASSUME ~CutShort
  PROVE  Spec => []CatalogComplete
<1>1. Init => RowsKept
  BY DEF Init, StreamInit, RowsKept
<1>2. RefreshInv /\ RowsKept /\ [Next]_vars => RowsKept'
  BY StepKeepsRows
<1>3. NothingMissed /\ RowsKept => CatalogComplete
  BY DEF NothingMissed, RowsKept, CatalogComplete
<1> QED
  BY <1>1, <1>2, <1>3, CatalogMissesNothing, RefreshInvHolds, PTL DEF Spec

=============================================================================
