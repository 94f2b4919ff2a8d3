--------------------------- MODULE PeerFeedsProofs ---------------------------
(***************************************************************************)
(* Proofs about PeerFeeds for any records, ecosystems, caps and number of  *)
(* changes upstream.                                                       *)
(*                                                                         *)
(* The invariant has a part for each feed.  A tick leaves the other feed's *)
(* part alone, as one tick runs at a time.  What a resumed walk may count  *)
(* on is that trees and zips only grow: the place of a record in a newer   *)
(* one is no earlier than in the one the cursor was set in.                *)
(***************************************************************************)
EXTENDS PeerFeeds, FiniteSetTheorems, TLAPS

-----------------------------------------------------------------------------
(* The operators.                                                          *)

\* What taking a version does to what has been taken.
LEMMA TakenType ==
  ASSUME NEW n \in Nat, NEW got \in [Ids -> 0 .. n], NEW i \in Ids,
         NEW v \in 0 .. n
  PROVE  /\ Taken(got, i, v) \in [Ids -> 0 .. n]
         /\ \A j \in Ids \ {i} : Taken(got, i, v)[j] = got[j]
         /\ \A j \in Ids : Taken(got, i, v)[j] >= got[j]
         /\ i \notin Malformed => Taken(got, i, v)[i] >= v
         /\ Taken(got, i, v) # got => Taken(got, i, v)[i] > got[i]
  BY DEF Taken, Later

\* A slice is a prefix of what is past the cursor.
LEMMA SliceIsPrefix ==
  ASSUME NEW t, NEW i \in Published(t), NEW k \in Slice(t),
         Place[i] > gCursor, Place[i] <= Place[k]
  PROVE  i \in Slice(t)
  <1> DEFINE past == {j \in Published(t) : Place[j] > gCursor}
             Before(j) == {h \in past : Place[h] < Place[j]}
  <1>1. i \in Ids /\ k \in Ids
    BY DEF Published, Slice
  <1>2. Before(i) \subseteq Before(k)
    BY <1>1, PeerAssumption DEF Published
  <1>3. IsFiniteSet(Before(k))
    <2>1. Before(k) \subseteq Ids
      BY DEF Published
    <2> QED
      BY <2>1, PeerAssumption, FS_Subset
  <1>4. /\ IsFiniteSet(Before(i))
        /\ Cardinality(Before(i)) <= Cardinality(Before(k))
    BY <1>2, <1>3, FS_Subset
  <1>5. Cardinality(Before(i)) \in Nat /\ Cardinality(Before(k)) \in Nat
    BY <1>3, <1>4, FS_CardinalityType
  <1>6. Cardinality(Before(k)) < Cap
    BY DEF Slice
  <1>7. Cardinality(Before(i)) < Cap
    BY <1>4, <1>5, <1>6, PeerAssumption
  <1> QED
    BY <1>7 DEF Slice

LEMMA IndexType == ASSUME NEW i \in Ids, NEW t PROVE IndexIn(i, t) \in Nat
  <1> DEFINE names == {j \in InEco(EcoOf[i], t) : Place[j] < Place[i]}
  <1>1. names \subseteq Ids
    BY DEF InEco, Published
  <1>2. IsFiniteSet(names)
    BY <1>1, PeerAssumption, FS_Subset
  <1> QED
    BY <1>2, FS_CardinalityType DEF IndexIn

\* In a zip that has grown a name is no earlier than it was, nor than a name
\* it followed.
LEMMA IndexGrows ==
  ASSUME NEW t, NEW u, Published(t) \subseteq Published(u),
         NEW i \in Ids, NEW k \in Ids, EcoOf[i] = EcoOf[k],
         Place[k] <= Place[i]
  PROVE  IndexIn(k, t) <= IndexIn(i, u)
  <1> DEFINE old == {j \in InEco(EcoOf[k], t) : Place[j] < Place[k]}
             new == {j \in InEco(EcoOf[i], u) : Place[j] < Place[i]}
  <1>1. old \subseteq new
    BY PeerAssumption DEF InEco, Published
  <1>2. new \subseteq Ids
    BY DEF InEco, Published
  <1>3. IsFiniteSet(new)
    BY <1>2, PeerAssumption, FS_Subset
  <1>4. Cardinality(old) <= Cardinality(new)
    BY <1>1, <1>3, FS_Subset
  <1> QED
    BY <1>4 DEF IndexIn

-----------------------------------------------------------------------------
(* The invariant.                                                          *)

\* Upstream only grows, and so does what a tick has fetched of it.
Grows ==
  /\ early \subseteq Published(stamp)
  /\ seen # NoTree =>
       /\ seen \in [Ids -> 0 .. now]
       /\ Published(seen) \subseteq Published(stamp)
       /\ early \subseteq Published(seen)

\* What a tick has in hand.
Shape ==
  /\ job = "none" => seen = NoTree /\ eco = NoEco /\ left = {}
  /\ job = "zip" =>
       /\ ecos \cap zDone = {}
       /\ eco \notin ecos \cup zDone
       /\ eco = NoEco => left = {}
       /\ eco # NoEco => seen # NoTree /\ left \subseteq InEco(eco, seen)
  /\ job = "csv" /\ left # {} => seen # NoTree
  /\ job \in {"walk", "diff"} => seen # NoTree

Types == TypeOK /\ Grows /\ Shape

\* A version the diffs are past: the promise started from it, it was taken, or
\* a read of it failed.
Passed(i, version) ==
  \/ version = gBase[i]
  \/ version <= gGot[i]
  \/ <<i, version>> \in missed

\* The advisories' walk and diffs.
TipCovered ==
  /\ ~gDone => gTip = NoTree /\ gBase = NoTree
  /\ gDone => gTip # NoTree /\ gBase # NoTree
  /\ job = "walk" => ~gDone
  /\ job = "diff" => gDone
  /\ gDone => \A i \in Ids \ Malformed : Passed(i, gTip[i])
  /\ job = "diff" => \A i \in (Ids \ Malformed) \ left : Passed(i, seen[i])

WalkCovered ==
  /\ \A i \in early \ Malformed :
       gDone \/ Place[i] <= gCursor => gGot[i] > 0 \/ Lost(i)
  /\ job = "walk" =>
       /\ left \subseteq Slice(seen)
       /\ \A i \in (Slice(seen) \ left) \ Malformed : gGot[i] > 0 \/ Lost(i)

GhsaInv == TipCovered /\ WalkCovered

\* OSV's zips and lists.
ZipsCovered ==
  \A i \in early \ Malformed :
    /\ EcoOf[i] \in zDone => zGot[i] > 0
    /\ zEco = EcoOf[i] /\ IndexIn(i, stamp) < zIndex => zGot[i] > 0
    /\ job = "zip" /\ eco = EcoOf[i] /\ i \notin left => zGot[i] > 0

ListsCovered ==
  ~cut => \A i \in Ids \ Malformed :
            /\ stamp[i] <= mCursor => zGot[i] >= stamp[i]
            /\ job = "csv" /\ EcoOf[i] \notin ecos /\ i \notin left
                 => zGot[i] >= stamp[i]

OsvInv == ZipsCovered /\ ListsCovered

IInv == Types /\ GhsaInv /\ OsvInv

LEMMA InitInvariant == Init => IInv
  <1> SUFFICES ASSUME Init
               PROVE  IInv
    OBVIOUS
  <1> USE DEF Init
  <1>1. stamp \in [Ids -> 0 .. 1]
    OBVIOUS
  <1>2. now \in 0 .. MaxTime /\ count \in 0 .. Cap
    BY PeerAssumption
  <1>3. Types
    <2>1. TypeOK
      <3>1. stamp \in [Ids -> 0 .. now] /\ {mCursor, best} \subseteq 0 .. now
        BY <1>1
      <3>2. {gGot, zGot} \subseteq [Ids -> 0 .. now]
        BY <3>1
      <3> QED
        BY <1>2, <3>1, <3>2 DEF TypeOK, Published
    <2>2. Grows
      BY DEF Grows
    <2>3. Shape
      BY DEF Shape
    <2> QED
      BY <2>1, <2>2, <2>3 DEF Types
  <1>4. GhsaInv
    BY PeerAssumption DEF GhsaInv, TipCovered, WalkCovered, Published
  <1>5. OsvInv
    BY <1>1, PeerAssumption, IndexType
      DEF OsvInv, ZipsCovered, ListsCovered, Published
  <1> QED
    BY <1>3, <1>4, <1>5 DEF IInv

-----------------------------------------------------------------------------
(* Types.                                                                  *)

LEMMA StampIsTree == ASSUME Types PROVE stamp \in Trees /\ stamp # NoTree
  BY PeerAssumption DEF Types, TypeOK, Trees

LEMMA SeenIsTree ==
  ASSUME Types, seen # NoTree
  PROVE  seen \in Trees
  BY DEF Types, TypeOK

LEMMA EndTickTypes ==
  ASSUME Types, EndTick, UNCHANGED <<upstream, gKept>>,
         gCursor' \in Nat, gDone' \in BOOLEAN,
         gTip' \in Trees \cup {NoTree}, gBase' \in Trees \cup {NoTree},
         UNCHANGED <<gGot, zGot, missed, early, zDone>>,
         zEco' \in (Ecosystems \ zDone) \cup {NoEco}, zIndex' \in Nat,
         zEco' = NoEco => zIndex' = 0,
         mCursor' \in 0 .. now, cut' \in BOOLEAN
  PROVE  Types'
  <1> USE DEF upstream
  <1>1. TypeOK'
    BY PeerAssumption DEF Types, TypeOK, EndTick
  <1>2. Grows' /\ Shape'
    BY DEF Types, Grows, Shape, EndTick
  <1> QED
    BY <1>1, <1>2 DEF Types

LEMMA UpstreamTypes ==
  ASSUME Types, Upstream
  PROVE  Types'
  <1>1. ASSUME NEW i \in Ids, Publish(i)
        PROVE  Types'
    <2> USE <1>1 DEF Publish, ghsa, osv, tick
    <2>1. now \in Nat /\ now' = now + 1 /\ 0 .. now \subseteq 0 .. now'
      BY PeerAssumption DEF Types, TypeOK
    <2>2. stamp' \in [Ids -> 0 .. now']
      BY <2>1 DEF Types, TypeOK
    <2>3. Published(stamp) \subseteq Published(stamp')
      BY <2>1, <2>2 DEF Published, Types, TypeOK
    <2>4. gGot' \in [Ids -> 0 .. now'] /\ zGot' \in [Ids -> 0 .. now']
      BY <2>1 DEF Types, TypeOK
    <2>5. now' \in 0 .. MaxTime /\ missed' \subseteq Ids \X (0 .. now')
      BY <2>1, PeerAssumption DEF Types, TypeOK
    <2>6. TypeOK'
      BY <2>1, <2>2, <2>4, <2>5 DEF Types, TypeOK
    <2>7. Grows'
      <3>1. seen # NoTree => seen \in [Ids -> 0 .. now']
        BY <2>1 DEF Types, Grows
      <3> QED
        BY <2>3, <3>1 DEF Types, Grows
    <2>8. Shape'
      BY DEF Types, Shape
    <2> QED
      BY <2>6, <2>7, <2>8 DEF Types
  <1>2. CASE LoseTip
    BY <1>2 DEF LoseTip, upstream, osv, tick, history, Types, TypeOK, Grows, Shape
  <1> QED
    BY <1>1, <1>2 DEF Upstream

LEMMA GhsaTypes ==
  ASSUME Types, Ghsa
  PROVE  Types'
  <1> USE StampIsTree DEF upstream, ghsa, osv, history
  <1>1. CASE GhsaWalk
    <2>1. left' \subseteq Ids
      BY <1>1 DEF GhsaWalk, Archived, Slice, Published
    <2>2. missed' \subseteq Ids \X (0 .. now)
      <3>1. Slice(stamp) \subseteq Ids /\ stamp \in [Ids -> 0 .. now]
        BY DEF Slice, Published, Types, TypeOK
      <3> QED
        BY <1>1, <3>1 DEF GhsaWalk, Misses, Types, TypeOK
    <2>3. UNCHANGED <<now, stamp, gCursor, gDone, gTip, gKept, zDone, zEco,
                      zIndex, mCursor, eco, ecos, count, best, gGot, zGot,
                      gBase, early, cut>>
             /\ job' = "walk" /\ seen' = stamp
      BY <1>1 DEF GhsaWalk
    <2>4. TypeOK' /\ Grows' /\ Shape'
      BY <2>1, <2>2, <2>3 DEF Types, TypeOK, Grows, Shape
    <2> QED
      BY <2>4 DEF Types
  <1>2. CASE GhsaDiff
    BY <1>2 DEF GhsaDiff, Types, TypeOK, Grows, Shape
  <1>3. CASE GhsaResetTip
    BY <1>3 DEF GhsaResetTip, tick, Types, TypeOK, Grows, Shape
  <1>4. ASSUME NEW i \in Ids, GhsaTake(i)
        PROVE  Types'
    <2> USE <1>4 DEF GhsaTake
    <2>1. seen # NoTree
      BY DEF Types, Shape
    <2>2. gGot' \in [Ids -> 0 .. now]
      <3>1. now \in Nat /\ seen[i] \in 0 .. now /\ gGot \in [Ids -> 0 .. now]
        BY <2>1 DEF Types, TypeOK, Grows
      <3> QED
        BY <3>1, TakenType
    <2>3. TypeOK'
      BY <2>2 DEF Types, TypeOK
    <2>4. Grows' /\ Shape'
      BY DEF Types, Grows, Shape
    <2> QED
      BY <2>3, <2>4 DEF Types
  <1>5. CASE GhsaWalked
    <2>1. gCursor' \in Nat
      <3>1. Slice(seen) \subseteq Ids
        BY DEF Slice, Published
      <3>2. \A i \in Ids : Place[i] \in Nat
        BY PeerAssumption
      <3> QED
        BY <1>5, <3>1, <3>2 DEF GhsaWalked, Types, TypeOK
    <2>2. gTip' \in Trees \cup {NoTree} /\ gBase' = gTip'
      BY <1>5 DEF GhsaWalked, Types, TypeOK
    <2>3. gDone' \in BOOLEAN
      BY <1>5 DEF GhsaWalked
    <2> QED
      BY <1>5, <2>1, <2>2, <2>3, EndTickTypes DEF GhsaWalked, Types, TypeOK
  <1>6. CASE GhsaDiffed
    <2>1. TypeOK' /\ Grows' /\ Shape'
      BY <1>6, PeerAssumption
        DEF GhsaDiffed, EndTick, Types, TypeOK, Grows, Shape
    <2> QED
      BY <2>1 DEF Types
  <1>7. ASSUME NEW i \in Ids, GhsaSkip(i)
        PROVE  Types'
    <2>1. seen \in [Ids -> 0 .. now]
      BY <1>7 DEF GhsaSkip, Types, Grows, Shape
    <2>2. missed' \subseteq Ids \X (0 .. now)
      BY <1>7, <2>1 DEF GhsaSkip, Misses, Types, TypeOK
    <2>3. TypeOK' /\ Grows' /\ Shape'
      BY <1>7, <2>2 DEF GhsaSkip, Types, TypeOK, Grows, Shape
    <2> QED
      BY <2>3 DEF Types
  <1> QED
    BY <1>1, <1>2, <1>3, <1>4, <1>5, <1>6, <1>7 DEF Ghsa

LEMMA ZipTypes ==
  ASSUME Types,
         \/ OsvBackfill
         \/ \E e \in Ecosystems : ZipArrives(e) \/ ZipFails(e)
         \/ \E i \in Ids : ZipTake(i) \/ ZipCapped(i)
         \/ ZipExhausted
         \/ BackfillEnds
  PROVE  Types'
  <1> USE StampIsTree DEF upstream, ghsa, osv, history, NextEco, NextName
  <1>1. CASE OsvBackfill
    <2>1. TypeOK' /\ Grows'
      BY <1>1 DEF OsvBackfill, Types, TypeOK, Grows
    <2>2. eco = NoEco /\ left = {} /\ seen = NoTree
      BY <1>1 DEF OsvBackfill, Types, Shape
    <2>3. NoEco \notin ecos' \cup zDone /\ ecos' \cap zDone = {}
      BY <1>1, PeerAssumption DEF OsvBackfill, Types, TypeOK
    <2>4. Shape'
      BY <1>1, <2>2, <2>3 DEF OsvBackfill, Shape
    <2> QED
      BY <2>1, <2>4 DEF Types
  <1>2. ASSUME NEW e \in Ecosystems, ZipArrives(e)
        PROVE  Types'
    <2> USE <1>2 DEF ZipArrives
    <2>1. left' \subseteq InEco(e, stamp) /\ left' \subseteq Ids
      BY DEF InEco, Published
    <2>2. TypeOK'
      BY <2>1 DEF Types, TypeOK
    <2>3. Grows'
      BY DEF Types, TypeOK, Grows
    <2>4. Shape'
      BY <2>1, PeerAssumption DEF Types, Shape
    <2> QED
      BY <2>2, <2>3, <2>4 DEF Types
  <1>3. ASSUME NEW e \in Ecosystems, ZipFails(e)
        PROVE  Types'
    <2> USE <1>3 DEF ZipFails
    <2>1. zEco' \in (Ecosystems \ zDone) \cup {NoEco} /\ zIndex' \in Nat
             /\ (zEco' = NoEco => zIndex' = 0)
      BY DEF Types, TypeOK
    <2>2. TypeOK'
      BY <2>1 DEF Types, TypeOK
    <2>3. Grows' /\ Shape'
      BY DEF Types, Grows, Shape
    <2> QED
      BY <2>2, <2>3 DEF Types
  <1>4. ASSUME NEW i \in Ids, ZipTake(i)
        PROVE  Types'
    <2> USE <1>4 DEF ZipTake
    <2>1. seen # NoTree
      BY DEF Types, Shape
    <2>2. zGot' \in [Ids -> 0 .. now]
      <3>1. now \in Nat /\ seen[i] \in 0 .. now /\ zGot \in [Ids -> 0 .. now]
        BY <2>1 DEF Types, TypeOK, Grows
      <3> QED
        BY <3>1, TakenType
    <2>3. count' \in 0 .. Cap
      BY PeerAssumption DEF Types, TypeOK
    <2>4. TypeOK'
      BY <2>2, <2>3 DEF Types, TypeOK
    <2>5. Grows' /\ Shape'
      BY DEF Types, Grows, Shape
    <2> QED
      BY <2>4, <2>5 DEF Types
  <1>5. ASSUME NEW i \in Ids, ZipCapped(i)
        PROVE  Types'
    <2> USE <1>5 DEF ZipCapped
    <2>1. eco # NoEco /\ eco \in Ecosystems \ zDone
      BY DEF Types, TypeOK, Shape
    <2>2. zIndex' \in Nat
      BY IndexType
    <2> QED
      BY <2>1, <2>2, EndTickTypes DEF Types, TypeOK
  <1>6. CASE ZipExhausted
    <2>1. TypeOK' /\ Grows' /\ Shape'
      BY <1>6, PeerAssumption DEF ZipExhausted, Types, TypeOK, Grows, Shape
    <2> QED
      BY <2>1 DEF Types
  <1>7. CASE BackfillEnds
    BY <1>7, EndTickTypes DEF BackfillEnds, Types, TypeOK
  <1> QED
    BY <1>1, <1>2, <1>3, <1>4, <1>5, <1>6, <1>7

LEMMA CsvTypes ==
  ASSUME Types,
         \/ OsvIncremental
         \/ \E e \in Ecosystems : CsvArrives(e) \/ CsvFails(e)
         \/ \E i \in Ids : CsvTake(i) \/ CsvSkip(i)
         \/ CsvAdvance
  PROVE  Types'
  <1> USE StampIsTree DEF upstream, ghsa, osv, history, NextEco
  <1>1. CASE OsvIncremental
    <2>1. TypeOK'
      BY <1>1 DEF OsvIncremental, Types, TypeOK
    <2>2. Grows' /\ Shape'
      BY <1>1 DEF OsvIncremental, Types, TypeOK, Grows, Shape
    <2> QED
      BY <2>1, <2>2 DEF Types
  <1>2. ASSUME NEW e \in Ecosystems, CsvArrives(e)
        PROVE  Types'
    <2> USE <1>2 DEF CsvArrives
    <2>1. left' \subseteq Ids
      BY DEF InEco, Published
    <2>2. TypeOK'
      BY <2>1 DEF Types, TypeOK
    <2>3. Grows' /\ Shape'
      BY DEF Types, TypeOK, Grows, Shape
    <2> QED
      BY <2>2, <2>3 DEF Types
  <1>3. ASSUME NEW e \in Ecosystems, CsvFails(e)
        PROVE  Types'
    BY <1>3 DEF CsvFails, Types, TypeOK, Grows, Shape
  <1>4. ASSUME NEW i \in Ids, CsvTake(i)
        PROVE  Types'
    <2> USE <1>4 DEF CsvTake
    <2>1. seen # NoTree
      BY DEF Types, Shape
    <2>2. zGot' \in [Ids -> 0 .. now]
      <3>1. now \in Nat /\ stamp[i] \in 0 .. now /\ zGot \in [Ids -> 0 .. now]
        BY DEF Types, TypeOK
      <3> QED
        BY <3>1, TakenType
    <2>3. count' \in 0 .. Cap
      BY PeerAssumption DEF Types, TypeOK
    <2>4. best' \in 0 .. now
      BY <2>1 DEF Later, Types, TypeOK, Grows
    <2>5. TypeOK'
      BY <2>2, <2>3, <2>4 DEF Types, TypeOK
    <2>6. Grows' /\ Shape'
      BY DEF Types, Grows, Shape
    <2> QED
      BY <2>5, <2>6 DEF Types
  <1>5. ASSUME NEW i \in Ids, CsvSkip(i)
        PROVE  Types'
    <2> USE <1>5 DEF CsvSkip
    <2>1. count' \in 0 .. Cap
      BY PeerAssumption DEF Types, TypeOK
    <2>2. TypeOK'
      BY <2>1 DEF Types, TypeOK
    <2>3. Grows' /\ Shape'
      BY DEF Types, Grows, Shape
    <2> QED
      BY <2>2, <2>3 DEF Types
  <1>6. CASE CsvAdvance
    BY <1>6, EndTickTypes DEF CsvAdvance, Types, TypeOK
  <1> QED
    BY <1>1, <1>2, <1>3, <1>4, <1>5, <1>6

LEMMA TypesStep == Types /\ [Next]_vars => Types'
  <1> SUFFICES ASSUME Types, [Next]_vars
               PROVE  Types'
    OBVIOUS
  <1>1. CASE TickDies
    BY <1>1, EndTickTypes
      DEF TickDies, Types, TypeOK, upstream, ghsa, osv, history
  <1>2. CASE UNCHANGED vars
    BY <1>2 DEF vars, upstream, ghsa, osv, tick, history, Types, TypeOK, Grows,
      Shape
  <1> QED
    BY <1>1, <1>2, UpstreamTypes, GhsaTypes, ZipTypes, CsvTypes DEF Next, Osv

-----------------------------------------------------------------------------
(* The advisories.                                                         *)

\* Whatever else happens, OSV's ticks and upstream's changes among it.
LEMMA GhsaFrame ==
  ASSUME GhsaInv, UNCHANGED <<gCursor, gDone, gTip, gGot, gBase, missed, early>>,
         job' \notin {"walk", "diff"} \/ UNCHANGED <<job, seen, left>>
  PROVE  GhsaInv'
  <1>1. TipCovered'
    BY DEF GhsaInv, TipCovered, Passed
  <1>2. WalkCovered'
    BY DEF GhsaInv, WalkCovered, Slice, Lost
  <1> QED
    BY <1>1, <1>2 DEF GhsaInv

\* One advisory is taken, in a walk or in a diff.
LEMMA GhsaTakeStep ==
  ASSUME Types, GhsaInv, NEW i \in Ids, GhsaTake(i)
  PROVE  GhsaInv'
  <1> USE DEF GhsaTake, ghsa
  <1>1. /\ now \in Nat
        /\ gGot \in [Ids -> 0 .. now]
        /\ seen \in [Ids -> 0 .. now]
        /\ early \subseteq Ids
    BY DEF Types, TypeOK, Grows, Shape
  <1>2. /\ gGot' \in [Ids -> 0 .. now]
        /\ \A j \in Ids : gGot'[j] >= gGot[j]
        /\ i \notin Malformed => gGot'[i] >= seen[i]
    BY <1>1, TakenType
  <1>3. TipCovered'
    <2>1. ASSUME NEW j \in Ids \ Malformed, gDone
          PROVE  Passed(j, gTip[j])'
      <3>1. gTip \in [Ids -> Nat]
        BY <2>1 DEF GhsaInv, TipCovered, Types, TypeOK, Trees
      <3> QED
        BY <1>1, <1>2, <2>1, <3>1 DEF GhsaInv, TipCovered, Passed
    <2>2. ASSUME NEW j \in (Ids \ Malformed) \ left', job = "diff"
          PROVE  Passed(j, seen[j])'
      BY <1>1, <1>2, <2>2 DEF GhsaInv, TipCovered, Passed
    <2> QED
      BY <2>1, <2>2 DEF GhsaInv, TipCovered
  <1>4. WalkCovered'
    <2>1. Slice(seen)' = Slice(seen)
      BY DEF Slice
    <2>2. ASSUME NEW j \in early \ Malformed, gDone \/ Place[j] <= gCursor
          PROVE  gGot'[j] > 0 \/ Lost(j)
      BY <1>1, <1>2, <2>2 DEF GhsaInv, WalkCovered
    <2>3. ASSUME NEW j \in (Slice(seen) \ left') \ Malformed, job = "walk"
          PROVE  gGot'[j] > 0 \/ Lost(j)
      <3>1. j \in Ids /\ seen[j] > 0
        BY <2>3 DEF Slice, Published
      <3> QED
        BY <1>1, <1>2, <2>3, <3>1 DEF GhsaInv, WalkCovered
    <2> QED
      BY <2>1, <2>2, <2>3 DEF GhsaInv, WalkCovered, Lost
  <1> QED
    BY <1>3, <1>4 DEF GhsaInv

\* A read of one advisory fails, in a diff.
LEMMA GhsaSkipStep ==
  ASSUME Types, GhsaInv, NEW i \in Ids, GhsaSkip(i)
  PROVE  GhsaInv'
  <1> USE DEF GhsaSkip, Misses, ghsa
  <1>1. seen \in [Ids -> 0 .. now] /\ gGot \in [Ids -> 0 .. now] /\ now \in Nat
    BY DEF Types, TypeOK, Grows, Shape
  <1>2. missed \subseteq missed'
    OBVIOUS
  <1>3. Passed(i, seen[i])'
    BY <1>1 DEF Passed
  <1>4. TipCovered'
    BY <1>2, <1>3 DEF GhsaInv, TipCovered, Passed
  <1>5. WalkCovered'
    BY <1>2 DEF GhsaInv, WalkCovered, Lost
  <1> QED
    BY <1>4, <1>5 DEF GhsaInv

\* The walk has taken its slice, and with it whatever lies before the new
\* cursor.
LEMMA GhsaWalkedStep ==
  ASSUME Types, GhsaInv, GhsaWalked
  PROVE  GhsaInv'
  <1> USE DEF GhsaWalked
  <1>1. job' = "none"
    BY DEF EndTick
  <1>2. ~gDone /\ gTip = NoTree /\ gBase = NoTree
    BY DEF GhsaInv, TipCovered
  <1>3. seen # NoTree
    BY DEF Types, Shape
  <1>4. TipCovered'
    BY <1>1, <1>2, <1>3 DEF TipCovered, Passed
  <1>5. WalkCovered'
    <2>0. UNCHANGED <<gGot, missed, early>>
      OBVIOUS
    <2> SUFFICES ASSUME NEW i \in early \ Malformed,
                        gDone' \/ Place[i] <= gCursor'
                 PROVE  gGot[i] > 0 \/ Lost(i)
      BY <1>1, <2>0 DEF WalkCovered, Lost
    <2>1. i \in Published(seen) /\ i \in Ids
      BY <1>3 DEF Types, Grows, TypeOK
    <2>2. Place[i] <= gCursor'
      BY <2>1
    <2>3. CASE Place[i] <= gCursor
      BY <2>3 DEF GhsaInv, WalkCovered
    <2>4. CASE ~(Place[i] <= gCursor)
      <3>1. Place[i] \in Nat /\ gCursor \in Nat
        BY <2>1, PeerAssumption DEF Types, TypeOK
      <3>2. Place[i] > gCursor
        BY <2>4, <3>1
      <3>3. PICK k \in Slice(seen) : gCursor' = Place[k]
        BY <2>2, <2>4
      <3>4. i \in Slice(seen)
        BY <2>1, <2>2, <3>2, <3>3, SliceIsPrefix
      <3> QED
        BY <3>4 DEF GhsaInv, WalkCovered
    <2> QED
      BY <2>3, <2>4
  <1> QED
    BY <1>4, <1>5 DEF GhsaInv

LEMMA GhsaStep ==
  ASSUME Types, GhsaInv, Ghsa
  PROVE  GhsaInv'
  <1> USE DEF ghsa, history
  <1>1. CASE GhsaWalk
    <2>1. TipCovered'
      BY <1>1 DEF GhsaWalk, GhsaInv, TipCovered
    <2>2. WalkCovered'
      <3>1. left' \subseteq Slice(stamp) /\ missed \subseteq missed'
        BY <1>1 DEF GhsaWalk, Archived, Misses
      <3>2. ASSUME NEW i \in (Slice(stamp) \ left') \ Malformed
            PROVE  gGot[i] > 0 \/ Lost(i)'
        <4>1. i \in Ids /\ stamp[i] > 0 /\ stamp[i] \in Nat /\ gGot[i] \in Nat
          BY DEF Slice, Published, Types, TypeOK
        <4>2. CASE gGot[i] < stamp[i]
          <5>1. <<i, stamp[i]>> \in missed'
            BY <1>1, <4>2 DEF GhsaWalk, Misses
          <5> QED
            BY <5>1 DEF Lost
        <4>3. CASE ~(gGot[i] < stamp[i])
          BY <4>1, <4>3
        <4> QED
          BY <4>2, <4>3
      <3>3. \A i \in early \ Malformed :
              gDone \/ Place[i] <= gCursor => gGot[i] > 0 \/ Lost(i)'
        BY <3>1 DEF GhsaInv, WalkCovered, Lost
      <3>4. Slice(seen)' = Slice(stamp)
        BY <1>1 DEF GhsaWalk, Slice
      <3> QED
        BY <1>1, <3>1, <3>2, <3>3, <3>4 DEF GhsaWalk, WalkCovered
    <2> QED
      BY <2>1, <2>2 DEF GhsaInv
  <1>2. CASE GhsaDiff
    <2>1. TipCovered'
      BY <1>2 DEF GhsaDiff, GhsaInv, TipCovered, Passed
    <2>2. WalkCovered'
      BY <1>2 DEF GhsaDiff, GhsaInv, WalkCovered, Lost
    <2> QED
      BY <2>1, <2>2 DEF GhsaInv
  <1>3. CASE GhsaResetTip
    <2>1. TipCovered'
      BY <1>3, StampIsTree DEF GhsaResetTip, tick, GhsaInv, TipCovered, Passed
    <2>2. WalkCovered'
      BY <1>3 DEF GhsaResetTip, tick, GhsaInv, WalkCovered, Slice, Lost
    <2> QED
      BY <2>1, <2>2 DEF GhsaInv
  <1>4. CASE GhsaDiffed
    <2>1. seen # NoTree
      BY <1>4 DEF GhsaDiffed, Types, Shape
    <2>2. TipCovered'
      BY <1>4, <2>1 DEF GhsaDiffed, EndTick, GhsaInv, TipCovered, Passed
    <2>3. WalkCovered'
      BY <1>4 DEF GhsaDiffed, EndTick, GhsaInv, WalkCovered, Lost
    <2> QED
      BY <2>2, <2>3 DEF GhsaInv
  <1> QED
    BY <1>1, <1>2, <1>3, <1>4, GhsaTakeStep, GhsaSkipStep,
      GhsaWalkedStep DEF Ghsa

-----------------------------------------------------------------------------
(* OSV.                                                                    *)

\* Whatever the advisories' ticks do, and a death.
LEMMA OsvFrame ==
  ASSUME OsvInv, UNCHANGED <<stamp, osv, zGot, early, cut>>,
         job' \notin {"zip", "csv"} \/ UNCHANGED <<job, eco, ecos, left>>
  PROVE  OsvInv'
  <1>1. ZipsCovered'
    BY DEF OsvInv, ZipsCovered, osv, IndexIn, InEco, Published
  <1>2. ListsCovered'
    BY DEF OsvInv, ListsCovered, osv
  <1> QED
    BY <1>1, <1>2 DEF OsvInv

\* A record published moves no other to the front of its zip.
LEMMA OsvPublish ==
  ASSUME Types, OsvInv, NEW k \in Ids, Publish(k)
  PROVE  OsvInv'
  <1> USE DEF Publish, osv, tick
  <1>1. now \in Nat /\ stamp \in [Ids -> 0 .. now] /\ mCursor \in 0 .. now
    BY DEF Types, TypeOK
  <1>2. Published(stamp) \subseteq Published(stamp')
    BY <1>1 DEF Published
  <1>3. ZipsCovered'
    <2> SUFFICES ASSUME NEW i \in early \ Malformed,
                        zEco = EcoOf[i], IndexIn(i, stamp') < zIndex
                 PROVE  zGot[i] > 0
      BY DEF OsvInv, ZipsCovered
    <2>1. i \in Ids
      BY DEF Types, TypeOK
    <2>2. IndexIn(i, stamp) <= IndexIn(i, stamp')
      <3>1. Place[i] <= Place[i]
        BY <2>1, PeerAssumption
      <3> QED
        BY <1>2, <2>1, <3>1, IndexGrows
    <2>3. IndexIn(i, stamp) \in Nat /\ IndexIn(i, stamp') \in Nat
      BY <2>1, IndexType
    <2>4. zIndex \in Nat
      BY DEF Types, TypeOK
    <2>5. IndexIn(i, stamp) < zIndex
      BY <2>2, <2>3, <2>4
    <2> QED
      BY <2>5 DEF OsvInv, ZipsCovered
  <1>4. ListsCovered'
    <2> SUFFICES ASSUME ~cut', NEW i \in Ids \ Malformed,
                        stamp'[i] <= mCursor
                 PROVE  zGot[i] >= stamp'[i]
      BY DEF ListsCovered
    <2>1. i # k
      BY <1>1
    <2> QED
      BY <1>1, <2>1 DEF OsvInv, ListsCovered
  <1> QED
    BY <1>3, <1>4 DEF OsvInv

\* Steps of the zips' tick, which leave the lists' cursor alone.
LEMMA ListsFrame ==
  ASSUME Types, ListsCovered, UNCHANGED <<stamp, mCursor, cut>>,
         job' # "csv",
         zGot' \in [Ids -> 0 .. now],
         \A i \in Ids : zGot'[i] >= zGot[i]
  PROVE  ListsCovered'
  <1>1. now \in Nat /\ zGot \in [Ids -> 0 .. now] /\ stamp \in [Ids -> 0 .. now]
    BY DEF Types, TypeOK
  <1> QED
    BY <1>1 DEF ListsCovered

\* A zip resumed at the cursor's index: what comes before it was taken, for it
\* came before it in the zip in which the cursor was set.
LEMMA ZipArrivesStep ==
  ASSUME Types, OsvInv, NEW e \in Ecosystems, ZipArrives(e)
  PROVE  OsvInv'
  <1> USE DEF ZipArrives, upstream, osv, history
  <1>1. ListsCovered'
    BY ListsFrame DEF OsvInv, Types, TypeOK
  <1>2. ZipsCovered'
    <2> SUFFICES ASSUME NEW i \in early \ Malformed, EcoOf[i] = e,
                        i \notin left'
                 PROVE  zGot[i] > 0
      BY DEF OsvInv, ZipsCovered, IndexIn, InEco, Published
    <2>1. i \in InEco(e, stamp) /\ i \in Ids
      BY DEF InEco, Types, TypeOK, Grows
    <2>2. e = zEco /\ ~(IndexIn(i, stamp) >= zIndex)
      BY <2>1
    <2>3. IndexIn(i, stamp) < zIndex
      BY <2>1, <2>2, IndexType DEF Types, TypeOK
    <2> QED
      BY <2>2, <2>3 DEF OsvInv, ZipsCovered
  <1> QED
    BY <1>1, <1>2 DEF OsvInv

\* The cursor is set at the first name that is left; in a zip that has grown
\* since, what comes before it is none of those left.
LEMMA ZipCappedStep ==
  ASSUME Types, OsvInv, NEW k \in Ids, ZipCapped(k)
  PROVE  OsvInv'
  <1> USE DEF ZipCapped, NextName, EndTick, upstream, history
  <1>1. ListsCovered'
    BY ListsFrame DEF OsvInv, Types, TypeOK
  <1>2. /\ eco # NoEco /\ seen # NoTree
        /\ EcoOf[k] = eco
        /\ \A i \in left : EcoOf[i] = eco
    BY DEF Types, Shape, InEco
  <1>3. ZipsCovered'
    <2>1. ASSUME NEW i \in early \ Malformed, EcoOf[i] \in zDone
          PROVE  zGot[i] > 0
      BY <2>1 DEF OsvInv, ZipsCovered
    <2>2. ASSUME NEW i \in early \ Malformed, eco = EcoOf[i],
                 IndexIn(i, stamp) < IndexIn(k, seen)
          PROVE  zGot[i] > 0
      <3>1. i \in Ids /\ Published(seen) \subseteq Published(stamp)
        BY <1>2 DEF Types, TypeOK, Grows
      <3>2. CASE i \in left
        <4>1. IndexIn(k, seen) <= IndexIn(i, stamp)
          BY <1>2, <2>2, <3>1, <3>2, IndexGrows
        <4>2. IndexIn(k, seen) \in Nat /\ IndexIn(i, stamp) \in Nat
          BY <3>1, IndexType
        <4> QED
          BY <2>2, <4>1, <4>2
      <3>3. CASE i \notin left
        BY <2>2, <3>3 DEF OsvInv, ZipsCovered
      <3> QED
        BY <3>2, <3>3
    <2>3. IndexIn(k, seen) = zIndex' /\ stamp' = stamp
      OBVIOUS
    <2>4. \A i \in Ids : IndexIn(i, stamp)' = IndexIn(i, stamp)
      BY <2>3 DEF IndexIn, InEco, Published
    <2>5. early \subseteq Ids
      BY DEF Types, TypeOK
    <2> QED
      BY <2>1, <2>2, <2>3, <2>4, <2>5 DEF ZipsCovered
  <1> QED
    BY <1>1, <1>3 DEF OsvInv

LEMMA ZipTakeStep ==
  ASSUME Types, OsvInv, NEW k \in Ids, ZipTake(k)
  PROVE  OsvInv'
  <1> USE DEF ZipTake, NextName, upstream, osv
  <1>1. /\ now \in Nat /\ zGot \in [Ids -> 0 .. now]
        /\ eco # NoEco /\ seen \in [Ids -> 0 .. now]
        /\ seen[k] > 0
        /\ early \subseteq Ids
    BY DEF Types, TypeOK, Grows, Shape, InEco, Published
  <1>2. /\ zGot' \in [Ids -> 0 .. now]
        /\ \A i \in Ids : zGot'[i] >= zGot[i]
        /\ k \notin Malformed => zGot'[k] >= seen[k]
    BY <1>1, TakenType
  <1>3. ListsCovered'
    BY <1>2, ListsFrame DEF OsvInv
  <1>4. ZipsCovered'
    <2>1. \A i \in Ids : IndexIn(i, stamp)' = IndexIn(i, stamp)
      BY DEF IndexIn, InEco, Published
    <2>2. ASSUME NEW i \in early \ Malformed,
                 zGot[i] > 0 \/ i = k
          PROVE  zGot'[i] > 0
      BY <1>1, <1>2, <2>2
    <2> QED
      BY <1>1, <2>1, <2>2 DEF OsvInv, ZipsCovered
  <1> QED
    BY <1>3, <1>4 DEF OsvInv

\* The other steps of the zips' tick.
LEMMA ZipStep ==
  ASSUME Types, OsvInv,
         \/ OsvBackfill
         \/ \E e \in Ecosystems : ZipFails(e)
         \/ ZipExhausted
         \/ BackfillEnds
  PROVE  OsvInv'
  <1> USE DEF upstream, ghsa, osv, history
  <1>0. zGot \in [Ids -> 0 .. now] /\ \A i \in Ids : zGot[i] >= zGot[i]
    BY DEF Types, TypeOK
  <1>1. \A i \in Ids : EcoOf[i] \in Ecosystems /\ EcoOf[i] # NoEco
    BY PeerAssumption
  <1>2. early \subseteq Ids
    BY DEF Types, TypeOK
  <1>3. \A i \in Ids : stamp' = stamp => IndexIn(i, stamp)' = IndexIn(i, stamp)
    BY DEF IndexIn, InEco, Published
  <1>4. CASE OsvBackfill
    <2>1. eco = NoEco
      BY <1>4 DEF OsvBackfill, Types, Shape
    <2>2. ZipsCovered'
      BY <1>1, <1>2, <1>3, <1>4, <2>1 DEF OsvBackfill, OsvInv, ZipsCovered
    <2> QED
      BY <1>0, <1>4, <2>2, ListsFrame DEF OsvBackfill, OsvInv
  <1>5. ASSUME NEW e \in Ecosystems, ZipFails(e)
        PROVE  OsvInv'
    <2>1. ZipsCovered'
      BY <1>1, <1>2, <1>3, <1>5 DEF ZipFails, OsvInv, ZipsCovered
    <2> QED
      BY <1>0, <1>5, <2>1, ListsFrame DEF ZipFails, OsvInv
  <1>6. CASE ZipExhausted
    <2>1. ZipsCovered'
      BY <1>1, <1>2, <1>3, <1>6 DEF ZipExhausted, OsvInv, ZipsCovered
    <2> QED
      BY <1>0, <1>6, <2>1, ListsFrame DEF ZipExhausted, OsvInv
  <1>7. CASE BackfillEnds
    BY <1>7, OsvFrame DEF BackfillEnds, EndTick
  <1> QED
    BY <1>4, <1>5, <1>6, <1>7

\* The lists: what is listed past the cursor is in hand, and what has been
\* swept is in the catalog.
LEMMA CsvStep ==
  ASSUME Types, OsvInv,
         \/ OsvIncremental
         \/ \E e \in Ecosystems : CsvArrives(e) \/ CsvFails(e)
         \/ \E i \in Ids : CsvSkip(i)
         \/ CsvAdvance
  PROVE  OsvInv'
  <1> USE DEF upstream, ghsa, osv, history
  <1>1. /\ \A i \in Ids : EcoOf[i] \in Ecosystems
        /\ early \subseteq Ids
        /\ now \in Nat /\ stamp \in [Ids -> 0 .. now]
        /\ mCursor \in 0 .. now
    BY PeerAssumption DEF Types, TypeOK
  <1>2. \A i \in Ids : stamp' = stamp => IndexIn(i, stamp)' = IndexIn(i, stamp)
    BY DEF IndexIn, InEco, Published
  <1>3. UNCHANGED <<stamp, zDone, zEco, zIndex, zGot, early>> /\ job' # "zip"
    BY DEF OsvIncremental, CsvArrives, CsvFails, CsvSkip, CsvAdvance, EndTick
  <1>4. ZipsCovered'
    BY <1>1, <1>2, <1>3 DEF OsvInv, ZipsCovered
  <1>5. CASE OsvIncremental
    <2>1. ListsCovered'
      BY <1>1, <1>5 DEF OsvIncremental, OsvInv, ListsCovered
    <2> QED
      BY <1>4, <2>1 DEF OsvInv
  <1>6. ASSUME NEW e \in Ecosystems, CsvArrives(e)
        PROVE  OsvInv'
    <2>1. ASSUME ~cut, NEW i \in Ids \ Malformed, EcoOf[i] \notin ecos',
                 i \notin left'
          PROVE  zGot[i] >= stamp[i]
      <3>1. CASE EcoOf[i] = e
        <4>1. stamp[i] <= mCursor
          BY <1>1, <1>6, <2>1, <3>1 DEF CsvArrives, InEco, Published
        <4> QED
          BY <2>1, <4>1 DEF OsvInv, ListsCovered
      <3>2. CASE EcoOf[i] # e
        BY <1>6, <2>1, <3>2 DEF CsvArrives, OsvInv, ListsCovered
      <3> QED
        BY <3>1, <3>2
    <2>2. ListsCovered'
      BY <1>6, <2>1 DEF CsvArrives, OsvInv, ListsCovered
    <2> QED
      BY <1>4, <2>2 DEF OsvInv
  <1>7. ASSUME NEW e \in Ecosystems, CsvFails(e)
        PROVE  OsvInv'
    BY <1>4, <1>7 DEF CsvFails, OsvInv, ListsCovered
  <1>8. ASSUME NEW i \in Ids, CsvSkip(i)
        PROVE  OsvInv'
    BY <1>4, <1>8 DEF CsvSkip, OsvInv, ListsCovered
  <1>9. CASE CsvAdvance
    <2>1. ASSUME ~cut', NEW i \in Ids \ Malformed
          PROVE  zGot[i] >= stamp[i]
      BY <1>1, <1>9, <2>1 DEF CsvAdvance, Types, TypeOK, OsvInv, ListsCovered
    <2>2. ListsCovered'
      BY <1>9, <2>1 DEF CsvAdvance, EndTick, ListsCovered
    <2> QED
      BY <1>4, <2>2 DEF OsvInv
  <1> QED
    BY <1>5, <1>6, <1>7, <1>8, <1>9

LEMMA CsvTakeStep ==
  ASSUME Types, OsvInv, NEW k \in Ids, CsvTake(k)
  PROVE  OsvInv'
  <1> USE DEF CsvTake, upstream, osv
  <1>1. /\ now \in Nat /\ zGot \in [Ids -> 0 .. now]
        /\ stamp \in [Ids -> 0 .. now]
        /\ early \subseteq Ids
    BY DEF Types, TypeOK
  <1>2. /\ zGot' \in [Ids -> 0 .. now]
        /\ \A i \in Ids : zGot'[i] >= zGot[i]
        /\ zGot'[k] >= stamp[k]
    BY <1>1, TakenType
  <1>3. ZipsCovered'
    <2>1. \A i \in Ids : IndexIn(i, stamp)' = IndexIn(i, stamp)
      BY DEF IndexIn, InEco, Published
    <2>2. ASSUME NEW i \in early \ Malformed, zGot[i] > 0
          PROVE  zGot'[i] > 0
      BY <1>1, <1>2, <2>2
    <2> QED
      BY <1>1, <2>1, <2>2 DEF OsvInv, ZipsCovered
  <1>4. ListsCovered'
    <2> SUFFICES ASSUME ~cut, NEW i \in Ids \ Malformed,
                        \/ stamp[i] <= mCursor
                        \/ EcoOf[i] \notin ecos /\ i \notin left'
                 PROVE  zGot'[i] >= stamp[i]
      BY DEF ListsCovered
    <2>1. CASE i = k
      BY <1>2, <2>1
    <2>2. CASE i # k
      <3>1. zGot[i] >= stamp[i]
        BY <2>2 DEF OsvInv, ListsCovered
      <3> QED
        BY <1>1, <1>2, <3>1
    <2> QED
      BY <2>1, <2>2
  <1> QED
    BY <1>3, <1>4 DEF OsvInv

-----------------------------------------------------------------------------
(* The theorems.                                                           *)

LEMMA NextInvariant == IInv /\ [Next]_vars => IInv'
  <1> SUFFICES ASSUME IInv, [Next]_vars
               PROVE  IInv'
    OBVIOUS
  <1> USE DEF IInv
  <1>1. Types'
    BY TypesStep
  <1>2. GhsaInv'
    <2>1. CASE Ghsa
      BY <2>1, GhsaStep
    <2>2. CASE Upstream \/ TickDies \/ UNCHANGED vars
      BY <2>2, GhsaFrame
        DEF Upstream, Publish, LoseTip, TickDies, EndTick, vars, ghsa, tick,
          history
    <2>3. CASE Osv
      BY <2>3, GhsaFrame
        DEF Osv, OsvBackfill, ZipArrives, ZipFails, ZipTake, ZipCapped,
          ZipExhausted, BackfillEnds, OsvIncremental, CsvArrives, CsvFails,
          CsvTake, CsvSkip, CsvAdvance, EndTick, ghsa, history
    <2> QED
      BY <2>1, <2>2, <2>3 DEF Next
  <1>3. OsvInv'
    <2>1. CASE Osv
      BY <2>1, ZipArrivesStep, ZipCappedStep, ZipTakeStep, ZipStep, CsvStep,
        CsvTakeStep DEF Osv
    <2>2. CASE Ghsa
      BY <2>2, OsvFrame
        DEF Ghsa, GhsaWalk, GhsaDiff, GhsaResetTip, GhsaTake, GhsaSkip, GhsaWalked,
          GhsaDiffed, EndTick, upstream, tick, history
    <2>3. CASE Upstream
      BY <2>3, OsvPublish, OsvFrame DEF Upstream, LoseTip, upstream, tick, history
    <2>4. CASE TickDies \/ UNCHANGED vars
      BY <2>4, OsvFrame DEF TickDies, EndTick, vars, upstream, tick, history
    <2> QED
      BY <2>1, <2>2, <2>3, <2>4 DEF Next
  <1> QED
    BY <1>1, <1>2, <1>3

THEOREM Invariance == Spec => []IInv
  BY InitInvariant, NextInvariant, PTL DEF Spec

\* Both peers' cursors and ticks keep their types; an index into a zip is kept
\* only with its ecosystem, which is not done (ghsa.py:41-51, osv.py:72-84).
THEOREM PeersTypeCorrect == Spec => []TypeOK
  <1>1. IInv => TypeOK
    BY DEF IInv, Types
  <1> QED
    BY Invariance, <1>1, PTL

\* For any cap, order of paths and growth of the tree and the zips, a walk
\* resumed any number of times passes over no well-formed record that was
\* there before it began, but for an advisory that an archive cut short did
\* not deliver (ghsa.py:170-176, git_ingest.py:92-117, osv.py:109-114).
THEOREM NoWalkSkips == Spec => []WalksAreWhole
  <1>1. IInv => WalksAreWhole
    BY DEF IInv, GhsaInv, WalkCovered, OsvInv, ZipsCovered, WalksAreWhole
  <1> QED
    BY Invariance, <1>1, PTL

\* For any ecosystems, caps and order of the lists, the one modified cursor
\* covers all of them as long as no list was cut (osv.py:396-417).
THEOREM OneCursorCoversAll == Spec => []CursorCoversQuietTicks
  <1>1. IInv => CursorCoversQuietTicks
    BY DEF IInv, OsvInv, ListsCovered, CursorCoversQuietTicks
  <1> QED
    BY Invariance, <1>1, PTL

-----------------------------------------------------------------------------
(* The refinement of Watermark.                                            *)

LEMMA CoveredAll ==
  ASSUME Types, NEW t \in [Ids -> 0 .. now],
         \A i \in Ids \ Malformed : Passed(i, t[i])
  PROVE  Following!Covered(t)
  <1>1. \A i \in Malformed : i \in Ids => t[i] \in 0 .. MaxTime
    BY PeerAssumption DEF Types, TypeOK
  <1> QED
    BY <1>1 DEF Following!Covered, Passed

LEMMA GhsaImplements ==
  ASSUME IInv, Ghsa
  PROVE  Following!Next \/ UNCHANGED <<missed, gBase, gTip, gGot>>
  <1> USE DEF ghsa, history
  <1>1. Types
    BY DEF IInv
  <1>2. CASE GhsaDiff
    BY <1>2 DEF GhsaDiff
  <1>3. CASE GhsaResetTip
    BY <1>1, <1>3, StampIsTree
      DEF GhsaResetTip, Following!Next, Following!Restart
  <1>4. ASSUME NEW i \in Ids, GhsaTake(i)
        PROVE  Following!Next \/ UNCHANGED <<missed, gBase, gTip, gGot>>
    <2> USE <1>4 DEF GhsaTake
    <2>1. /\ now \in Nat /\ gGot \in [Ids -> 0 .. now]
          /\ seen \in [Ids -> 0 .. now]
      BY <1>1 DEF Types, TypeOK, Grows, Shape
    <2>2. /\ \A j \in Ids \ {i} : gGot'[j] = gGot[j]
          /\ gGot' # gGot => gGot'[i] > gGot[i]
      <3>1. seen[i] \in 0 .. now /\ gGot' = Taken(gGot, i, seen[i])
        BY <2>1
      <3> HIDE DEF GhsaTake
      <3> QED
        BY <2>1, <3>1, TakenType
    <2>3. UNCHANGED <<missed, gBase, gTip>>
      OBVIOUS
    <2> QED
      BY <2>2, <2>3 DEF Following!Next, Following!Take
  <1>5. CASE GhsaWalked
    <2>1. ~gDone /\ gTip = NoTree /\ gBase = NoTree
      BY <1>5 DEF GhsaWalked, IInv, GhsaInv, TipCovered
    <2>2. seen # NoTree
      BY <1>1, <1>5 DEF GhsaWalked, Types, Shape
    <2> QED
      BY <1>5, <2>1, <2>2 DEF GhsaWalked, Following!Next, Following!Restart
  <1>6. CASE GhsaDiffed
    <2>1. gTip # NoTree /\ seen # NoTree /\ gTip' = seen
             /\ UNCHANGED <<missed, gBase, gGot>>
      BY <1>1, <1>6
        DEF GhsaDiffed, IInv, GhsaInv, TipCovered, Types, Shape
    <2>2. \A i \in Ids \ Malformed : Passed(i, seen[i])
      BY <1>6 DEF GhsaDiffed, IInv, GhsaInv, TipCovered
    <2>3. Following!Covered(seen)
      BY <1>1, <2>1, <2>2, CoveredAll DEF Types, Grows
    <2> QED
      BY <2>1, <2>3 DEF Following!Next, Following!Advance
  <1>7. ASSUME GhsaWalk \/ \E i \in Ids : GhsaSkip(i)
        PROVE  Following!Next
    <2>1. missed \subseteq missed' /\ UNCHANGED <<gBase, gTip, gGot>>
      BY <1>7 DEF GhsaWalk, GhsaSkip, Misses
    <2> QED
      BY <2>1 DEF Following!Next, Following!Skip
  <1> QED
    BY <1>2, <1>3, <1>4, <1>5, <1>6, <1>7 DEF Ghsa

\* The advisories implement the abstract watermark: every step takes one
\* record, passes some unread, moves the tip over what was taken or so passed,
\* starts over, or stutters (ghsa.py:164-256).
THEOREM TipImplementsWatermark == Spec => TipKeepsWatermark
  <1>1. Init => Following!Init
    BY DEF Init, Following!Init
  <1>2. IInv /\ [Next]_vars => [Following!Next]_(Following!watermark)
    <2> SUFFICES ASSUME IInv, [Next]_vars
                 PROVE  Following!Next \/ UNCHANGED <<missed, gBase, gTip, gGot>>
      BY DEF Following!watermark
    <2>1. CASE Ghsa
      BY <2>1, GhsaImplements
    <2>2. CASE Upstream \/ TickDies \/ UNCHANGED vars
      BY <2>2
        DEF Upstream, Publish, LoseTip, TickDies, vars, ghsa, history
    <2>3. CASE Osv
      BY <2>3
        DEF Osv, OsvBackfill, ZipArrives, ZipFails, ZipTake, ZipCapped,
          ZipExhausted, BackfillEnds, OsvIncremental, CsvArrives, CsvFails,
          CsvTake, CsvSkip, CsvAdvance, ghsa, history
    <2> QED
      BY <2>1, <2>2, <2>3 DEF Next
  <1> QED
    BY Invariance, <1>1, <1>2, PTL DEF Spec, TipKeepsWatermark, Following!Spec

=============================================================================
