------------------------- MODULE UbuntuIngestProofs -------------------------
(* Proofs about UbuntuIngest, for every set of packages and CVEs, every page *)
(* size, every limit of the breaker and any number of upstream changes.      *)
EXTENDS UbuntuIngest, FiniteSetTheorems, TLAPS

-----------------------------------------------------------------------------
(* Type correctness.                                                        *)

LEMMA FeedIsFinite ==
  ASSUME TypeOK, NEW p \in Packages
  PROVE  IsFiniteSet(tracked[p]) /\ Total(p) \in Nat
<1>1. tracked[p] \subseteq Cves
  BY DEF TypeOK, Rows
<1>2. IsFiniteSet(tracked[p])
  BY <1>1, FS_Subset, UbuntuAssumption
<1> QED
  BY <1>2, FS_CardinalityType DEF Total

LEMMA EndTickType ==
  ASSUME TypeOK, EndTick, UNCHANGED <<upstream, git>>, overlay' \in Rows
  PROVE  TypeOK'
<1>1. ~Trips(Untried)
  BY UbuntuAssumption DEF Trips, Untried
<1>2. /\ FirstPage \in Pagers
      /\ Untried \in Breakers
      /\ NoRows \in Rows
  BY UbuntuAssumption DEF FirstPage, Untried, NoRows, Rows, Pagers, Breakers
<1>3. ~Trips(breaker')
  BY <1>1 DEF EndTick
<1> QED
  BY <1>2, <1>3 DEF TypeOK, EndTick, upstream, git, Trips

\* What turning the page does to the tick's list and pager.
LEMMA TurnPageType ==
  ASSUME TypeOK, NEW p \in Packages, NEW last \in BOOLEAN,
         NEW next \in Pagers,
         TurnPage(p, next, last)
  PROVE  /\ todo' \subseteq Packages
         /\ pager' \in Pagers
<1>1. FirstPage \in Pagers
  BY UbuntuAssumption DEF FirstPage, Pagers
<1>2. todo \subseteq Packages /\ pager \in Pagers
  BY DEF TypeOK
<1>3. CASE last
  BY <1>1, <1>2, <1>3 DEF TurnPage
<1>4. CASE ~last
  BY <1>2, <1>4 DEF TurnPage
<1> QED
  BY <1>3, <1>4

LEMMA PageFailsType ==
  ASSUME TypeOK, NEW p \in Packages, PageFails(p)
  PROVE  TypeOK'
<1>0. UNCHANGED <<upstream, overlay, git>>
  BY DEF PageFails
<1>1. CASE EndTick
  BY <1>0, <1>1, EndTickType DEF TypeOK
<1>2. CASE ~EndTick
  <2>1. /\ ~Trips(Failure)
        /\ breaker' = Failure
        /\ skipped' = skipped \cup {p}
        /\ TurnPage(p, Skip, Skip.total > 0 /\ Skip.offset >= Skip.total)
        /\ UNCHANGED <<fetching, sheets, history>>
    BY <1>2 DEF PageFails
  <2>2. Skip \in Pagers
    <3>1. pager \in Pagers
      BY DEF TypeOK
    <3> QED
      BY <3>1, UbuntuAssumption DEF Skip, Pagers
  <2>3. Failure \in Breakers
    <3>1. breaker \in Breakers
      BY DEF TypeOK
    <3> QED
      BY <3>1 DEF Failure, Breakers
  <2>4. /\ todo' \subseteq Packages
        /\ pager' \in Pagers
    BY <2>1, <2>2, TurnPageType
  <2>5. ~Trips(breaker')
    BY <2>1
  <2> QED
    BY <1>0, <2>1, <2>3, <2>4, <2>5
       DEF TypeOK, Trips, history, upstream, git
<1> QED
  BY <1>1, <1>2

LEMMA PageArrivesType ==
  ASSUME TypeOK, NEW p \in Packages, NEW n \in 0 .. PageSize,
         NEW slow \in BOOLEAN, PageArrives(p, n, slow)
  PROVE  TypeOK'
<1>0. UNCHANGED <<upstream, overlay, git>>
  BY DEF PageArrives
<1>1. CASE EndTick
  BY <1>0, <1>1, EndTickType DEF TypeOK
<1>2. CASE ~EndTick
  <2>1. /\ ~Trips(Arrival(slow))
        /\ breaker' = Arrival(slow)
        /\ sheets' = [sheets EXCEPT ![p] = @ \cup Page(p, n)]
        /\ TurnPage(p, Advance(p, n), n = 0 \/ pager.offset + n >= Total(p))
        /\ unsettled' = IF n = 0 /\ pager.offset < Total(p)
                        THEN unsettled \cup {p} ELSE unsettled
        /\ UNCHANGED <<fetching, skipped, steady, listed>>
    BY <1>2 DEF PageArrives
  <2>2. Advance(p, n) \in Pagers
    <3>1. pager \in Pagers
      BY DEF TypeOK
    <3> QED
      BY <3>1, FeedIsFinite, UbuntuAssumption DEF Advance, Pagers
  <2>3. Arrival(slow) \in Breakers
    <3>1. breaker \in Breakers
      BY DEF TypeOK
    <3> QED
      BY <3>1 DEF Arrival, Breakers
  <2>4. /\ todo' \subseteq Packages
        /\ pager' \in Pagers
    BY <2>1, <2>2, TurnPageType
  <2>5. ~Trips(breaker')
    BY <2>1
  <2>6. sheets' \in Rows
    BY <2>1 DEF TypeOK, Rows, Page
  <2>7. unsettled' \subseteq Packages
    BY <2>1 DEF TypeOK
  <2> QED
    BY <1>0, <2>1, <2>3, <2>4, <2>5, <2>6, <2>7
       DEF TypeOK, Trips, upstream, git
<1> QED
  BY <1>1, <1>2

LEMMA TrackerType ==
  ASSUME TypeOK, NEW p \in Packages, NEW c \in Cves, Track(p, c) \/ Withdraw(p, c)
  PROVE  TypeOK'
<1>1. CASE Track(p, c)
  <2>1. tracked' \in Rows /\ listed' \in Rows
    BY <1>1 DEF TypeOK, Rows, Track
  <2>2. changes' \in 0 .. MaxChanges
    BY <1>1, UbuntuAssumption DEF TypeOK, Track
  <2> QED
    BY <1>1, <2>1, <2>2 DEF TypeOK, Track, Trips, git, tick
<1>2. CASE Withdraw(p, c)
  <2>1. tracked' \in Rows /\ steady' \in Rows
    BY <1>2 DEF TypeOK, Rows, Withdraw
  <2>2. changes' \in 0 .. MaxChanges
    BY <1>2, UbuntuAssumption DEF TypeOK, Withdraw
  <2> QED
    BY <1>2, <2>1, <2>2 DEF TypeOK, Withdraw, Trips, git, tick
<1> QED
  BY <1>1, <1>2

LEMMA GitType ==
  ASSUME TypeOK, Git
  PROVE  TypeOK'
<1>1. CASE GitPulls
  BY <1>1 DEF TypeOK, GitPulls, Trips, upstream, tick, history
<1>2. CASE GitPullFails
  <2>1. tracker \in Rows
    BY <1>2 DEF TypeOK, GitPullFails
  <2> QED
    BY <1>2, <2>1 DEF TypeOK, GitPullFails, Trips, upstream, git, tick, history
<1>3. CASE GitClones
  BY <1>3 DEF TypeOK, GitClones, Trips, upstream, tick, history
<1>4. ASSUME NEW files \in SUBSET Cves, GitPullKilled(files)
      PROVE  TypeOK'
  <2>1. tracker \in Rows
    BY <1>4 DEF TypeOK, GitPullKilled
  <2>2. tracker' \in Rows
    BY <1>4, <2>1 DEF TypeOK, Rows, GitPullKilled
  <2> QED
    BY <1>4, <2>2 DEF TypeOK, GitPullKilled, Trips, upstream, tick, history
<1>5. ASSUME NEW files \in SUBSET Cves, GitCloneKilled(files)
      PROVE  TypeOK'
  <2>1. tracker' \in Rows
    BY <1>5 DEF TypeOK, Rows, GitCloneKilled
  <2> QED
    BY <1>5, <2>1 DEF TypeOK, GitCloneKilled, Trips, upstream, tick, history
<1> QED
  BY <1>1, <1>2, <1>3, <1>4, <1>5 DEF Git

LEMMA TypeInit == Init => TypeOK
<1>1. ~Trips(Untried)
  BY UbuntuAssumption DEF Trips, Untried
<1>2. /\ FirstPage \in Pagers
      /\ Untried \in Breakers
      /\ NoRows \in Rows
      /\ 0 \in 0 .. MaxChanges
  BY UbuntuAssumption DEF FirstPage, Untried, NoRows, Rows, Pagers, Breakers
<1> QED
  BY <1>1, <1>2 DEF Init, TypeOK

LEMMA TypeNext == TypeOK /\ [Next]_vars => TypeOK'
<1> SUFFICES ASSUME TypeOK, [Next]_vars
             PROVE  TypeOK'
  OBVIOUS
<1>1. CASE Tracker
  BY <1>1, TrackerType DEF Tracker
<1>2. CASE StartHttp
  BY <1>2 DEF TypeOK, StartHttp, Trips, upstream, git
<1>3. ASSUME NEW p \in Packages, PageFails(p)
      PROVE  TypeOK'
  BY <1>3, PageFailsType
<1>4. ASSUME NEW p \in Packages, NEW n \in 0 .. PageSize, NEW slow \in BOOLEAN,
             PageArrives(p, n, slow)
      PROVE  TypeOK'
  BY <1>4, PageArrivesType
<1>5. CASE WriteSheets
  <2>1. overlay' \in Rows
    BY <1>5 DEF TypeOK, Rows, WriteSheets
  <2> QED
    BY <1>5, <2>1, EndTickType DEF WriteSheets
<1>6. CASE HttpAborts
  BY <1>6, EndTickType DEF HttpAborts, TypeOK
<1>7. CASE Git
  BY <1>7, GitType
<1>8. ASSUME NEW gone \in SUBSET Cves, PurgeRows(gone)
      PROVE  TypeOK'
  <2>1. overlay' \in Rows
    BY <1>8 DEF TypeOK, Rows, PurgeRows
  <2> QED
    BY <1>8, <2>1 DEF TypeOK, PurgeRows, Trips, upstream, git, tick, history
<1>9. CASE UNCHANGED vars
  BY <1>9 DEF TypeOK, vars, Trips, upstream, git, tick, history
<1> QED
  BY <1>1, <1>2, <1>3, <1>4, <1>5, <1>6, <1>7, <1>8, <1>9
     DEF Next, Http, Pages

\* The overlay, the clone and the HTTP tick keep their types, and a tick goes on
\* only below every limit of its breaker (ubuntu_ingest.py:92-113).
THEOREM UbuntuTypeCorrect == Spec => []TypeOK
BY TypeInit, TypeNext, PTL DEF Spec

-----------------------------------------------------------------------------
(* What a tick has read.                                                    *)

\* The pager has left the place of c in the feed of p behind.
Passed(p, c) == p \notin todo \/ (Current(p) /\ Place(p, c) < pager.offset)

\* A tick has on its sheets whatever it has passed of what was tracked all
\* along, but for packages with a skipped page or a misleading feed, and
\* nothing on them that was not tracked meanwhile.
SheetsInv ==
  /\ ~fetching => pager = FirstPage /\ sheets = NoRows
  /\ fetching => \A p \in Packages : /\ steady[p] \subseteq tracked[p]
                                     /\ tracked[p] \subseteq listed[p]
                                     /\ sheets[p] \subseteq listed[p]
  /\ fetching => \A p \in Packages \ (skipped \cup unsettled) :
                   \A c \in steady[p] : Passed(p, c) => c \in sheets[p]

LEMMA PlaceType ==
  ASSUME TypeOK, NEW p \in Packages, NEW c \in tracked[p]
  PROVE  Place(p, c) \in Nat /\ Place(p, c) < Total(p)
<1> DEFINE before == {d \in tracked[p] : Newer[d] > Newer[c]}
           rest == tracked[p] \ {c}
<1>1. IsFiniteSet(tracked[p]) /\ Total(p) \in Nat
  BY FeedIsFinite
<1>2. IsFiniteSet(rest) /\ Cardinality(rest) = Total(p) - 1
  BY <1>1, FS_RemoveElement DEF Total
<1>3. before \subseteq rest
  BY UbuntuAssumption DEF TypeOK, Rows
<1>4. IsFiniteSet(before) /\ Cardinality(before) <= Cardinality(rest)
  BY <1>2, <1>3, FS_Subset
<1>5. Cardinality(before) \in Nat
  BY <1>4, FS_CardinalityType
<1> QED
  BY <1>1, <1>2, <1>4, <1>5 DEF Place

\* A newly tracked CVE moves no other one towards the front.
LEMMA PlacesGrow ==
  ASSUME TypeOK, TypeOK', NEW p \in Packages, NEW c \in tracked[p],
         tracked[p] \subseteq tracked'[p]
  PROVE  Place(p, c) <= Place(p, c)'
<1> DEFINE before == {d \in tracked[p] : Newer[d] > Newer[c]}
           after == {d \in tracked'[p] : Newer[d] > Newer[c]}
<1>1. IsFiniteSet(tracked'[p])
  <2>1. tracked'[p] \subseteq Cves
    BY DEF TypeOK, Rows
  <2> QED
    BY <2>1, FS_Subset, UbuntuAssumption
<1>2. IsFiniteSet(after)
  BY <1>1, FS_Subset
<1>3. before \subseteq after
  OBVIOUS
<1>4. Cardinality(before) <= Cardinality(after)
  BY <1>2, <1>3, FS_Subset
<1> QED
  BY <1>4 DEF Place

LEMMA OneIsCurrent ==
  ASSUME NEW p \in Packages, NEW q \in Packages, Current(p), Current(q)
  PROVE  p = q
<1>1. Turn[p] <= Turn[q] /\ Turn[q] <= Turn[p]
  BY DEF Current
<1>2. Turn[p] = Turn[q]
  BY <1>1, UbuntuAssumption
<1> QED
  BY <1>2, UbuntuAssumption

\* A step of the pager passes nothing in any other package.
LEMMA OthersStay ==
  ASSUME TypeOK, NEW p \in Packages, NEW q \in Packages, p # q, Current(p),
         NEW next \in Pagers, NEW last \in BOOLEAN, TurnPage(p, next, last),
         NEW c \in tracked[q], UNCHANGED <<tracked, fetching>>, Passed(q, c)'
  PROVE  Passed(q, c)
<1>1. CASE last
  <2>1. todo' = todo \ {p} /\ pager' = FirstPage
    BY <1>1 DEF TurnPage
  <2>2. Place(q, c)' = Place(q, c)
    BY DEF Place
  <2>3. Place(q, c) \in Nat
    BY PlaceType
  <2>4. ~(Place(q, c)' < pager'.offset)
    BY <2>1, <2>2, <2>3 DEF FirstPage
  <2> QED
    BY <2>1, <2>4 DEF Passed
<1>2. CASE ~last
  <2>1. todo' = todo
    BY <1>2 DEF TurnPage
  <2>2. Current(q)' => Current(q)
    BY <2>1 DEF Current
  <2>3. ~Current(q)'
    BY <2>2, OneIsCurrent
  <2> QED
    BY <2>1, <2>3 DEF Passed
<1> QED
  BY <1>1, <1>2

LEMMA EndTickSheets ==
  ASSUME EndTick
  PROVE  SheetsInv'
BY DEF EndTick, SheetsInv

LEMMA PageFailsSheets ==
  ASSUME TypeOK, TypeOK', SheetsInv, NEW p \in Packages, PageFails(p)
  PROVE  SheetsInv'
<1>1. CASE EndTick
  BY <1>1, EndTickSheets
<1>2. CASE ~EndTick
  <2> DEFINE last == Skip.total > 0 /\ Skip.offset >= Skip.total
  <2>1. /\ skipped' = skipped \cup {p}
        /\ TurnPage(p, Skip, last)
        /\ UNCHANGED <<fetching, sheets, steady, listed, unsettled, tracked>>
        /\ Current(p) /\ fetching
    BY <1>2 DEF PageFails, history, upstream, Current
  <2>2. Skip \in Pagers
    <3>1. pager \in Pagers
      BY DEF TypeOK
    <3> QED
      BY <3>1, UbuntuAssumption DEF Skip, Pagers
  <2>3. ASSUME NEW q \in Packages \ (skipped' \cup unsettled'),
               NEW c \in steady'[q], Passed(q, c)'
        PROVE  c \in sheets'[q]
    <3>1. q # p /\ q \in Packages \ (skipped \cup unsettled)
      BY <2>1, <2>3
    <3>2. c \in steady[q] /\ c \in tracked[q]
      BY <2>1, <2>3 DEF SheetsInv
    <3>3. Passed(q, c)
      BY <2>1, <2>2, <2>3, <3>1, <3>2, OthersStay
    <3> QED
      BY <2>1, <3>1, <3>2, <3>3 DEF SheetsInv
  <2> QED
    BY <2>1, <2>3 DEF SheetsInv
<1> QED
  BY <1>1, <1>2

LEMMA PageArrivesSheets ==
  ASSUME TypeOK, TypeOK', SheetsInv, NEW p \in Packages, NEW n \in 0 .. PageSize,
         NEW slow \in BOOLEAN, PageArrives(p, n, slow)
  PROVE  SheetsInv'
<1>1. CASE EndTick
  BY <1>1, EndTickSheets
<1>2. CASE ~EndTick
  <2> DEFINE last == n = 0 \/ pager.offset + n >= Total(p)
  <2>1. /\ sheets' = [sheets EXCEPT ![p] = @ \cup Page(p, n)]
        /\ TurnPage(p, Advance(p, n), last)
        /\ unsettled' = IF n = 0 /\ pager.offset < Total(p)
                        THEN unsettled \cup {p} ELSE unsettled
        /\ UNCHANGED <<fetching, skipped, steady, listed, tracked>>
        /\ Current(p) /\ fetching
    BY <1>2 DEF PageArrives, upstream, Current
  <2>2. pager.offset \in Nat /\ Total(p) \in Nat /\ n \in Nat
    BY FeedIsFinite DEF TypeOK, Pagers
  <2>3. Advance(p, n) \in Pagers
    <3>1. pager \in Pagers
      BY DEF TypeOK
    <3> QED
      BY <2>2, <3>1, UbuntuAssumption DEF Advance, Pagers
  <2>4. sheets' \in Rows /\ sheets \in Rows
    BY DEF TypeOK
  <2>5. ASSUME NEW q \in Packages
        PROVE  sheets[q] \subseteq sheets'[q] /\ sheets'[q] \subseteq listed'[q]
    BY <2>1, <2>4 DEF SheetsInv, Page, Rows
  <2>6. ASSUME NEW q \in Packages \ (skipped' \cup unsettled'),
               NEW c \in steady'[q], Passed(q, c)'
        PROVE  c \in sheets'[q]
    <3>1. q \in Packages \ (skipped \cup unsettled)
      BY <2>1, <2>6
    <3>2. c \in steady[q] /\ c \in tracked[q]
      BY <2>1, <3>1, <2>6 DEF SheetsInv
    <3>3. CASE q # p
      <4>1. Passed(q, c)
        BY <2>1, <2>3, <2>6, <3>1, <3>2, <3>3, OthersStay
      <4> QED
        BY <2>1, <2>5, <3>1, <3>2, <4>1 DEF SheetsInv
    <3>4. CASE q = p
      <4>1. Place(p, c) \in Nat /\ Place(p, c) < Total(p)
        BY <3>2, <3>4, PlaceType
      <4>2. CASE Place(p, c) < pager.offset
        <5>1. Passed(p, c)
          BY <2>1, <4>2 DEF Passed
        <5> QED
          BY <2>1, <2>5, <3>1, <3>2, <3>4, <5>1 DEF SheetsInv
      <4>3. CASE ~(Place(p, c) < pager.offset)
        <5>1. Place(p, c) < pager.offset + n
          <6>1. CASE last
            <7>1. n # 0
              BY <2>1, <2>2, <2>6, <3>4, <4>1, <4>3
            <7> QED
              BY <2>2, <4>1, <6>1, <7>1
          <6>2. CASE ~last
            <7>1. todo' = todo /\ pager' = Advance(p, n)
              BY <2>1, <6>2 DEF TurnPage
            <7>2. Place(p, c)' = Place(p, c)
              BY <2>1 DEF Place
            <7>3. p \in todo
              BY <2>1 DEF Current
            <7>4. Place(p, c)' < pager'.offset
              BY <2>6, <3>4, <7>1, <7>3 DEF Passed
            <7> QED
              BY <7>1, <7>2, <7>4 DEF Advance
          <6> QED
            BY <6>1, <6>2
        <5>2. c \in Page(p, n)
          BY <2>2, <3>2, <3>4, <4>1, <4>3, <5>1 DEF Page
        <5> QED
          BY <2>1, <2>4, <3>4, <5>2 DEF Rows
      <4> QED
        BY <4>2, <4>3
    <3> QED
      BY <3>3, <3>4
  <2>7. \A q \in Packages : /\ steady'[q] \subseteq tracked'[q]
                            /\ tracked'[q] \subseteq listed'[q]
    BY <2>1 DEF SheetsInv
  <2> QED
    BY <2>1, <2>5, <2>6, <2>7 DEF SheetsInv
<1> QED
  BY <1>1, <1>2

LEMMA TrackerSheets ==
  ASSUME TypeOK, TypeOK', SheetsInv, NEW p \in Packages, NEW c \in Cves,
         Track(p, c) \/ Withdraw(p, c)
  PROVE  SheetsInv'
<1>1. tracked \in Rows /\ steady \in Rows /\ listed \in Rows
  BY DEF TypeOK
<1>2. UNCHANGED tick
  BY DEF Track, Withdraw
<1>3. CASE ~fetching
  BY <1>2, <1>3 DEF SheetsInv, tick
<1>4. CASE fetching /\ Track(p, c)
  <2>1. /\ tracked' = [tracked EXCEPT ![p] = @ \cup {c}]
        /\ listed' = [listed EXCEPT ![p] = @ \cup {c}]
        /\ UNCHANGED <<steady, unsettled>>
    BY <1>4 DEF Track
  <2>2. ASSUME NEW q \in Packages
        PROVE  /\ tracked[q] \subseteq tracked'[q]
               /\ steady'[q] \subseteq tracked'[q]
               /\ tracked'[q] \subseteq listed'[q]
               /\ sheets'[q] \subseteq listed'[q]
    BY <1>1, <1>2, <1>4, <2>1 DEF SheetsInv, Rows, tick
  <2>3. ASSUME NEW q \in Packages \ (skipped' \cup unsettled'),
               NEW d \in steady'[q], Passed(q, d)'
        PROVE  d \in sheets'[q]
    <3>1. d \in steady[q] /\ d \in tracked[q]
      BY <1>4, <2>1, <2>3 DEF SheetsInv
    <3>2. Place(q, d) <= Place(q, d)'
      BY <2>2, <3>1, PlacesGrow
    <3>3. Place(q, d) \in Nat /\ Place(q, d)' \in Nat
      <4>1. tracked'[q] \subseteq Cves
        BY DEF TypeOK, Rows
      <4>2. IsFiniteSet({e \in tracked'[q] : Newer[e] > Newer[d]})
        BY <4>1, FS_Subset, UbuntuAssumption
      <4> QED
        BY <3>1, <4>2, PlaceType, FS_CardinalityType DEF Place
    <3>4. pager.offset \in Nat
      BY DEF TypeOK, Pagers
    <3>5. Current(q)' <=> Current(q)
      BY <1>2 DEF Current, tick
    <3>6. Passed(q, d)
      BY <1>2, <2>3, <3>2, <3>3, <3>4, <3>5 DEF Passed, tick
    <3> QED
      BY <1>2, <1>4, <2>1, <2>3, <3>1, <3>6 DEF SheetsInv, tick
  <2> QED
    BY <1>2, <1>4, <2>2, <2>3 DEF SheetsInv, tick
<1>5. CASE fetching /\ Withdraw(p, c)
  <2>1. /\ tracked' = [tracked EXCEPT ![p] = @ \ {c}]
        /\ steady' = [steady EXCEPT ![p] = @ \ {c}]
        /\ unsettled' = unsettled \cup {p}
        /\ listed' = listed
    BY <1>5 DEF Withdraw
  <2>2. ASSUME NEW q \in Packages
        PROVE  /\ steady'[q] \subseteq tracked'[q]
               /\ tracked'[q] \subseteq listed'[q]
               /\ sheets'[q] \subseteq listed'[q]
    BY <1>1, <1>2, <1>5, <2>1 DEF SheetsInv, Rows, tick
  <2>3. ASSUME NEW q \in Packages \ (skipped' \cup unsettled'),
               NEW d \in steady'[q], Passed(q, d)'
        PROVE  d \in sheets'[q]
    <3>1. q # p /\ q \in Packages \ (skipped \cup unsettled)
      BY <1>2, <2>1, <2>3 DEF tick
    <3>2. tracked'[q] = tracked[q] /\ steady'[q] = steady[q]
      BY <1>1, <2>1, <3>1 DEF Rows
    <3>3. Place(q, d)' = Place(q, d)
      BY <3>2 DEF Place
    <3>4. Current(q)' <=> Current(q)
      BY <1>2 DEF Current, tick
    <3>5. Passed(q, d)
      BY <1>2, <2>3, <3>3, <3>4 DEF Passed, tick
    <3> QED
      BY <1>2, <1>5, <2>3, <3>1, <3>2, <3>5 DEF SheetsInv, tick
  <2> QED
    BY <1>2, <1>5, <2>2, <2>3 DEF SheetsInv, tick
<1> QED
  BY <1>3, <1>4, <1>5

LEMMA StartSheets ==
  ASSUME TypeOK, SheetsInv, StartHttp
  PROVE  SheetsInv'
<1>1. /\ ~fetching /\ pager' = FirstPage /\ sheets' = NoRows
      /\ todo' = Packages /\ steady' = tracked /\ listed' = tracked
      /\ tracked' = tracked /\ fetching' = TRUE
  BY DEF StartHttp, SheetsInv, upstream
<1>2. ASSUME NEW q \in Packages, NEW c \in steady'[q]
      PROVE  ~Passed(q, c)'
  <2>1. Place(q, c) \in Nat
    BY <1>1, <1>2, PlaceType
  <2>2. Place(q, c)' = Place(q, c)
    BY <1>1 DEF Place
  <2> QED
    BY <1>1, <2>1, <2>2 DEF Passed, FirstPage
<1> QED
  BY <1>1, <1>2 DEF SheetsInv, NoRows

\* What changes neither upstream nor the tick nor its history.
LEMMA SheetsStay ==
  ASSUME SheetsInv, UNCHANGED <<upstream, tick, history>>
  PROVE  SheetsInv'
<1>1. \A p, c : Passed(p, c)' <=> Passed(p, c)
  BY DEF Passed, Current, Place, upstream, tick
<1> QED
  BY <1>1 DEF SheetsInv, upstream, tick, history

LEMMA SheetsNext == TypeOK /\ TypeOK' /\ SheetsInv /\ [Next]_vars => SheetsInv'
<1> SUFFICES ASSUME TypeOK, TypeOK', SheetsInv, [Next]_vars
             PROVE  SheetsInv'
  OBVIOUS
<1>1. CASE Tracker
  BY <1>1, TrackerSheets DEF Tracker
<1>2. CASE StartHttp
  BY <1>2, StartSheets
<1>3. ASSUME NEW p \in Packages, PageFails(p)
      PROVE  SheetsInv'
  BY <1>3, PageFailsSheets
<1>4. ASSUME NEW p \in Packages, NEW n \in 0 .. PageSize, NEW slow \in BOOLEAN,
             PageArrives(p, n, slow)
      PROVE  SheetsInv'
  BY <1>4, PageArrivesSheets
<1>5. CASE WriteSheets \/ HttpAborts
  BY <1>5, EndTickSheets DEF WriteSheets, HttpAborts
<1>6. CASE Git
  BY <1>6, SheetsStay
     DEF Git, GitPulls, GitPullFails, GitClones, GitPullKilled, GitCloneKilled
<1>7. ASSUME NEW gone \in SUBSET Cves, PurgeRows(gone)
      PROVE  SheetsInv'
  BY <1>7, SheetsStay DEF PurgeRows
<1>8. CASE UNCHANGED vars
  BY <1>8, SheetsStay DEF vars
<1> QED
  BY <1>1, <1>2, <1>3, <1>4, <1>5, <1>6, <1>7, <1>8 DEF Next, Http, Pages

LEMMA SheetsInvariant == Spec => [](TypeOK /\ SheetsInv)
<1>1. Init => SheetsInv
  BY DEF Init, SheetsInv
<1> QED
  BY <1>1, TypeInit, TypeNext, SheetsNext, PTL DEF Spec

\* However pages fail, are cut short or grow under the pager, a tick that writes
\* keeps the row of every CVE that upstream tracked all along
\* (ubuntu_ingest.py:236-244).
THEOREM SteadyRowsAreKept == Spec => KeepsSteady
<1>1. ASSUME TypeOK, SheetsInv, WriteSheets
      PROVE  \A p \in Packages \ unsettled :
               overlay[p] \cap steady[p] \subseteq overlay'[p]
  <2>1. fetching /\ todo = {}
    BY <1>1 DEF WriteSheets
  <2>2. ASSUME NEW p \in Packages \ unsettled, NEW c \in overlay[p] \cap steady[p]
        PROVE  c \in overlay'[p]
    <3>1. CASE p \in skipped
      BY <1>1, <2>2, <3>1 DEF WriteSheets
    <3>2. CASE p \notin skipped
      <4>1. c \in sheets[p]
        BY <1>1, <2>1, <2>2, <3>2 DEF SheetsInv, Passed
      <4> QED
        BY <1>1, <2>2, <3>2, <4>1 DEF WriteSheets
    <3> QED
      BY <3>1, <3>2
  <2> QED
    BY <2>2
<1> QED
  BY <1>1, SheetsInvariant, PTL DEF KeepsSteady

\* A package fetched without a skipped page has no row afterwards that upstream
\* did not track in this very tick (ubuntu_ingest.py:230-234).
THEOREM WithdrawnRowsAreDropped == Spec => DropsWithdrawn
<1>1. ASSUME SheetsInv, WriteSheets
      PROVE  \A p \in Packages \ skipped : overlay'[p] \subseteq listed[p]
  BY <1>1 DEF SheetsInv, WriteSheets
<1> QED
  BY <1>1, SheetsInvariant, PTL DEF DropsWithdrawn

-----------------------------------------------------------------------------
(* The pager comes to an end.                                               *)

\* What the pager may still ask for: failures below the limit of the breaker,
\* and rows before the end of the longest feed.
LEMMA PagesLeftType ==
  ASSUME TypeOK
  PROVE  /\ PagesLeft \in Nat
         /\ Cardinality(Cves) \in Nat
         /\ breaker.totalFail \in Nat /\ breaker.totalFail < MaxTotalFail
         /\ pager.offset \in Nat
<1>1. Cardinality(Cves) \in Nat
  BY FS_CardinalityType, UbuntuAssumption
<1>2. breaker.totalFail \in Nat /\ breaker.totalFail < MaxTotalFail
  BY UbuntuAssumption DEF TypeOK, Breakers, Trips
<1>3. pager.offset \in Nat
  BY DEF TypeOK, Pagers
<1> QED
  BY <1>1, <1>2, <1>3, UbuntuAssumption DEF PagesLeft

\* The feed of a package is no longer than there are CVEs.
LEMMA FeedIsBounded ==
  ASSUME TypeOK, NEW p \in Packages
  PROVE  Total(p) \in Nat /\ Total(p) <= Cardinality(Cves)
<1>1. tracked[p] \subseteq Cves
  BY DEF TypeOK, Rows
<1> QED
  BY <1>1, FeedIsFinite, FS_Subset, UbuntuAssumption DEF Total

\* A page that could not be fetched uses up one failure, and moves the pager on.
LEMMA PageFailsCounts ==
  ASSUME TypeOK, TypeOK', NEW p \in Packages, PageFails(p), fetching'
  PROVE  \/ todo' \subseteq todo /\ todo' # todo
         \/ todo' = todo /\ PagesLeft' < PagesLeft
<1> DEFINE last == Skip.total > 0 /\ Skip.offset >= Skip.total
<1>1. /\ breaker' = Failure
      /\ TurnPage(p, Skip, last)
      /\ p \in todo
  BY DEF PageFails, EndTick, Current
<1>2. CASE last
  BY <1>1, <1>2 DEF TurnPage
<1>3. CASE ~last
  <2>1. todo' = todo /\ pager' = Skip
    BY <1>1, <1>3 DEF TurnPage
  <2>2. pager.lastLen \in Nat
    BY DEF TypeOK, Pagers
  <2>3. pager'.offset = pager.offset + pager.lastLen
    BY <2>1 DEF Skip
  <2>4. breaker'.totalFail = breaker.totalFail + 1
    BY <1>1 DEF Failure
  <2>5. PagesLeft' < PagesLeft
    BY <2>2, <2>3, <2>4, PagesLeftType, UbuntuAssumption DEF PagesLeft
  <2> QED
    BY <2>1, <2>5
<1> QED
  BY <1>2, <1>3

\* A page with rows in it moves the pager on inside the feed, one without ends
\* the package.
LEMMA PageArrivesCounts ==
  ASSUME TypeOK, TypeOK', NEW p \in Packages, NEW n \in 0 .. PageSize,
         NEW slow \in BOOLEAN, PageArrives(p, n, slow), fetching'
  PROVE  \/ todo' \subseteq todo /\ todo' # todo
         \/ todo' = todo /\ PagesLeft' < PagesLeft
<1> DEFINE last == n = 0 \/ pager.offset + n >= Total(p)
<1>1. /\ breaker' = Arrival(slow)
      /\ TurnPage(p, Advance(p, n), last)
      /\ p \in todo
      /\ Answers(p, n)
  BY DEF PageArrives, EndTick, Current
<1>2. CASE last
  BY <1>1, <1>2 DEF TurnPage
<1>3. CASE ~last
  <2>1. todo' = todo /\ pager' = Advance(p, n)
    BY <1>1, <1>3 DEF TurnPage
  <2>2. n \in Nat /\ n > 0
    BY <1>3
  <2>3. pager.offset + n <= Cardinality(Cves)
    BY <1>1, <2>2, FeedIsBounded, PagesLeftType DEF Answers
  <2>4. pager'.offset = pager.offset + n
    BY <2>1 DEF Advance
  <2>5. breaker'.totalFail = breaker.totalFail
    BY <1>1 DEF Arrival
  <2>6. PagesLeft' < PagesLeft
    BY <2>2, <2>3, <2>4, <2>5, PagesLeftType, UbuntuAssumption DEF PagesLeft
  <2> QED
    BY <2>1, <2>6
<1> QED
  BY <1>2, <1>3

\* No tick asks for ever: a page that does not end the tick has moved the pager
\* on, used up one of the failures the breaker allows, or ended its package,
\* whatever upstream tracks or withdraws meanwhile (ubuntu_ingest.py:81-100).
THEOREM PagesCount == Spec => EveryPageCounts
<1> DEFINE Counts ==
      fetching /\ fetching' /\ <<todo, pager, breaker>>' # <<todo, pager, breaker>>
        => \/ todo' \subseteq todo /\ todo' # todo
           \/ todo' = todo /\ PagesLeft' \in Nat /\ PagesLeft' < PagesLeft
<1>1. ASSUME TypeOK, TypeOK', [Next]_vars
      PROVE  Counts
  <2> SUFFICES ASSUME fetching, fetching',
                      <<todo, pager, breaker>>' # <<todo, pager, breaker>>
               PROVE  \/ todo' \subseteq todo /\ todo' # todo
                      \/ todo' = todo /\ PagesLeft' < PagesLeft
    <3>1. breaker'.totalFail \in Nat /\ breaker'.totalFail < MaxTotalFail
      BY <1>1, UbuntuAssumption DEF TypeOK, Breakers, Trips
    <3>2. pager'.offset \in Nat
      BY <1>1 DEF TypeOK, Pagers
    <3>3. PagesLeft' \in Nat
      BY <1>1, <3>1, <3>2, PagesLeftType, UbuntuAssumption DEF PagesLeft
    <3> QED
      BY <3>3
  <2>1. ASSUME UNCHANGED tick
        PROVE  FALSE
    BY <2>1 DEF tick
  <2>2. ~StartHttp /\ ~WriteSheets /\ ~HttpAborts
    BY DEF StartHttp, WriteSheets, HttpAborts, EndTick
  <2>3. ~Tracker
    BY <2>1 DEF Tracker, Track, Withdraw
  <2>4. ~Git
    BY <2>1
       DEF Git, GitPulls, GitPullFails, GitClones, GitPullKilled, GitCloneKilled
  <2>5. \A gone \in SUBSET Cves : ~PurgeRows(gone)
    BY <2>1 DEF PurgeRows
  <2>6. vars' # vars
    BY <2>1 DEF vars
  <2>7. CASE \E p \in Packages : PageFails(p)
    BY <1>1, <2>7, PageFailsCounts
  <2>8. CASE \E p \in Packages, n \in 0 .. PageSize, slow \in BOOLEAN :
               PageArrives(p, n, slow)
    BY <1>1, <2>8, PageArrivesCounts
  <2> QED
    BY <1>1, <2>2, <2>3, <2>4, <2>5, <2>6, <2>7, <2>8 DEF Next, Http, Pages
<1> QED
  BY <1>1, UbuntuTypeCorrect, PTL DEF Spec, EveryPageCounts
=============================================================================
