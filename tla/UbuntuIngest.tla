---------------------------- MODULE UbuntuIngest ----------------------------
(***************************************************************************)
(* The Ubuntu overlay of the map: the fix status the distribution states   *)
(* for a CVE in a package.  It is fed from two sources, the paginated HTTP *)
(* feed (posture/sources/ubuntu_ingest.py) and a clone of the tracker's    *)
(* git repository (posture/sources/ubuntu_git_ingest.py), and both replace *)
(* a package's rows by what they have just read.                           *)
(*                                                                         *)
(* Upstream goes on tracking and withdrawing CVEs while the pager walks    *)
(* its feed.  A release is one more index of a row and is left out; a row  *)
(* is that it exists.                                                      *)
(***************************************************************************)
EXTENDS Naturals, FiniteSets

CONSTANTS
  Packages,
  Turn,        \* [Packages -> Nat], the order in which they are fetched
  Cves,
  Newer,       \* [Cves -> Nat], the feed lists the newest CVE first
  Affects,     \* [Packages -> SUBSET Cves], what upstream may ever track
  Ancient,     \* the CVEs the purge lets go
  PageSize,
  MaxConsecutiveFail, MaxTotalFail, MaxConsecutiveSlow, MaxTotalSlow,
  MaxChanges,  \* bound: changes of upstream
  NoCheckout

Rows == [Packages -> SUBSET Cves]

ASSUME UbuntuAssumption ==
  /\ Packages # {} /\ IsFiniteSet(Packages)
  /\ Turn \in [Packages -> Nat]
  /\ \A p, q \in Packages : Turn[p] = Turn[q] => p = q
  /\ IsFiniteSet(Cves)
  /\ Newer \in [Cves -> Nat]
  /\ \A c, d \in Cves : Newer[c] = Newer[d] => c = d
  /\ Affects \in Rows
  /\ Ancient \subseteq Cves
  /\ PageSize \in Nat \ {0}
  /\ {MaxConsecutiveFail, MaxTotalFail, MaxConsecutiveSlow, MaxTotalSlow}
       \subseteq Nat \ {0}
  /\ MaxChanges \in Nat
  /\ NoCheckout \notin Rows

VARIABLES
  tracked,   \* upstream: the CVEs of each package it has a status for
  changes,   \* upstream: how often that has changed
  overlay,   \* the rows of ubuntu_fixes
  tracker,   \* the clone's working tree, or NoCheckout
  sound,     \* the clone can be pulled
  fetching,  \* an HTTP tick runs
  todo,      \* HTTP tick: packages not yet fetched
  pager,     \* HTTP tick: offset, last_len and total of the current package;
             \* again alternates, so that one more request is always a step
  breaker,   \* HTTP tick: the four counters of the circuit breaker
  skipped,   \* HTTP tick: packages of which a page could not be fetched
  sheets,    \* HTTP tick: the rows read so far
  steady,    \* history: tracked ever since the HTTP tick began
  listed,    \* history: tracked at some time of the HTTP tick
  unsettled  \* history: packages whose feed misled the pager in this tick

upstream == <<tracked, changes>>
git == <<tracker, sound>>
tick == <<fetching, todo, pager, breaker, skipped, sheets>>
history == <<steady, listed, unsettled>>
vars == <<upstream, overlay, git, tick, history>>

Pagers == [offset : Nat, lastLen : 1 .. PageSize, total : Nat, again : {0, 1}]
Breakers == [consecutiveFail : Nat, totalFail : Nat,
             consecutiveSlow : Nat, totalSlow : Nat]

NoRows == [p \in Packages |-> {}]
FirstPage == [offset |-> 0, lastLen |-> PageSize, total |-> 0, again |-> 0]
Untried == [consecutiveFail |-> 0, totalFail |-> 0,
            consecutiveSlow |-> 0, totalSlow |-> 0]

Trips(b) ==
  \/ b.consecutiveFail >= MaxConsecutiveFail
  \/ b.totalFail >= MaxTotalFail
  \/ b.consecutiveSlow >= MaxConsecutiveSlow
  \/ b.totalSlow >= MaxTotalSlow

Current(p) == fetching /\ p \in todo /\ \A q \in todo : Turn[p] <= Turn[q]

\* The feed of a package: its length, the place of a CVE in it, a page of it.
Total(p) == Cardinality(tracked[p])
Place(p, c) == Cardinality({d \in tracked[p] : Newer[d] > Newer[c]})
Page(p, n) ==
  {c \in tracked[p] : /\ pager.offset <= Place(p, c)
                      /\ Place(p, c) < pager.offset + n}

-----------------------------------------------------------------------------
(* The distribution's tracker.                                             *)

Track(p, c) ==
  /\ changes < MaxChanges
  /\ c \in Affects[p] \ tracked[p]
  /\ tracked' = [tracked EXCEPT ![p] = @ \cup {c}]
  /\ changes' = changes + 1
  /\ listed' = IF fetching THEN [listed EXCEPT ![p] = @ \cup {c}] ELSE listed
  /\ UNCHANGED <<overlay, git, tick, steady, unsettled>>

\* What follows moves up, and a pager in between skips one.
Withdraw(p, c) ==
  /\ changes < MaxChanges
  /\ c \in tracked[p]
  /\ tracked' = [tracked EXCEPT ![p] = @ \ {c}]
  /\ changes' = changes + 1
  /\ steady' = [steady EXCEPT ![p] = @ \ {c}]
  /\ unsettled' = IF fetching THEN unsettled \cup {p} ELSE unsettled
  /\ UNCHANGED <<overlay, git, tick, listed>>

-----------------------------------------------------------------------------
(* ubuntu_ingest_tick.                                                     *)

StartHttp ==
  /\ ~fetching
  /\ fetching' = TRUE
  /\ todo' = Packages
  /\ steady' = tracked
  /\ listed' = tracked
  /\ UNCHANGED <<upstream, overlay, git, pager, breaker, skipped, sheets,
                 unsettled>>

EndTick ==
  /\ fetching' = FALSE
  /\ todo' = {}
  /\ pager' = FirstPage
  /\ breaker' = Untried
  /\ skipped' = {}
  /\ sheets' = NoRows
  /\ steady' = NoRows
  /\ listed' = NoRows
  /\ unsettled' = {}

\* On to the next page, or the next package.
TurnPage(p, next, last) ==
  IF last
  THEN todo' = todo \ {p} /\ pager' = FirstPage
  ELSE pager' = next /\ UNCHANGED todo

Failure ==
  [consecutiveFail |-> breaker.consecutiveFail + 1,
   totalFail |-> breaker.totalFail + 1,
   consecutiveSlow |-> breaker.consecutiveSlow + 1,
   totalSlow |-> breaker.totalSlow + 1]

Skip ==
  [offset |-> pager.offset + pager.lastLen,
   lastLen |-> pager.lastLen,
   total |-> pager.total,
   again |-> 1 - pager.again]

\* Mutant: only consecutive failures trip the breaker.
PageFailsUncounted(p) ==
  /\ Current(p)
  /\ IF pager.offset = 0 \/ Failure.consecutiveFail >= MaxConsecutiveFail
     THEN EndTick
     ELSE /\ breaker' = Failure
          /\ skipped' = skipped \cup {p}
          /\ TurnPage(p, Skip, Skip.offset >= Skip.total)
          /\ UNCHANGED <<fetching, sheets, history>>
  /\ UNCHANGED <<upstream, overlay, git>>

\* A page cannot be fetched: it is skipped, by the length of the last one that
\* could.  The first page of a package must succeed.
PageFails(p) ==
  /\ Current(p)
  /\ IF pager.offset = 0 \/ Trips(Failure)
     THEN EndTick
     ELSE /\ breaker' = Failure
          /\ skipped' = skipped \cup {p}
          /\ TurnPage(p, Skip, Skip.total > 0 /\ Skip.offset >= Skip.total)
          /\ UNCHANGED <<fetching, sheets, history>>
  /\ UNCHANGED <<upstream, overlay, git>>

\* The feed answers with n rows, which may be fewer than asked for; also with
\* none where there are more to come.
Answers(p, n) == n = 0 \/ pager.offset + n <= Total(p)

Arrival(slow) ==
  [consecutiveFail |-> 0,
   totalFail |-> breaker.totalFail,
   consecutiveSlow |-> IF slow THEN breaker.consecutiveSlow + 1 ELSE 0,
   totalSlow |-> IF slow THEN breaker.totalSlow + 1 ELSE breaker.totalSlow]

Advance(p, n) ==
  [offset |-> pager.offset + n,
   lastLen |-> IF n > 0 THEN n ELSE pager.lastLen,
   total |-> Total(p),
   again |-> 1 - pager.again]

\* Mutant: an empty page does not end the package.
EmptyPageGoesOn(p, n, slow) ==
  /\ Current(p)
  /\ Answers(p, n)
  /\ IF Trips(Arrival(slow))
     THEN EndTick
     ELSE /\ breaker' = Arrival(slow)
          /\ sheets' = [sheets EXCEPT ![p] = @ \cup Page(p, n)]
          /\ TurnPage(p, Advance(p, n), pager.offset + n >= Total(p))
          /\ UNCHANGED <<fetching, skipped, history>>
  /\ UNCHANGED <<upstream, overlay, git>>

PageArrives(p, n, slow) ==
  /\ Current(p)
  /\ Answers(p, n)
  /\ IF Trips(Arrival(slow))
     THEN EndTick
     ELSE /\ breaker' = Arrival(slow)
          /\ sheets' = [sheets EXCEPT ![p] = @ \cup Page(p, n)]
          /\ TurnPage(p, Advance(p, n), n = 0 \/ pager.offset + n >= Total(p))
          /\ unsettled' = IF n = 0 /\ pager.offset < Total(p)
                          THEN unsettled \cup {p} ELSE unsettled
          /\ UNCHANGED <<fetching, skipped, steady, listed>>
  /\ UNCHANGED <<upstream, overlay, git>>

\* TICK_MAX_SECONDS is spent, or the process is killed: nothing is written.
HttpAborts ==
  /\ fetching
  /\ EndTick
  /\ UNCHANGED <<upstream, overlay, git>>

\* Mutants: every sheet is replaced, every sheet is merged.
ReplaceSheets ==
  /\ fetching
  /\ todo = {}
  /\ overlay' = sheets
  /\ EndTick
  /\ UNCHANGED <<upstream, git>>

MergeSheets ==
  /\ fetching
  /\ todo = {}
  /\ overlay' = [p \in Packages |-> overlay[p] \cup sheets[p]]
  /\ EndTick
  /\ UNCHANGED <<upstream, git>>

\* One transaction: replace_ubuntu_fixes, or upsert_ubuntu_fixes for a package
\* with a skipped page.
WriteSheets ==
  /\ fetching
  /\ todo = {}
  /\ overlay' = [p \in Packages |-> IF p \in skipped
                                    THEN overlay[p] \cup sheets[p]
                                    ELSE sheets[p]]
  /\ EndTick
  /\ UNCHANGED <<upstream, git>>

-----------------------------------------------------------------------------
(* ubuntu_git_ingest_tick: fetch, scan, and replace every sheet.  Where    *)
(* it returns an error it changes nothing, and the daily job turns to HTTP.*)

GitPulls ==
  /\ tracker # NoCheckout
  /\ sound
  /\ tracker' = tracked
  /\ overlay' = tracked
  /\ UNCHANGED <<upstream, sound, tick, history>>

\* The pull fails, and the tick goes on with the checkout it has.
GitPullFails ==
  /\ tracker # NoCheckout
  /\ overlay' = tracker
  /\ UNCHANGED <<upstream, git, tick, history>>

\* A pull that is killed by its timeout has changed some of the files, and
\* leaves its lock behind.
GitPullKilled(files) ==
  /\ tracker # NoCheckout
  /\ sound
  /\ tracker' = [p \in Packages |-> (tracker[p] \ files) \cup (tracked[p] \cap files)]
  /\ sound' = FALSE
  /\ overlay' = tracker'
  /\ UNCHANGED <<upstream, tick, history>>

GitClones ==
  /\ tracker = NoCheckout
  /\ tracker' = tracked
  /\ sound' = TRUE
  /\ overlay' = tracked
  /\ UNCHANGED <<upstream, tick, history>>

\* The clone runs into its timeout and is killed, so git removes nothing of
\* the files that are there by then, one per CVE; the second url cannot be
\* cloned into it, and the directory is taken for a checkout.
GitCloneKilled(files) ==
  /\ tracker = NoCheckout
  /\ tracker' = [p \in Packages |-> tracked[p] \cap files]
  /\ sound' = FALSE
  /\ overlay' = tracker'
  /\ UNCHANGED <<upstream, tick, history>>

\* purge_defects removes the overlay rows of the defects it purges.
PurgeRows(gone) ==
  /\ gone \subseteq Ancient
  /\ overlay' = [p \in Packages |-> overlay[p] \ gone]
  /\ UNCHANGED <<upstream, git, tick, history>>

-----------------------------------------------------------------------------

Init ==
  /\ tracked \in {rows \in Rows : \A p \in Packages : rows[p] \subseteq Affects[p]}
  /\ changes = 0
  /\ overlay = NoRows
  /\ tracker = NoCheckout
  /\ sound = FALSE
  /\ fetching = FALSE
  /\ todo = {}
  /\ pager = FirstPage
  /\ breaker = Untried
  /\ skipped = {}
  /\ sheets = NoRows
  /\ steady = NoRows
  /\ listed = NoRows
  /\ unsettled = {}

Tracker == \E p \in Packages, c \in Cves : Track(p, c) \/ Withdraw(p, c)

Pages ==
  \/ \E p \in Packages : PageFails(p)
  \/ \E p \in Packages, n \in 0 .. PageSize, slow \in BOOLEAN :
       PageArrives(p, n, slow)
  \/ WriteSheets

Http == StartHttp \/ Pages \/ HttpAborts

Git ==
  \/ GitPulls \/ GitPullFails \/ GitClones
  \/ \E files \in SUBSET Cves : GitPullKilled(files) \/ GitCloneKilled(files)

Next == Tracker \/ Http \/ Git \/ (\E gone \in SUBSET Cves : PurgeRows(gone))

Spec == Init /\ [][Next]_vars

\* Every request ends, with a page or without one: curl has a time limit.
LiveSpec == Spec /\ WF_vars(Pages)

-----------------------------------------------------------------------------
(* Properties.                                                             *)

\* Types of the overlay, the clone and the HTTP tick; a tick that goes on has
\* not reached any limit of its breaker, so that no mix of failed and slow
\* pages escapes it (ubuntu_ingest.py:92-113).
TypeOK ==
  /\ {tracked, overlay, sheets, steady, listed} \subseteq Rows
  /\ changes \in 0 .. MaxChanges
  /\ tracker \in Rows \cup {NoCheckout}
  /\ {sound, fetching} \subseteq BOOLEAN
  /\ todo \subseteq Packages
  /\ skipped \subseteq Packages
  /\ unsettled \subseteq Packages
  /\ pager \in Pagers
  /\ breaker \in Breakers
  /\ ~Trips(breaker)

\* However pages fail, are cut short or grow under the pager, a tick that
\* writes does not lose the row of a CVE that upstream tracked all along:
\* what it could not fetch it merges (ubuntu_ingest.py:236-244).  A feed that
\* shrinks under the pager, or has an empty page in it, is excepted.
KeepsSteady ==
  [][WriteSheets =>
       \A p \in Packages \ unsettled :
         overlay[p] \cap steady[p] \subseteq overlay'[p]]_vars

\* A complete fetch leaves no stale row: what a package has afterwards,
\* upstream tracked during this very tick (ubuntu_ingest.py:230-234).
DropsWithdrawn ==
  [][WriteSheets =>
       \A p \in Packages \ skipped : overlay'[p] \subseteq listed[p]]_vars

\* Whatever the feed does, the tick ends: every page moves the pager, ends its
\* package or is counted (ubuntu_ingest.py:81-100).
TickEnds == fetching ~> ~fetching

\* What a tick may still ask for before it goes on to the next package.
PagesLeft ==
  (MaxTotalFail - breaker.totalFail)
    + IF pager.offset < Cardinality(Cves)
      THEN Cardinality(Cves) - pager.offset ELSE 0

\* No tick asks for ever: a page that does not end the tick has moved the pager
\* on, used up one of the failures the breaker allows, or ended its package,
\* whatever upstream tracks or withdraws meanwhile (ubuntu_ingest.py:81-100).
EveryPageCounts ==
  [][fetching /\ fetching' /\ <<todo, pager, breaker>>' # <<todo, pager, breaker>>
       => \/ todo' \subseteq todo /\ todo' # todo
          \/ todo' = todo /\ PagesLeft' \in Nat /\ PagesLeft' < PagesLeft]_vars

(* What the documentation says and the code does not do.                   *)

\* ubuntu_git_ingest.py:319-320: "If no checkout exists and the fetch fails, the
\* tick returns error and writes nothing (no-wipe)".
FailedCloneWritesNothing ==
  [][tracker = NoCheckout /\ tracker' # NoCheckout /\ ~sound'
       => overlay' = overlay]_vars
=============================================================================
