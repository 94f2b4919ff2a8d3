----------------------------- MODULE UpkeepProofs -----------------------------
(***************************************************************************)
(* Proofs about the two components that keep up with a changing world      *)
(* beside the operator who decides: Vocabulary, for any terms, seeds,      *)
(* sources and number of sweeps, and SourceWatch, for any observers,       *)
(* windows, events and number of runs of the reconcile sweep.              *)
(***************************************************************************)
EXTENDS Vocabulary, SourceWatch, TLAPS

-----------------------------------------------------------------------------
(* The vocabulary.  What a seeding makes of a term it finds absent is       *)
(* recorded nowhere, so the invariant adds that an absent term has no       *)
(* record.                                                                  *)

Untouched == \A t \in Terms : Absent(t) => change[t] = "none"

GlossaryInv == TypeOK /\ TrustIsRecorded /\ Untouched

LEMMA GlossaryInit == Init => GlossaryInv
  BY VocabularyAssumption DEF Init, GlossaryInv, TypeOK, TrustIsRecorded, Untouched,
    Absent, TermStatus, Changes, Review

LEMMA AddedTerms ==
  ASSUME GlossaryInv, NEW new \in SUBSET Terms, Added(new),
         candidate' \in [Sources -> Review],
         sweep' \in [Sweeps -> Tasks \cup {NoTask}]
  PROVE  GlossaryInv'
  BY DEF Added, GlossaryInv, TypeOK, TrustIsRecorded, Untouched, Absent, TermStatus,
    Changes

\* A step that leaves the glossary alone.
LEMMA OtherStep ==
  ASSUME GlossaryInv, UNCHANGED glossary,
         candidate' \in [Sources -> Review],
         sweep' \in [Sweeps -> Tasks \cup {NoTask}]
  PROVE  GlossaryInv'
  BY DEF glossary, GlossaryInv, TypeOK, TrustIsRecorded, Untouched, Absent

LEMMA SweepStep ==
  ASSUME GlossaryInv, NEW p \in Sweeps, Sweep(p)
  PROVE  GlossaryInv'
  <1>1. candidate \in [Sources -> Review]
           /\ sweep \in [Sweeps -> Tasks \cup {NoTask}]
    BY DEF GlossaryInv, TypeOK
  <1>2. CASE MonitorReads(p)
    <2> DEFINE news == {t \in Formats : Absent(t)}
    <2>1. [task |-> "monitor", news |-> news] \in Tasks
      BY DEF Tasks
    <2> QED
      BY <1>1, <1>2, <2>1, OtherStep DEF MonitorReads, Begins
  <1>3. CASE MonitorWrites(p)
    <2>1. sweep[p].news \in SUBSET Terms
      BY <1>1, <1>3, VocabularyAssumption DEF MonitorWrites, Doing, Tasks
    <2> QED
      BY <1>1, <1>3, <2>1, AddedTerms DEF MonitorWrites, Done
  <1>4. CASE DiscoverReads(p)
    <2> DEFINE news == {u \in Sources : candidate[u] = "absent"}
    <2>1. [task |-> "discover", news |-> news] \in Tasks
      BY DEF Tasks
    <2> QED
      BY <1>1, <1>4, <2>1, OtherStep DEF DiscoverReads, Begins
  <1>5. CASE DiscoverWrites(p)
    BY <1>1, <1>5, OtherStep DEF DiscoverWrites, Registered, Done, Review
  <1>6. CASE SweepDies(p)
    BY <1>1, <1>6, OtherStep DEF SweepDies, Done
  <1> QED
    BY <1>2, <1>3, <1>4, <1>5, <1>6 DEF Sweep

LEMMA OperatorStep == GlossaryInv /\ Operator => GlossaryInv'
  <1> SUFFICES ASSUME GlossaryInv, Operator PROVE GlossaryInv'
    OBVIOUS
  <1>1. candidate \in [Sources -> Review]
           /\ sweep \in [Sweeps -> Tasks \cup {NoTask}]
    BY DEF GlossaryInv, TypeOK
  <1>2. ASSUME NEW t \in Terms, AddTerm(t) PROVE GlossaryInv'
    BY <1>1, <1>2, AddedTerms DEF AddTerm
  <1>3. ASSUME NEW t \in Terms, PromoteTerm(t) PROVE GlossaryInv'
    BY <1>3 DEF PromoteTerm, GlossaryInv, TypeOK, TrustIsRecorded, Untouched, Absent,
      TermStatus, Changes
  <1>4. ASSUME NEW t \in Terms, NEW s \in Terms, DeprecateTerm(t, s) PROVE GlossaryInv'
    BY <1>4 DEF DeprecateTerm, GlossaryInv, TypeOK, TrustIsRecorded, Untouched, Absent,
      TermStatus, Changes
  <1>5. ASSUME NEW u \in Sources, NEW decision \in Review \ {"absent"},
               ReviewSource(u, decision)
        PROVE  GlossaryInv'
    BY <1>1, <1>5, OtherStep DEF ReviewSource
  <1> QED
    BY <1>2, <1>3, <1>4, <1>5 DEF Operator

LEMMA GlossaryStep == GlossaryInv /\ [Next]_vars => GlossaryInv'
  <1> SUFFICES ASSUME GlossaryInv, [Next]_vars PROVE GlossaryInv'
    OBVIOUS
  <1>1. candidate \in [Sources -> Review]
           /\ sweep \in [Sweeps -> Tasks \cup {NoTask}]
    BY DEF GlossaryInv, TypeOK
  <1>2. CASE EnsureSeeded
    BY <1>2 DEF EnsureSeeded, GlossaryInv, TypeOK, TrustIsRecorded, Untouched, Absent,
      TermStatus
  <1>3. ASSUME NEW t \in Terms, ScanEmergent(t) PROVE GlossaryInv'
    BY <1>1, <1>3, AddedTerms DEF ScanEmergent
  <1>4. ASSUME NEW p \in Sweeps, Sweep(p) PROVE GlossaryInv'
    BY <1>4, SweepStep
  <1>5. CASE Operator
    BY <1>5, OperatorStep
  <1>6. CASE UNCHANGED vars
    BY <1>1, <1>6, OtherStep DEF vars
  <1> QED
    BY <1>2, <1>3, <1>4, <1>5, <1>6 DEF Next

LEMMA GlossaryInvHolds == Spec => []GlossaryInv
  BY GlossaryInit, GlossaryStep, PTL DEF Spec

\* The glossary, the candidate sources and the sweeps keep their types, and a
\* sweep holds only words of its own kind (vocab_monitor.py, discovery.py).
THEOREM VocabularyTypeCorrect == Spec => []TypeOK
  <1>1. GlossaryInv => TypeOK
    BY DEF GlossaryInv
  <1> QED
    BY <1>1, GlossaryInvHolds, PTL

\* For any number of sweeps and any commands of the operator between them, a
\* term is trusted only as an untouched seed or by a recorded promotion
\* (promote_term, deprecate_term, add_term, ensure_seeded).
THEOREM TrustHasARecord == Spec => []TrustIsRecorded
  <1>1. GlossaryInv => TrustIsRecorded
    BY DEF GlossaryInv
  <1> QED
    BY <1>1, GlossaryInvHolds, PTL

\* No sweep, however many ran at once, reopens a source that was adopted or
\* rejected (add_candidate).
THEOREM DecisionsStick == Spec => ReviewsStick
  <1> DEFINE Stuck(u) ==
        candidate[u] \in {"adopted", "rejected"}
          => candidate'[u] = candidate[u] \/ sweep' = sweep
  <1>1. GlossaryInv /\ [Next]_vars => [\A u \in Sources : Stuck(u)]_vars
    <2> SUFFICES ASSUME GlossaryInv, Next, NEW u \in Sources PROVE Stuck(u)
      BY DEF vars
    <2>1. CASE \E p \in Sweeps : Sweep(p)
      BY <2>1 DEF Sweep, MonitorReads, MonitorWrites, DiscoverReads,
        DiscoverWrites, SweepDies, Begins, Registered
    <2>2. CASE EnsureSeeded \/ Operator \/ \E t \in Terms : ScanEmergent(t)
      BY <2>2 DEF EnsureSeeded, ScanEmergent, Operator, AddTerm, PromoteTerm,
        DeprecateTerm, ReviewSource
    <2> QED
      BY <2>1, <2>2 DEF Next
  <1> QED
    BY <1>1, GlossaryInvHolds, PTL DEF Spec, ReviewsStick

-----------------------------------------------------------------------------
(* The sources.  NoFalseAlarm is not inductive: a run may write a proposal  *)
(* days after it read the samples, so the invariant says of what a run      *)
(* holds what NoFalseAlarm says of what is stored, and that no day written  *)
(* anywhere lies in the future, which keeps a later answer from looking     *)
(* like an earlier one.                                                     *)

\* A source that was silent on a day, or has answered since.
Justified(o, raised) ==
  fresh[o] # Never => fresh[o] >= raised \/ raised - fresh[o] > Window[o]

StoredJustified ==
  \A o \in Observers :
    LET r == <<"source_drifted", o>> IN
    proposal[r] # "none" => Justified(o, raisedAt[r])

HeldJustified ==
  \A p \in Runs, o \in Observers :
    run[p] # NoRun /\ <<"source_drifted", o>> \in run[p].news
      => Justified(o, run[p].at)

NothingAhead ==
  /\ \A r \in Proposals : raisedAt[r] # Never => raisedAt[r] <= day
  /\ \A p \in Runs : run[p] # NoRun => run[p].at <= day

WatchInv == WatchTypeOK /\ StoredJustified /\ HeldJustified /\ NothingAhead

LEMMA DriftIsAProposal ==
  \A o \in Observers : <<"source_drifted", o>> \in Proposals
  BY DEF Proposals

LEMMA WatchInitInvariant == WatchInit => WatchInv
  <1> SUFFICES ASSUME WatchInit PROVE WatchInv
    OBVIOUS
  <1>1. WatchTypeOK
    BY SourceWatchAssumption DEF WatchInit, WatchTypeOK, Days
  <1>2. StoredJustified
    BY DriftIsAProposal DEF WatchInit, StoredJustified
  <1>3. HeldJustified /\ NothingAhead
    BY DEF WatchInit, HeldJustified, NothingAhead
  <1> QED
    BY <1>1, <1>2, <1>3 DEF WatchInv

LEMMA NewDayStep == WatchInv /\ NewDay => WatchInv'
  <1> SUFFICES ASSUME WatchInv, NewDay PROVE WatchInv'
    OBVIOUS
  <1> USE DEF WatchInv, NewDay, samples, policy, repairs
  <1>1. WatchTypeOK'
    <2>1. day' \in Days
      BY SourceWatchAssumption DEF WatchTypeOK, Days
    <2> QED
      BY <2>1 DEF WatchTypeOK
  <1>2. StoredJustified' /\ HeldJustified'
    BY DEF StoredJustified, HeldJustified, Justified
  <1>3. NothingAhead'
    BY SourceWatchAssumption DEF NothingAhead, WatchTypeOK, Days
  <1> QED
    BY <1>1, <1>2, <1>3

\* A complete answer of today makes nothing raised before today a false alarm.
LEMMA AssessStep ==
  ASSUME WatchInv, NEW o \in Observers, NEW complete \in BOOLEAN,
         Assess(o, complete)
  PROVE  WatchInv'
  <1> USE DEF WatchInv
  <1>1. UNCHANGED <<day, policy, marked, ledger, repairs, run>>
    BY DEF Assess
  <1>2. fresh' \in [Observers -> Days \cup {Never}] /\ tried' \subseteq Observers
    BY DEF Assess, WatchTypeOK
  <1>3. \A u \in Observers : fresh'[u] = fresh[u] \/ fresh'[u] = day
    BY DEF Assess, WatchTypeOK
  <1>4. ASSUME NEW u \in Observers, NEW raised \in Nat, raised <= day,
               Justified(u, raised)
        PROVE  Justified(u, raised)'
    BY <1>1, <1>3, <1>4 DEF Justified, WatchTypeOK, Days
  <1>5. WatchTypeOK'
    BY <1>1, <1>2 DEF WatchTypeOK, policy, repairs
  <1>6. StoredJustified'
    <2> SUFFICES ASSUME NEW u \in Observers,
                        proposal[<<"source_drifted", u>>] # "none"
                 PROVE  Justified(u, raisedAt[<<"source_drifted", u>>])'
      BY <1>1 DEF StoredJustified, repairs
    <2> DEFINE r == <<"source_drifted", u>>
    <2>1. r \in Proposals
      BY DriftIsAProposal
    <2>2. raisedAt[r] \in Nat /\ raisedAt[r] <= day /\ raisedAt' = raisedAt
      BY <1>1, <2>1 DEF WatchTypeOK, NothingAhead, Days, repairs
    <2>3. Justified(u, raisedAt[r])
      BY DEF StoredJustified
    <2> QED
      BY <1>4, <2>2, <2>3
  <1>7. HeldJustified'
    <2> SUFFICES ASSUME NEW p \in Runs, NEW u \in Observers, run[p] # NoRun,
                        <<"source_drifted", u>> \in run[p].news
                 PROVE  Justified(u, run[p].at)'
      BY <1>1 DEF HeldJustified
    <2>1. run[p].at \in Nat /\ run[p].at <= day /\ run' = run
      BY <1>1 DEF WatchTypeOK, NothingAhead, Days
    <2>2. Justified(u, run[p].at)
      BY DEF HeldJustified
    <2> QED
      BY <1>4, <2>1, <2>2
  <1>8. NothingAhead'
    BY <1>1 DEF NothingAhead, repairs
  <1> QED
    BY <1>5, <1>6, <1>7, <1>8

LEMMA ReconcileStep ==
  ASSUME WatchInv, NEW p \in Runs, Reconcile(p)
  PROVE  WatchInv'
  <1> USE DEF WatchInv
  <1>1. CASE ReconcileReads(p)
    <2> DEFINE news == {r \in Found : proposal[r] = "none"}
               held == [at |-> day, news |-> news]
    <2>1. /\ UNCHANGED <<day, samples, policy, marked, ledger, repairs>>
          /\ run' = [run EXCEPT ![p] = held]
      BY <1>1 DEF ReconcileReads
    <2>2. news \in SUBSET Proposals
      BY DEF Found, Proposals, WatchTypeOK
    <2>3. held \in [at : Days, news : SUBSET Proposals]
      BY <2>2 DEF WatchTypeOK
    <2>4. ASSUME NEW o \in Observers, <<"source_drifted", o>> \in news
          PROVE  Justified(o, day)
      <3>1. DegradationAction(o, {}) # "ok"
        BY <2>4 DEF Found
      <3>2. Silent(o)
        BY <3>1 DEF DegradationAction, LedgerDegraded
      <3> QED
        BY <3>2 DEF Silent, Justified
    <2>5. WatchTypeOK'
      BY <2>1, <2>3 DEF WatchTypeOK, samples, policy, repairs
    <2>6. StoredJustified'
      BY <2>1 DEF StoredJustified, Justified, samples, repairs
    <2>7. HeldJustified'
      <3> SUFFICES ASSUME NEW q \in Runs, NEW o \in Observers, run'[q] # NoRun,
                          <<"source_drifted", o>> \in run'[q].news
                   PROVE  Justified(o, run[q].at)'
        BY DEF HeldJustified
      <3>1. CASE q = p
        <4>1. run'[q] = held
          BY <2>1, <3>1 DEF WatchTypeOK
        <4>2. run'[q].at = day /\ <<"source_drifted", o>> \in news
          BY <4>1
        <4> QED
          BY <2>1, <2>4, <4>2 DEF Justified, samples
      <3>2. CASE q # p
        BY <2>1, <3>2 DEF WatchTypeOK, HeldJustified, Justified, samples
      <3> QED
        BY <3>1, <3>2
    <2>8. NothingAhead'
      <3>1. \A q \in Runs : run'[q] = held \/ run'[q] = run[q]
        BY <2>1 DEF WatchTypeOK
      <3>2. held.at <= day
        BY SourceWatchAssumption DEF WatchTypeOK, Days
      <3> HIDE DEF held
      <3> QED
        BY <2>1, <3>1, <3>2 DEF NothingAhead, repairs
    <2> QED
      BY <2>5, <2>6, <2>7, <2>8
  <1>2. CASE ReconcileWrites(p)
    <2> DEFINE news == run[p].news
               at == run[p].at
    <2>1. /\ UNCHANGED <<day, samples, policy, marked, ledger>>
          /\ run[p] # NoRun
          /\ proposal' = [r \in Proposals |->
                            IF r \in news THEN "open" ELSE proposal[r]]
          /\ raisedAt' = [r \in Proposals |->
                            IF r \in news THEN at ELSE raisedAt[r]]
          /\ run' = [run EXCEPT ![p] = NoRun]
      BY <1>2 DEF ReconcileWrites
    <2>2. at \in Days /\ at <= day /\ at # Never
      BY <2>1, SourceWatchAssumption DEF WatchTypeOK, NothingAhead, Days
    <2>3. WatchTypeOK'
      <3>1. proposal' \in [Proposals -> {"none", "open", "applied", "dismissed"}]
        BY <2>1 DEF WatchTypeOK
      <3>2. raisedAt' \in [Proposals -> Days \cup {Never}]
        BY <2>1, <2>2 DEF WatchTypeOK
      <3>3. \A r \in Proposals : proposal'[r] = "none" <=> raisedAt'[r] = Never
        BY <2>1, <2>2 DEF WatchTypeOK
      <3> QED
        BY <2>1, <3>1, <3>2, <3>3 DEF WatchTypeOK, samples, policy
    <2>4. StoredJustified'
      <3> SUFFICES ASSUME NEW o \in Observers,
                          proposal'[<<"source_drifted", o>>] # "none"
                   PROVE  Justified(o, raisedAt[<<"source_drifted", o>>])'
        BY DEF StoredJustified
      <3> DEFINE r == <<"source_drifted", o>>
      <3>1. r \in Proposals
        BY DriftIsAProposal
      <3>2. CASE r \in news
        <4>1. Justified(o, at) /\ raisedAt'[r] = at
          BY <2>1, <3>1, <3>2 DEF HeldJustified
        <4> QED
          BY <2>1, <4>1 DEF Justified, samples
      <3>3. CASE r \notin news
        <4>1. Justified(o, raisedAt[r]) /\ raisedAt'[r] = raisedAt[r]
          BY <2>1, <3>1, <3>3 DEF StoredJustified
        <4> QED
          BY <2>1, <4>1 DEF Justified, samples
      <3> QED
        BY <3>2, <3>3
    <2>5. HeldJustified'
      BY <2>1 DEF WatchTypeOK, HeldJustified, Justified, samples
    <2>6. NothingAhead'
      BY <2>1, <2>2 DEF WatchTypeOK, NothingAhead
    <2> QED
      BY <2>3, <2>4, <2>5, <2>6
  <1>3. CASE ReconcileDies(p)
    BY <1>3 DEF ReconcileDies, WatchTypeOK, StoredJustified, HeldJustified,
      NothingAhead, Justified, samples, policy, repairs
  <1> QED
    BY <1>1, <1>2, <1>3 DEF Reconcile

LEMMA OperateStep == WatchInv /\ Operate => WatchInv'
  <1> SUFFICES ASSUME WatchInv, Operate PROVE WatchInv'
    OBVIOUS
  <1> USE DEF WatchInv
  <1>1. ASSUME NEW r \in Proposals, NEW decision \in {"applied", "dismissed"},
               Settle(r, decision)
        PROVE  WatchInv'
    <2>1. UNCHANGED <<day, samples, policy, marked, ledger, raisedAt, run>>
      BY <1>1 DEF Settle
    <2>2. \A q \in Proposals : proposal'[q] # "none" <=> proposal[q] # "none"
      BY <1>1 DEF Settle, WatchTypeOK
    <2>3. proposal' \in [Proposals -> {"none", "open", "applied", "dismissed"}]
      BY <1>1 DEF Settle, WatchTypeOK
    <2>4. WatchTypeOK'
      BY <2>1, <2>2, <2>3 DEF WatchTypeOK, samples, policy
    <2>5. StoredJustified'
      BY <2>1, <2>2, DriftIsAProposal DEF StoredJustified, Justified, samples
    <2>6. HeldJustified' /\ NothingAhead'
      BY <2>1 DEF HeldJustified, NothingAhead, Justified, samples
    <2> QED
      BY <2>4, <2>5, <2>6
  <1>2. ASSUME UNCHANGED <<day, samples, repairs, run>>,
               authorised' \subseteq Observers, dated' \in Days,
               marked' \subseteq Observers, ledger' \subseteq Events
        PROVE  WatchInv'
    BY <1>2 DEF WatchTypeOK, StoredJustified, HeldJustified, NothingAhead,
      Justified, samples, repairs
  <1>3. ASSUME NEW o \in Observers, Distrust(o) PROVE WatchInv'
    BY <1>2, <1>3 DEF Distrust, WatchTypeOK, policy
  <1>4. ASSUME NEW observers \in SUBSET Observers, EditPolicy(observers)
        PROVE  WatchInv'
    BY <1>2, <1>4 DEF EditPolicy, WatchTypeOK
  <1>5. ASSUME NEW e \in Events, RecordEvent(e) PROVE WatchInv'
    BY <1>2, <1>5 DEF RecordEvent, WatchTypeOK, policy
  <1> QED
    BY <1>1, <1>3, <1>4, <1>5 DEF Operate

LEMMA WatchInvHolds == WatchSpec => []WatchInv
  <1>1. WatchInv /\ UNCHANGED watchVars => WatchInv'
    BY DEF WatchInv, watchVars, WatchTypeOK, StoredJustified, HeldJustified,
      NothingAhead, Justified, samples, policy, repairs
  <1>2. WatchInv /\ [WatchNext]_watchVars => WatchInv'
    BY <1>1, NewDayStep, AssessStep, ReconcileStep, OperateStep DEF WatchNext
  <1> QED
    BY WatchInitInvariant, <1>2, PTL DEF WatchSpec

\* Samples, policy, ledger, proposals and running sweeps keep their types, and
\* every stored proposal has the day it was raised (health.py, policy.py,
\* repair.py).
THEOREM WatchTypeCorrect == WatchSpec => []WatchTypeOK
  <1>1. WatchInv => WatchTypeOK
    BY DEF WatchInv
  <1> QED
    BY <1>1, WatchInvHolds, PTL

\* However many runs of the sweep overlap, whatever they held while the source
\* was asked again, a source is proposed for re-evaluation only as of a day on
\* which it had been silent beyond its window (reconcile,
\* upsert_repair_proposal, record_sample).
THEOREM AlarmsAreTrue == WatchSpec => []NoFalseAlarm
  <1>1. WatchInv => NoFalseAlarm
    BY DEF WatchInv, StoredJustified, Justified, NoFalseAlarm
  <1> QED
    BY <1>1, WatchInvHolds, PTL
=============================================================================
