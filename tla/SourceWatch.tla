----------------------------- MODULE SourceWatch -----------------------------
(***************************************************************************)
(* Watching the sources: health samples, the trust policy, the ledger of   *)
(* upstream events and the repair proposals of the reconcile sweep.        *)
(* posture/health.py, policy.py, source_history.py and repair.py over      *)
(* store.py.                                                               *)
(*                                                                         *)
(* Time is counted in days.  An observer that raises leaves no sample      *)
(* (engine.py:264-266 returns before the sample is recorded): that is a    *)
(* step of the program and no step here.                                   *)
(***************************************************************************)
EXTENDS Naturals

CONSTANTS
  Observers,
  Window,      \* [Observers -> Nat]: if_silent_for_days, 0 without a rule
  Fallback,    \* observers whose degradation rule names a fallback
  ReviewDays,  \* STALE_POLICY_DAYS
  Events,      \* upstream events the ledger file may come to hold
  Runs,        \* processes that may run the reconcile sweep at the same time
  Never, NoRun,
  MaxDay       \* bound: days the model follows

ASSUME SourceWatchAssumption ==
  /\ Window \in [Observers -> Nat]
  /\ Fallback \subseteq Observers
  /\ ReviewDays \in Nat
  /\ MaxDay \in Nat
  /\ Never \notin Nat

VARIABLES
  day,
  fresh,       \* [Observers -> day of the last complete sample, or Never]
  tried,       \* observers with a sample
  authorised,  \* observers of the policy file
  dated,       \* the day the policy is dated
  marked,      \* observers with a distrust mark
  ledger,      \* events recorded in the source-history file
  proposal,    \* repair_proposals: [Proposals -> "none" or its status]
  raisedAt,    \* repair_proposals: the day a proposal was raised, or Never
  run          \* [Runs -> what the sweep is about to write, or NoRun]

samples == <<fresh, tried>>
policy == <<authorised, dated>>
repairs == <<proposal, raisedAt>>
watchVars == <<day, samples, policy, marked, ledger, repairs, run>>

Days == 0 .. MaxDay
Proposals ==
  ({"source_drifted", "orphan_distrusted"} \X Observers)
    \cup {<<"stale_policy">>}

-----------------------------------------------------------------------------
(* The decision.                                                           *)

\* observer_source_id and degradation_signal: an event carries the observer
\* its source stands for, and whether its type is one of the degrading two.
LedgerDegraded(o, events) ==
  \E e \in events : e.of = o /\ e.degrading /\ e.status = "active"

\* Mutant: the last day of the window already counts as silence.
SilentFromTheLastDay(o) ==
  /\ Window[o] > 0
  /\ IF fresh[o] = Never THEN o \in tried ELSE day - fresh[o] >= Window[o]

\* The measured half of degradation_action: without a rule, or never tried, an
\* observer is not silent.
Silent(o) ==
  /\ Window[o] > 0
  /\ IF fresh[o] = Never THEN o \in tried ELSE day - fresh[o] > Window[o]

\* degradation_action, from the events of the ledger it is given.
DegradationAction(o, events) ==
  IF ~LedgerDegraded(o, events) /\ ~Silent(o) THEN "ok"
  ELSE IF o \in Fallback THEN "fallback" ELSE "offline"

-----------------------------------------------------------------------------
(* Assessments, and what the operator edits.                               *)

NewDay ==
  /\ day < MaxDay
  /\ day' = day + 1
  /\ UNCHANGED <<samples, policy, marked, ledger, repairs, run>>

\* record_sample, for an observer that has answered, completely or not.
Assess(o, complete) ==
  /\ tried' = tried \cup {o}
  /\ fresh' = IF complete THEN [fresh EXCEPT ![o] = day] ELSE fresh
  /\ UNCHANGED <<day, policy, marked, ledger, repairs, run>>

\* posture distrust: provenance.distrust leaves a mark that nothing removes.
Distrust(o) ==
  /\ marked' = marked \cup {o}
  /\ UNCHANGED <<day, samples, policy, ledger, repairs, run>>

\* A new policy file, dated today, adds or removes an observer, or is only
\* re-evaluated.
EditPolicy(observers) ==
  /\ authorised' = observers
  /\ dated' = day
  /\ UNCHANGED <<day, samples, marked, ledger, repairs, run>>

\* EventLedger.add: a second event of the same id is refused.
RecordEvent(e) ==
  /\ \A f \in ledger : f.id # e.id
  /\ ledger' = ledger \cup {e}
  /\ UNCHANGED <<day, samples, policy, marked, repairs, run>>

-----------------------------------------------------------------------------
(* The reconcile sweep.  It reads, with no ledger, and its first insert     *)
(* opens the transaction that its commit ends.                             *)

\* Mutant: a source without a declared fallback is not worth a proposal.
FoundWithFallback ==
  {<<"source_drifted", o>> : o \in
     {u \in authorised : DegradationAction(u, {}) = "fallback"}}
    \cup (IF day - dated > ReviewDays THEN {<<"stale_policy">>} ELSE {})
    \cup {<<"orphan_distrusted", o>> : o \in authorised \cap marked}

\* What is wrong now, whether it was raised before or not.
Found ==
  {<<"source_drifted", o>> : o \in
     {u \in authorised : DegradationAction(u, {}) \in {"fallback", "offline"}}}
    \cup (IF day - dated > ReviewDays THEN {<<"stale_policy">>} ELSE {})
    \cup {<<"orphan_distrusted", o>> : o \in authorised \cap marked}

\* reconcile: nothing stored, whatever was decided about it, is raised again;
\* with nothing new the sweep writes nothing.
ReconcileReads(p) ==
  LET news == {r \in Found : proposal[r] = "none"} IN
  /\ run[p] = NoRun
  /\ news # {}
  /\ run' = [run EXCEPT ![p] = [at |-> day, news |-> news]]
  /\ UNCHANGED <<day, samples, policy, marked, ledger, repairs>>

\* upsert_repair_proposal: the row is inserted, or replaced, as open.
ReconcileWrites(p) ==
  /\ run[p] # NoRun
  /\ proposal' = [r \in Proposals |->
                    IF r \in run[p].news THEN "open" ELSE proposal[r]]
  /\ raisedAt' = [r \in Proposals |->
                    IF r \in run[p].news THEN run[p].at ELSE raisedAt[r]]
  /\ run' = [run EXCEPT ![p] = NoRun]
  /\ UNCHANGED <<day, samples, policy, marked, ledger>>

\* The sweep is killed; its transaction is rolled back.
ReconcileDies(p) ==
  /\ run[p] # NoRun
  /\ run' = [run EXCEPT ![p] = NoRun]
  /\ UNCHANGED <<day, samples, policy, marked, ledger, repairs>>

\* apply and dismiss: the decision is recorded, nothing else is done.
Settle(r, decision) ==
  /\ proposal[r] # "none"
  /\ proposal' = [proposal EXCEPT ![r] = decision]
  /\ UNCHANGED <<day, samples, policy, marked, ledger, raisedAt, run>>

-----------------------------------------------------------------------------

WatchInit ==
  /\ day = 0
  /\ fresh = [o \in Observers |-> Never]
  /\ tried = {}
  /\ authorised = Observers
  /\ dated = 0
  /\ marked = {}
  /\ ledger = {}
  /\ proposal = [r \in Proposals |-> "none"]
  /\ raisedAt = [r \in Proposals |-> Never]
  /\ run = [p \in Runs |-> NoRun]

Reconcile(p) ==
  \/ ReconcileReads(p)
  \/ ReconcileWrites(p)
  \/ ReconcileDies(p)

Operate ==
  \/ \E o \in Observers : Distrust(o)
  \/ \E observers \in SUBSET Observers : EditPolicy(observers)
  \/ \E e \in Events : RecordEvent(e)
  \/ \E r \in Proposals, decision \in {"applied", "dismissed"} :
       Settle(r, decision)

WatchNext ==
  \/ NewDay
  \/ \E o \in Observers, complete \in BOOLEAN : Assess(o, complete)
  \/ \E p \in Runs : Reconcile(p)
  \/ Operate

\* posture-reconcile.timer and the daily job start the sweep again and again,
\* and a sweep that is not killed commits: systemd and cron, not this code,
\* decide that infinitely many of them are not killed.
Fairness ==
  \A p \in Runs :
    WF_watchVars(ReconcileReads(p)) /\ SF_watchVars(ReconcileWrites(p))

WatchSpec == WatchInit /\ [][WatchNext]_watchVars /\ Fairness

-----------------------------------------------------------------------------
(* Properties.                                                             *)

\* Types; a stored proposal always carries the day it was raised on
\* (repair.py:52-116 over store.py:1066-1075).
WatchTypeOK ==
  /\ day \in Days
  /\ fresh \in [Observers -> Days \cup {Never}]
  /\ tried \subseteq Observers
  /\ authorised \subseteq Observers
  /\ dated \in Days
  /\ marked \subseteq Observers
  /\ ledger \subseteq Events
  /\ proposal \in [Proposals -> {"none", "open", "applied", "dismissed"}]
  /\ raisedAt \in [Proposals -> Days \cup {Never}]
  /\ \A r \in Proposals : proposal[r] = "none" <=> raisedAt[r] = Never
  /\ run \in [Runs -> [at : Days, news : SUBSET Proposals] \cup {NoRun}]

\* No false alarm: a source proposed for re-evaluation on some day had no
\* complete answer in the window before that day, however long the sweep took,
\* whatever it was asked meanwhile and however many sweeps ran
\* (health.py:115-131, repair.py:64-80).
NoFalseAlarm ==
  \A o \in Observers :
    LET r == <<"source_drifted", o>> IN
    (proposal[r] # "none" /\ fresh[o] # Never)
      => fresh[o] >= raisedAt[r] \/ raisedAt[r] - fresh[o] > Window[o]

\* What ought to be raised.
Wrong(r) ==
  \/ \E o \in authorised :
       \/ r = <<"source_drifted", o>> /\ DegradationAction(o, {}) # "ok"
       \/ r = <<"orphan_distrusted", o>> /\ o \in marked
  \/ r = <<"stale_policy">> /\ day > dated + ReviewDays

\* What has drifted does not stay unnoticed: an authorised source that stays
\* silent beyond its window, one that stays distrusted, and a policy that stays
\* stale are each stored as a proposal in the end (repair.py:10-15, "The system
\* ... raises").  One proposal is all a source ever gets: the next drift of a
\* source whose proposal was settled is not stored again.
Noticed == \A r \in Proposals : []<>(proposal[r] # "none" \/ ~Wrong(r))

(* What the documentation says and the code does not do.                   *)

\* repair.py:55-57: a sweep does not raise again what is stored already; what
\* the operator has settled while it ran stays settled.
RaisedOnce ==
  [][\A r \in Proposals : proposal[r] \in {"applied", "dismissed"}
       => proposal'[r] # "open"]_watchVars

\* source_history.py:311-312: the history is only appended to, and a later
\* event that supersedes an earlier one replaces it.
SupersededIsOver ==
  \A o \in Observers :
    LedgerDegraded(o, ledger) =>
      LedgerDegraded(o, {e \in ledger : \A f \in ledger : f.supersedes # e.id})
=============================================================================
