----------------------------- MODULE Vocabulary -----------------------------
(***************************************************************************)
(* The glossary, the monitor that notices new words and the register of    *)
(* candidate sources: the machine notices, a human decides to trust.       *)
(* posture/glossary.py, vocab_monitor.py and discovery.py over store.py.   *)
(*                                                                         *)
(* A sweep (the monitor's structured scan, or the horizon scan) reads what *)
(* is there, and only its first insert opens the transaction that ends in  *)
(* its commit: between the two steps another process may commit.  The      *)
(* commands of the operator are one step each, and so is the emergent scan *)
(* of an assessment, whose health sample has opened the transaction.       *)
(***************************************************************************)
EXTENDS FiniteSets

CONSTANTS
  Terms,
  Seeds,    \* terms the glossary is seeded with, as known
  Formats,  \* the standard formats the structured scan looks for
  Sources,  \* the aggregators the horizon scan looks for
  Sweeps,   \* processes that may run a sweep at the same time
  NoTerm, NoTask

ASSUME VocabularyAssumption ==
  /\ Seeds \subseteq Terms
  /\ Formats \subseteq Terms
  /\ NoTerm \notin Terms

VARIABLES
  status,     \* glossary: [Terms -> TermStatus]
  successor,  \* glossary: [Terms -> Terms or NoTerm]
  change,     \* term_changes: the last action recorded of a term
  candidate,  \* candidates: [Sources -> Review]
  sweep       \* [Sweeps -> what the sweep is about to write, or NoTask]

glossary == <<status, successor, change>>
vars == <<glossary, candidate, sweep>>

TermStatus == {"absent", "candidate", "known", "deprecated"}
Review == {"absent", "review", "adopted", "rejected"}
Changes == {"none", "add", "promote", "deprecate"}
Tasks == [task : {"monitor"}, news : SUBSET Formats]
           \cup [task : {"discover"}, news : SUBSET Sources]

Absent(t) == status[t] = "absent"

-----------------------------------------------------------------------------
(* Seeding and the emergent path.                                          *)

\* Mutant: the seed is written over what is there.
SeedAll ==
  /\ status' = [t \in Terms |-> IF t \in Seeds THEN "known" ELSE status[t]]
  /\ UNCHANGED <<successor, change, candidate, sweep>>

\* ensure_seeded, the first step of every command: seeds without a row are
\* inserted as known; no change is recorded.
EnsureSeeded ==
  /\ status' = [t \in Terms |-> IF t \in Seeds /\ Absent(t)
                                THEN "known" ELSE status[t]]
  /\ UNCHANGED <<successor, change, candidate, sweep>>

Seeded == \A t \in Seeds : ~Absent(t)

\* add_term: the row is inserted or replaced as a candidate with no successor,
\* and the addition is recorded.
Added(new) ==
  /\ status' = [t \in Terms |-> IF t \in new THEN "candidate" ELSE status[t]]
  /\ successor' = [t \in Terms |-> IF t \in new THEN NoTerm ELSE successor[t]]
  /\ change' = [t \in Terms |-> IF t \in new THEN "add" ELSE change[t]]

\* scan_emergent: an observer's key kind that has no row becomes a candidate.
ScanEmergent(t) ==
  /\ Seeded
  /\ Absent(t)
  /\ Added({t})
  /\ UNCHANGED <<candidate, sweep>>

-----------------------------------------------------------------------------
(* The sweeps.                                                             *)

Begins(p, task, news) ==
  /\ Seeded
  /\ sweep[p] = NoTask
  /\ sweep' = [sweep EXCEPT ![p] = [task |-> task, news |-> news]]
  /\ UNCHANGED <<glossary, candidate>>

Doing(p, task) == sweep[p] # NoTask /\ sweep[p].task = task

Done(p) == sweep' = [sweep EXCEPT ![p] = NoTask]

\* scan_structured: the standard formats that have no row.
MonitorReads(p) == Begins(p, "monitor", {t \in Formats : Absent(t)})

MonitorWrites(p) ==
  /\ Doing(p, "monitor")
  /\ Added(sweep[p].news)
  /\ Done(p)
  /\ UNCHANGED candidate

\* horizon_scan: the aggregators whose url is not recorded, whatever was
\* decided about them.
DiscoverReads(p) ==
  Begins(p, "discover", {u \in Sources : candidate[u] = "absent"})

\* Mutant: a source that is there already is reset for review.
RegisteredAnew(news) ==
  candidate' = [u \in Sources |-> IF u \in news THEN "review" ELSE candidate[u]]

\* add_candidate: on a conflict the decision is preserved.
Registered(news) ==
  candidate' = [u \in Sources |->
                  IF u \in news /\ candidate[u] = "absent"
                  THEN "review" ELSE candidate[u]]

DiscoverWrites(p) ==
  /\ Doing(p, "discover")
  /\ Registered(sweep[p].news)
  /\ Done(p)
  /\ UNCHANGED glossary

\* The process dies: its transaction, if it had one, is rolled back.
SweepDies(p) ==
  /\ sweep[p] # NoTask
  /\ Done(p)
  /\ UNCHANGED <<glossary, candidate>>

-----------------------------------------------------------------------------
(* The operator.                                                           *)

AddTerm(t) ==
  /\ Seeded
  /\ Added({t})
  /\ UNCHANGED <<candidate, sweep>>

\* promote_term: unknown and deprecated terms are refused.
PromoteTerm(t) ==
  /\ Seeded
  /\ status[t] \in {"candidate", "known"}
  /\ status' = [status EXCEPT ![t] = "known"]
  /\ change' = [change EXCEPT ![t] = "promote"]
  /\ UNCHANGED <<successor, candidate, sweep>>

\* deprecate_term: both terms must have a row.
DeprecateTerm(t, s) ==
  /\ Seeded
  /\ ~Absent(t) /\ ~Absent(s)
  /\ status' = [status EXCEPT ![t] = "deprecated"]
  /\ successor' = [successor EXCEPT ![t] = s]
  /\ change' = [change EXCEPT ![t] = "deprecate"]
  /\ UNCHANGED <<candidate, sweep>>

\* set_candidate_status.
ReviewSource(u, decision) ==
  /\ candidate[u] # "absent"
  /\ candidate' = [candidate EXCEPT ![u] = decision]
  /\ UNCHANGED <<glossary, sweep>>

-----------------------------------------------------------------------------

Init ==
  /\ status = [t \in Terms |-> "absent"]
  /\ successor = [t \in Terms |-> NoTerm]
  /\ change = [t \in Terms |-> "none"]
  /\ candidate = [u \in Sources |-> "absent"]
  /\ sweep = [p \in Sweeps |-> NoTask]

Sweep(p) ==
  \/ MonitorReads(p)
  \/ MonitorWrites(p)
  \/ DiscoverReads(p)
  \/ DiscoverWrites(p)
  \/ SweepDies(p)

Operator ==
  \/ \E t \in Terms : AddTerm(t) \/ PromoteTerm(t)
  \/ \E t, s \in Terms : DeprecateTerm(t, s)
  \/ \E u \in Sources, decision \in Review \ {"absent"} :
       ReviewSource(u, decision)

Next ==
  \/ EnsureSeeded
  \/ \E t \in Terms : ScanEmergent(t)
  \/ \E p \in Sweeps : Sweep(p)
  \/ Operator

Spec == Init /\ [][Next]_vars

-----------------------------------------------------------------------------
(* Properties.                                                             *)

\* Types; a sweep holds words of its own kind (discovery.py:55-131).
TypeOK ==
  /\ status \in [Terms -> TermStatus]
  /\ successor \in [Terms -> Terms \cup {NoTerm}]
  /\ change \in [Terms -> Changes]
  /\ candidate \in [Sources -> Review]
  /\ sweep \in [Sweeps -> Tasks \cup {NoTask}]

\* However scans, seedings and the operator's commands interleave, what is
\* trusted today is what the record says: a term is known only as an untouched
\* seed or by a recorded promotion that nothing has undone since, and a
\* deprecated one names a successor (glossary.py:21-26, "Promoting ...
\* deprecating ... are HUMAN - each ... recorded").
TrustIsRecorded ==
  \A t \in Terms :
    /\ status[t] = "known"
         => change[t] = "promote" \/ (t \in Seeds /\ change[t] = "none")
    /\ status[t] = "candidate" <=> change[t] = "add"
    /\ status[t] = "deprecated" <=> change[t] = "deprecate"
    /\ status[t] = "deprecated" => successor[t] \in Terms

\* A source once adopted or rejected never comes back for review by itself,
\* even when two scans had both found it new (store.py:866-869, "a human's
\* adopted/rejected review decision is never wiped by a re-scan").
ReviewsStick ==
  [][\A u \in Sources : candidate[u] \in {"adopted", "rejected"}
       => candidate'[u] = candidate[u] \/ sweep' = sweep]_vars

(* What the documentation says and the code does not do.                   *)

\* vocab_monitor.py:18-20: a scan only proposes; what the operator has decided
\* about a term stands until the operator decides again.
ScansDecideNothing ==
  [][sweep' # sweep => \A t \in Terms : Absent(t) \/ status'[t] = status[t]]_vars
=============================================================================
