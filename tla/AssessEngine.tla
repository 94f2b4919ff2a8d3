---------------------------- MODULE AssessEngine ----------------------------
(***************************************************************************)
(* The assessment engine (posture/engine.py) over the verdict tables of    *)
(* the SQLite store (posture/store.py), with the two other writers of      *)
(* those tables: the incremental refresh (posture/refresh.py) and the      *)
(* operator's retroactive distrust (posture/cli.py).                       *)
(*                                                                         *)
(* One engine process assesses one device at a time: axis after axis it    *)
(* asks the observers in authority order, aggregates their verdicts by     *)
(* key, passes the result through the completeness gate and finally writes *)
(* the device's posture and commits.  Its writes sit in an open SQLite     *)
(* transaction (txn) which begins with the first health sample, excludes   *)
(* every other writer, and is lost if the process dies.                    *)
(***************************************************************************)
EXTENDS Naturals

CONSTANTS
  Devices,
  Axes,        \* the known axes of the glossary
  Keys,        \* verdict keys: CVE ids, ports, packages, ...
  Observers,   \* the registered observers
  Policy,      \* those the active policy names
  Speaks,      \* [Observers -> Axes], the axis an observer speaks to
  Order,       \* [Observers -> Nat], its policy order, lower is stronger
  IdRank,      \* [Observers -> Nat], the place of its id in id order
  Statuses,    \* verdict statuses
  Listed,      \* the statuses _BAD_BY_AXIS lists
  Dominance,   \* [Listed -> Nat], their place in that list, worst first
  Nvd,         \* the observer the refresh re-decides with
  Distrustable, \* the observers an operator may come to distrust
  Unknown, NoDevice, NoAxis, NoKey, NoOne, NoPosture, NoTxn

ASSUME ConstantsAssumption ==
  /\ Policy \subseteq Observers
  /\ Speaks \in [Observers -> Axes]
  /\ Order \in [Observers -> Nat]
  /\ IdRank \in [Observers -> Nat]
  /\ \A o, p \in Observers : IdRank[o] = IdRank[p] => o = p
  /\ Listed \subseteq Statuses
  /\ Dominance \in [Listed -> Nat]
  /\ \A s, t \in Listed : Dominance[s] = Dominance[t] => s = t
  /\ Nvd \in Observers
  /\ Distrustable \subseteq Observers

VARIABLES
  verdicts,  \* committed verdict rows: [Devices -> [Axes -> SUBSET Row]]
  posture,   \* committed device_posture: [Devices -> [Axes -> Posture]]
  marks,     \* distrust_marks: the observers marked distrusted
  txn,       \* the engine's open transaction: its device's rows, or NoTxn
  device,    \* the device under assessment, or NoDevice
  axesLeft,  \* axes still to assess
  axis,      \* axis being assessed, or NoAxis
  toAsk,     \* observers of the axis still to run
  found,     \* by_key: the findings so far, one per key
  first,     \* the key first inserted in by_key
  complete,  \* axis_complete
  results,   \* the AxisPostures computed so far
  fresh,     \* keys the running refresh tick has just enriched
  answered   \* history: who has answered which key on this axis

store == <<verdicts, posture, marks>>
axisRun == <<axis, toAsk, found, first, complete, answered>>
engine == <<txn, device, axesLeft, axisRun, results>>
vars == <<store, engine, fresh>>

Finding == [key : Keys, observer : Observers, status : Statuses]
Row == [key : Keys, observer : Observers, status : Statuses, flagged : BOOLEAN]
AxisPosture == [status : Statuses \cup {Unknown},
                decider : Observers \cup {NoOne},
                bias : Observers \cup {NoOne},
                gap : BOOLEAN]

AxisRows == [Axes -> SUBSET Row]

\* Every absent value differs from the values it stands beside.
ASSUME SentinelAssumption ==
  /\ Unknown \notin Statuses
  /\ NoDevice \notin Devices
  /\ NoAxis \notin Axes
  /\ NoKey \notin Keys
  /\ NoOne \notin Observers
  /\ NoPosture \notin AxisPosture
  /\ NoTxn \notin AxisRows

\* What one observer run may report: a status for some of the keys.
Answer == UNION {[K -> Statuses] : K \in SUBSET Keys}

\* ObserverRegistry.for_axis: who is asked about an axis, and in which order.
\* The strongest (lowest order) observer comes last; ids break ties.
ForAxis(a) == {o \in Policy : Speaks[o] = a}

\* Mutant: the strongest observer is asked first.
RunsBeforeAscending(o, p) ==
  \/ Order[o] < Order[p]
  \/ Order[o] = Order[p] /\ IdRank[o] < IdRank[p]

RunsBefore(o, p) ==
  \/ Order[o] > Order[p]
  \/ Order[o] = Order[p] /\ IdRank[o] < IdRank[p]

-----------------------------------------------------------------------------
(* The store's operations on the rows of one device and axis.              *)

\* Mutants: the gate without its completeness test, and without the empty one.
GateIgnoringCompleteness(old, new, whole) ==
  IF new = {} /\ old # {}
  THEN old
  ELSE {[key |-> f.key, observer |-> f.observer,
         status |-> f.status, flagged |-> FALSE] : f \in new}

GateIgnoringEmptiness(old, new, whole) ==
  IF ~whole
  THEN old
  ELSE {[key |-> f.key, observer |-> f.observer,
         status |-> f.status, flagged |-> FALSE] : f \in new}

\* commit_device_verdicts: nothing is touched unless the fetch was complete,
\* and a complete but empty fetch never replaces rows.  A swapped-in row is
\* inserted with the column default distrusted = 0.
CommitDeviceVerdicts(old, new, whole) ==
  IF ~whole \/ (new = {} /\ old # {})
  THEN old
  ELSE {[key |-> f.key, observer |-> f.observer,
         status |-> f.status, flagged |-> FALSE] : f \in new}

\* upsert_verdict for each (key, observer) of ups: a row that exists keeps its
\* distrust flag, every other row is left alone.
UpsertVerdicts(old, ups) ==
  LET touched == {r \in old : <<r.key, r.observer>> \in DOMAIN ups}
      added == {x \in DOMAIN ups :
                  \A r \in touched : <<r.key, r.observer>> # x}
  IN  (old \ touched)
        \cup {[r EXCEPT !.status = ups[<<r.key, r.observer>>]] : r \in touched}
        \cup {[key |-> x[1], observer |-> x[2],
               status |-> ups[x], flagged |-> FALSE] : x \in added}

\* The UPDATE of mark_distrust.
MarkRows(rows, o) ==
  {[r EXCEPT !.flagged = @ \/ r.observer = o] : r \in rows}

-----------------------------------------------------------------------------
(* The engine's reading of an axis.                                        *)

FindingOf(k) == CHOOSE f \in found : f.key = k

\* Mutant: the first verdict speaks for the axis.
FirstStatus == {FindingOf(first).status}

\* _axis_status: the worst listed status present, else the first verdict's.
AxisStatuses ==
  LET present == {f.status : f \in found} \cap Listed
  IN  IF present # {}
      THEN {s \in present : \A t \in present : Dominance[s] <= Dominance[t]}
      ELSE {FindingOf(first).status}

\* _deciding_observer_for_status: the first verdict, in insertion order,
\* bearing the axis status.  Beyond the first key that order is left open.
Deciders(s) ==
  IF FindingOf(first).status = s
  THEN {FindingOf(first).observer}
  ELSE {f.observer : f \in {g \in found : g.status = s}}

\* Mutant: the blank axis without its stated gap.
QuietBlankPosture == [status |-> Unknown, decider |-> NoOne, bias |-> NoOne,
                      gap |-> FALSE]

BlankPosture == [status |-> Unknown, decider |-> NoOne, bias |-> NoOne,
                 gap |-> TRUE]

\* The AxisPostures _assess_axis may return.  bias is deciding_bias of the
\* first key, whoever decides the status.
AxisPostures ==
  IF found = {}
  THEN {BlankPosture}
  ELSE UNION {{[status |-> s, decider |-> o,
                bias |-> FindingOf(first).observer, gap |-> ~complete]
                 : o \in Deciders(s)} : s \in AxisStatuses}

-----------------------------------------------------------------------------
(* The engine.                                                             *)

Idle == device = NoDevice

ResetAxis ==
  /\ axis' = NoAxis
  /\ toAsk' = {}
  /\ found' = {}
  /\ first' = NoKey
  /\ complete' = TRUE
  /\ answered' = {}

ResetEngine ==
  /\ txn' = NoTxn
  /\ device' = NoDevice
  /\ axesLeft' = {}
  /\ ResetAxis
  /\ results' = [a \in Axes |-> NoPosture]

\* assess(device, ...): start with every known axis.
StartAssess(d) ==
  /\ Idle
  /\ device' = d
  /\ axesLeft' = Axes
  /\ UNCHANGED <<store, txn, axisRun, results, fresh>>

\* _assess_axis, no observer for the axis: unknown, loud, not committed.
BlindAxis(a) ==
  /\ ~Idle
  /\ axis = NoAxis
  /\ a \in axesLeft
  /\ ForAxis(a) = {}
  /\ results' = [results EXCEPT ![a] = BlankPosture]
  /\ axesLeft' = axesLeft \ {a}
  /\ UNCHANGED <<store, txn, device, axisRun, fresh>>

\* _assess_axis, with observers.
StartAxis(a) ==
  /\ ~Idle
  /\ axis = NoAxis
  /\ a \in axesLeft
  /\ ForAxis(a) # {}
  /\ axis' = a
  /\ axesLeft' = axesLeft \ {a}
  /\ toAsk' = ForAxis(a)
  /\ UNCHANGED <<store, txn, device, found, first, complete, answered,
                 results, fresh>>

\* The next observer in the order of ObserverRegistry.for_axis.
NextToAsk(o) ==
  /\ o \in toAsk
  /\ \A p \in toAsk \ {o} : RunsBefore(o, p)

\* _run_observer returned: the health sample opens the transaction if it is
\* not open yet, and the verdicts override earlier ones on the same key.
Observe(o, ans, whole) ==
  /\ ~Idle
  /\ NextToAsk(o)
  /\ toAsk' = toAsk \ {o}
  /\ txn' = IF txn = NoTxn THEN verdicts[device] ELSE txn
  /\ complete' = (complete /\ whole)
  /\ found' = {f \in found : f.key \notin DOMAIN ans}
                \cup {[key |-> k, observer |-> o, status |-> ans[k]]
                        : k \in DOMAIN ans}
  /\ first' \in IF first = NoKey /\ DOMAIN ans # {} THEN DOMAIN ans
                                                    ELSE {first}
  /\ answered' = answered \cup {<<o, k>> : k \in DOMAIN ans}
  /\ UNCHANGED <<store, device, axesLeft, axis, results, fresh>>

\* _run_observer caught an exception: no verdicts, incomplete, no sample.
ObserverCrashes(o) ==
  /\ ~Idle
  /\ NextToAsk(o)
  /\ toAsk' = toAsk \ {o}
  /\ complete' = FALSE
  /\ UNCHANGED <<store, txn, device, axesLeft, axis, found, first, answered,
                 results, fresh>>

\* Steps 4 and 5 of _assess_axis: posture of the axis, then the gate.
FinishAxis ==
  /\ ~Idle
  /\ axis # NoAxis
  /\ toAsk = {}
  /\ \E p \in AxisPostures : results' = [results EXCEPT ![axis] = p]
  /\ txn' = IF txn = NoTxn
            THEN txn
            ELSE [txn EXCEPT ![axis] =
                    CommitDeviceVerdicts(txn[axis], found, complete)]
  /\ ResetAxis
  /\ UNCHANGED <<store, device, axesLeft, fresh>>

\* assess upserts every axis posture and commits.
CommitAssess(d) ==
  /\ device = d
  /\ axis = NoAxis
  /\ axesLeft = {}
  /\ verdicts' = IF txn = NoTxn THEN verdicts
                                ELSE [verdicts EXCEPT ![d] = txn]
  /\ posture' = [posture EXCEPT ![d] = results]
  /\ ResetEngine
  /\ UNCHANGED <<marks, fresh>>

\* The process dies, or SQLite answers "database is locked": rolled back.
AbortAssess ==
  /\ ~Idle
  /\ ResetEngine
  /\ UNCHANGED <<store, fresh>>

-----------------------------------------------------------------------------
(* The other writers.  They wait while the engine's transaction is open.   *)

Upserts(keys, observers) ==
  UNION {[X -> Statuses] : X \in SUBSET (keys \X observers)}

Revised(decided) ==
  [d \in Devices |->
    [verdicts[d] EXCEPT ![Speaks[Nvd]] = UpsertVerdicts(@, decided[d])]]

\* refresh_tick, enrichment and re-decision: each device whose CPE an enriched
\* CVE touches gets the NVD verdict upserted, in one commit.
RefreshNvd(enriched, decided) ==
  /\ txn = NoTxn
  /\ fresh = {}
  /\ enriched # {}
  /\ decided \in [Devices -> Upserts(enriched, {Nvd})]
  /\ verdicts' = Revised(decided)
  /\ fresh' = enriched
  /\ UNCHANGED <<posture, marks, engine>>

\* refresh_tick, vendor pass: every other registered observer of the axis, in
\* the policy or not, upserts what it says of the enriched keys; one that
\* fails or is silent contributes nothing.
RefreshVendors(decided) ==
  /\ txn = NoTxn
  /\ fresh # {}
  /\ LET vendors == {o \in Observers \ {Nvd} : Speaks[o] = Speaks[Nvd]}
     IN  decided \in [Devices -> Upserts(fresh, vendors)]
  /\ verdicts' = Revised(decided)
  /\ fresh' = {}
  /\ UNCHANGED <<posture, marks, engine>>

\* The process dies between the two commits.
RefreshDies ==
  /\ fresh # {}
  /\ fresh' = {}
  /\ UNCHANGED <<store, engine>>

\* posture distrust <observer>.
Distrust(o) ==
  /\ txn = NoTxn
  /\ verdicts' = [d \in Devices |->
                   [a \in Axes |-> MarkRows(verdicts[d][a], o)]]
  /\ marks' = marks \cup {o}
  /\ UNCHANGED <<posture, engine, fresh>>

-----------------------------------------------------------------------------

Init ==
  /\ verdicts = [d \in Devices |-> [a \in Axes |-> {}]]
  /\ posture = [d \in Devices |-> [a \in Axes |-> NoPosture]]
  /\ marks = {}
  /\ txn = NoTxn
  /\ device = NoDevice
  /\ axesLeft = {}
  /\ axis = NoAxis
  /\ toAsk = {}
  /\ found = {}
  /\ first = NoKey
  /\ complete = TRUE
  /\ results = [a \in Axes |-> NoPosture]
  /\ fresh = {}
  /\ answered = {}

Engine ==
  \/ \E d \in Devices : StartAssess(d)
  \/ \E a \in Axes : BlindAxis(a) \/ StartAxis(a)
  \/ \E o \in Observers, ans \in Answer, whole \in BOOLEAN :
       Observe(o, ans, whole)
  \/ \E o \in Observers : ObserverCrashes(o)
  \/ FinishAxis
  \/ \E d \in Devices : CommitAssess(d)
  \/ AbortAssess

Refresh ==
  \/ \E enriched \in SUBSET Keys :
       \E decided \in [Devices -> Upserts(enriched, {Nvd})] :
         RefreshNvd(enriched, decided)
  \/ \E decided \in [Devices -> Upserts(fresh, Observers \ {Nvd})] :
       RefreshVendors(decided)
  \/ RefreshDies

Next == Engine \/ Refresh \/ \E o \in Distrustable : Distrust(o)

Spec == Init /\ [][Next]_vars
-----------------------------------------------------------------------------
(* Properties.                                                             *)

\* Types.  The engine (engine.py:121-254) works on one known axis of one known
\* device, and a transaction is open only while it does.
TypeOK ==
  /\ verdicts \in [Devices -> AxisRows]
  /\ posture \in [Devices -> [Axes -> AxisPosture \cup {NoPosture}]]
  /\ marks \subseteq Observers
  /\ txn \in AxisRows \cup {NoTxn}
  /\ device \in Devices \cup {NoDevice}
  /\ Idle => txn = NoTxn /\ axis = NoAxis
  /\ axesLeft \subseteq Axes
  /\ axis \in Axes \cup {NoAxis}
  /\ toAsk \subseteq Observers
  /\ found \subseteq Finding
  /\ first \in Keys \cup {NoKey}
  /\ complete \in BOOLEAN
  /\ results \in [Axes -> AxisPosture \cup {NoPosture}]
  /\ fresh \subseteq Keys
  /\ answered \subseteq Observers \X Keys

\* The verdict kept for a key is that of the strongest observer that gave
\* one, whatever the order of the answers (engine.py:191-217, "the
\* lowest-order observer runs LAST and overrides the others"), and every key
\* answered for is kept.
Authority ==
  /\ \A x \in answered : \E f \in found : f.key = x[2]
  /\ \A f \in found :
       /\ <<f.observer, f.key>> \in answered
       /\ \A o \in Observers :
            <<o, f.key>> \in answered => Order[f.observer] <= Order[o]

\* A device's axes show a posture without a stated gap only on top of stored
\* verdicts: "0 unpatched" is never reported as clean (engine.py:18-23).
NoSilentClean ==
  \A d \in Devices, a \in Axes :
    posture[d][a] # NoPosture /\ ~posture[d][a].gap
      => posture[d][a].status # Unknown /\ verdicts[d][a] # {}

\* A device is assessed on all its axes or on none: a run that dies half way
\* leaves no mixture of old and new axes (the single commit, engine.py:154-160).
AllAxesOrNone ==
  \A d \in Devices, a, b \in Axes :
    posture[d][a] = NoPosture => posture[d][b] = NoPosture

Lost(old, new) ==
  \E r \in old : \A s \in new : r.key # s.key \/ r.observer # s.observer

\* A verdict disappears only in a step that leaves its axis non-empty and with
\* a posture that names no gap: every observer of the axis had run and was
\* complete (the deletion gate, store.py:607-632).
LossOnlyByCompleteFetch ==
  [][\A d \in Devices, a \in Axes :
       Lost(verdicts[d][a], verdicts'[d][a])
         => /\ verdicts'[d][a] # {}
            /\ posture'[d][a] # NoPosture
            /\ ~posture'[d][a].gap]_store

\* A posture written without a gap states the worst status of the very rows
\* stored beside it, and the deciding observer has a row that says so: posture
\* and verdicts of one run become visible together (engine.py:236-254).
PostureMatchesRows ==
  [][\A d \in Devices, a \in Axes :
       LET p == posture'[d][a]
           rows == verdicts'[d][a]
       IN  p # posture[d][a] /\ ~p.gap
             => /\ \E r \in rows : r.status = p.status /\ r.observer = p.decider
                /\ \A r \in rows :
                     r.status \in Listed
                       => /\ p.status \in Listed
                          /\ Dominance[p.status] <= Dominance[r.status]]_store

\* The verdict tables change only as the no-wipe contract allows.
Contract == INSTANCE NoWipe WITH
  Devices <- Devices, Axes <- Axes, Observers <- Observers,
  verdicts <- verdicts, marks <- marks

KeepsContract == Contract!Spec

(* What the documentation says and the code does not do.                   *)

\* README.md:275-277: "everything that rested on it is visibly flagged from
\* that point on".  A flag, once set, stays on the verdict it was set on.
DistrustIsLasting ==
  [][\A d \in Devices, a \in Axes :
       \A r \in verdicts[d][a], s \in verdicts'[d][a] :
         r.key = s.key /\ r.observer = s.observer /\ r.flagged
           => s.flagged]_store

\* tests/test_engine.py:99: the bias recorded is the deciding observer's.
BiasOfDecider ==
  \A d \in Devices, a \in Axes :
    posture[d][a] # NoPosture => posture[d][a].bias = posture[d][a].decider
=============================================================================
