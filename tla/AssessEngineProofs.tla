------------------------- MODULE AssessEngineProofs -------------------------
(* Proofs about AssessEngine, for every set of devices, axes, observers     *)
(* and keys, and every policy order.                                        *)
EXTENDS AssessEngine, TLAPS

-----------------------------------------------------------------------------
(* Lemmas on the operators the actions are built from.                      *)

\* A partial answer is a function into Statuses over some of the keys.
LEMMA AnswerType ==
  ASSUME NEW ans \in Answer
  PROVE  /\ DOMAIN ans \subseteq Keys
         /\ \A k \in DOMAIN ans : ans[k] \in Statuses
BY DEF Answer

LEMMA UpsertsType ==
  ASSUME NEW K, NEW O, NEW ups \in Upserts(K, O)
  PROVE  /\ DOMAIN ups \subseteq K \X O
         /\ \A x \in DOMAIN ups : ups[x] \in Statuses
BY DEF Upserts

\* The gate yields rows, and none of them only if there were none and none
\* came (store.py:598-652).
LEMMA GateRows ==
  ASSUME NEW old \in SUBSET Row, NEW new \in SUBSET Finding,
         NEW whole \in BOOLEAN
  PROVE  LET res == CommitDeviceVerdicts(old, new, whole)
         IN  /\ res \in SUBSET Row
             /\ old # {} => res # {}
             /\ whole /\ new # {} => res # {}
<1> DEFINE res == CommitDeviceVerdicts(old, new, whole)
           swapped == {[key |-> f.key, observer |-> f.observer,
                        status |-> f.status, flagged |-> FALSE] : f \in new}
<1>1. swapped \in SUBSET Row
  <2>1. ASSUME NEW f \in new
        PROVE  [key |-> f.key, observer |-> f.observer,
                status |-> f.status, flagged |-> FALSE] \in Row
    <3>1. f \in Finding
      OBVIOUS
    <3> QED
      BY <3>1 DEF Row, Finding
  <2> QED
    BY <2>1
<1>2. new # {} => swapped # {}
  OBVIOUS
<1>3. res = IF ~whole \/ (new = {} /\ old # {}) THEN old ELSE swapped
  BY DEF CommitDeviceVerdicts
<1> QED
  BY <1>1, <1>2, <1>3

\* An upsert yields rows, keeps every (key, observer) it finds with its
\* distrust flag, and adds only unflagged ones (store.py:1861-1901).
LEMMA UpsertRows ==
  ASSUME NEW old \in SUBSET Row, NEW K \in SUBSET Keys,
         NEW O \in SUBSET Observers, NEW ups \in Upserts(K, O)
  PROVE  LET res == UpsertVerdicts(old, ups)
         IN  /\ res \in SUBSET Row
             /\ \A r \in old : \E s \in res :
                  /\ r.key = s.key
                  /\ r.observer = s.observer
                  /\ s.flagged = r.flagged
             /\ \A s \in res :
                  \/ ~s.flagged
                  \/ \E r \in old : /\ r.key = s.key
                                    /\ r.observer = s.observer
                                    /\ r.flagged
<1> DEFINE res == UpsertVerdicts(old, ups)
           touched == {r \in old : <<r.key, r.observer>> \in DOMAIN ups}
           added == {x \in DOMAIN ups :
                       \A r \in touched : <<r.key, r.observer>> # x}
           kept == old \ touched
           edited == {[r EXCEPT !.status = ups[<<r.key, r.observer>>]]
                        : r \in touched}
           fresher == {[key |-> x[1], observer |-> x[2],
                        status |-> ups[x], flagged |-> FALSE] : x \in added}
<1>1. res = kept \cup edited \cup fresher
  BY DEF UpsertVerdicts
<1>2. /\ DOMAIN ups \subseteq Keys \X Observers
      /\ \A x \in DOMAIN ups : ups[x] \in Statuses
  BY UpsertsType
<1>3. ASSUME NEW r \in touched
      PROVE  LET s == [r EXCEPT !.status = ups[<<r.key, r.observer>>]]
             IN  /\ s \in edited
                 /\ s \in Row
                 /\ s.key = r.key
                 /\ s.observer = r.observer
                 /\ s.flagged = r.flagged
  BY <1>2 DEF Row
<1>4. \A s \in fresher : s \in Row /\ ~s.flagged
  <2>1. ASSUME NEW x \in added
        PROVE  LET s == [key |-> x[1], observer |-> x[2],
                         status |-> ups[x], flagged |-> FALSE]
               IN  s \in Row /\ ~s.flagged
    <3>1. x \in Keys \X Observers /\ ups[x] \in Statuses
      BY <1>2
    <3>2. x[1] \in Keys /\ x[2] \in Observers
      BY <3>1
    <3> QED
      BY <3>1, <3>2 DEF Row
  <2> QED
    BY <2>1
<1>5. \A s \in edited : \E r \in touched :
        /\ s \in Row
        /\ s.key = r.key /\ s.observer = r.observer /\ s.flagged = r.flagged
  BY <1>3
<1>6. res \in SUBSET Row
  BY <1>1, <1>4, <1>5
<1>7. \A r \in old : \E s \in res :
        r.key = s.key /\ r.observer = s.observer /\ s.flagged = r.flagged
  BY <1>1, <1>3
<1>8. ASSUME NEW s \in res, s.flagged
      PROVE  \E r \in old : /\ r.key = s.key
                            /\ r.observer = s.observer
                            /\ r.flagged
  <2>1. CASE s \in kept
    BY <2>1, <1>8
  <2>2. CASE s \in edited
    BY <2>2, <1>5, <1>8
  <2>3. CASE s \in fresher
    BY <2>3, <1>4, <1>8
  <2> QED
    BY <1>1, <2>1, <2>2, <2>3
<1> QED
  BY <1>6, <1>7, <1>8 DEF Row

LEMMA MarkedRows ==
  ASSUME NEW rows \in SUBSET Row, NEW o \in Observers
  PROVE  /\ MarkRows(rows, o) \in SUBSET Row
         /\ rows # {} => MarkRows(rows, o) # {}
BY DEF MarkRows, Row
\* The order of for_axis is strict and total on the observers.
LEMMA RunsBeforeOrder ==
  /\ \A o \in Observers : ~RunsBefore(o, o)
  /\ \A o, p \in Observers : RunsBefore(o, p) => Order[p] <= Order[o]
BY ConstantsAssumption DEF RunsBefore

-----------------------------------------------------------------------------
(* The run over one axis.  by_key holds one finding per key and the first   *)
(* key inserted stays in it: what FindingOf and AxisPostures rely on.       *)

AxisRunInv ==
  /\ axis = NoAxis => /\ toAsk = {}
                      /\ found = {}
                      /\ answered = {}
                      /\ complete = TRUE
  /\ \A f, g \in found : f.key = g.key => f = g
  /\ first = NoKey => found = {}
  /\ first # NoKey => \E f \in found : f.key = first

TypeInv == TypeOK /\ AxisRunInv

\* With findings, the first key has one, and the axis posture is well formed.
LEMMA PostureType ==
  ASSUME TypeInv
  PROVE  /\ AxisPostures \subseteq AxisPosture
         /\ \A p \in AxisPostures :
              ~p.gap => found # {} /\ complete /\ p.status # Unknown
<1>1. CASE found = {}
  <2>1. AxisPostures = {BlankPosture}
    BY <1>1 DEF AxisPostures
  <2> QED
    BY <2>1 DEF BlankPosture, AxisPosture
<1>2. CASE found # {}
  <2>1. /\ first # NoKey
        /\ found \subseteq Finding
        /\ complete \in BOOLEAN
    BY <1>2 DEF TypeInv, AxisRunInv, TypeOK
  <2>2. FindingOf(first) \in found
    BY <2>1 DEF FindingOf, TypeInv, AxisRunInv
  <2>3. \A f \in found : f.observer \in Observers /\ f.status \in Statuses
    BY <2>1 DEF Finding
  <2>4. AxisStatuses \subseteq Statuses
    BY <2>2, <2>3 DEF AxisStatuses
  <2>5. ASSUME NEW s
        PROVE  Deciders(s) \subseteq Observers
    BY <2>2, <2>3 DEF Deciders
  <2>6. ASSUME NEW p \in AxisPostures
        PROVE  p \in AxisPosture /\ p.status \in Statuses /\ p.gap = ~complete
    <3>1. PICK s \in AxisStatuses : \E o \in Deciders(s) :
            p = [status |-> s, decider |-> o,
                 bias |-> FindingOf(first).observer, gap |-> ~complete]
      BY <1>2 DEF AxisPostures
    <3>2. PICK o \in Deciders(s) :
            p = [status |-> s, decider |-> o,
                 bias |-> FindingOf(first).observer, gap |-> ~complete]
      BY <3>1
    <3>3. s \in Statuses /\ o \in Observers /\ FindingOf(first).observer \in Observers
      BY <2>2, <2>3, <2>4, <2>5
    <3> QED
      BY <2>1, <3>2, <3>3 DEF AxisPosture
  <2> QED
    BY <1>2, <2>1, <2>6, SentinelAssumption
<1> QED
  BY <1>1, <1>2

\* What one observer's answer does to by_key and to the first key.
LEMMA ObserveFindings ==
  ASSUME TypeInv, NEW o \in Observers, NEW ans \in Answer,
         NEW whole \in BOOLEAN, Observe(o, ans, whole)
  PROVE  /\ found' \subseteq Finding
         /\ \A f, g \in found' : f.key = g.key => f = g
         /\ first' \in Keys \cup {NoKey}
         /\ first' = NoKey => found' = {}
         /\ first' # NoKey => \E f \in found' : f.key = first'
<1> DEFINE kept == {f \in found : f.key \notin DOMAIN ans}
           new == {[key |-> k, observer |-> o, status |-> ans[k]]
                     : k \in DOMAIN ans}
<1>1. found' = kept \cup new
  BY DEF Observe
<1>2. /\ DOMAIN ans \subseteq Keys
      /\ \A k \in DOMAIN ans : ans[k] \in Statuses
  BY AnswerType
<1>3. \A f \in new : f \in Finding /\ f.key \in DOMAIN ans
  BY <1>2 DEF Finding
<1>4. \A f, g \in new : f.key = g.key => f = g
  OBVIOUS
<1>5. ASSUME NEW k \in DOMAIN ans
      PROVE  \E f \in new : f.key = k
  <2>1. [key |-> k, observer |-> o, status |-> ans[k]] \in new
    OBVIOUS
  <2> QED
    BY <2>1
<1>6. /\ found \subseteq Finding
      /\ \A f, g \in found : f.key = g.key => f = g
      /\ first \in Keys \cup {NoKey}
      /\ first = NoKey => found = {}
      /\ first # NoKey => \E f \in found : f.key = first
  BY DEF TypeInv, AxisRunInv, TypeOK
<1>7. first' \in IF first = NoKey /\ DOMAIN ans # {} THEN DOMAIN ans ELSE {first}
  BY DEF Observe
<1>8. found' \subseteq Finding /\ \A f, g \in found' : f.key = g.key => f = g
  BY <1>1, <1>3, <1>4, <1>6
<1>9. CASE first = NoKey /\ DOMAIN ans # {}
  BY <1>1, <1>2, <1>5, <1>7, <1>8, <1>9, SentinelAssumption
<1>10. CASE first = NoKey /\ DOMAIN ans = {}
  BY <1>1, <1>6, <1>7, <1>8, <1>10
<1>11. CASE first # NoKey
  <2>1. first' = first
    BY <1>7, <1>11
  <2>2. PICK f \in found : f.key = first
    BY <1>6, <1>11
  <2>3. \E g \in found' : g.key = first
    BY <1>1, <1>5, <2>2
  <2> QED
    BY <1>6, <1>8, <1>11, <2>1, <2>3
<1> QED
  BY <1>9, <1>10, <1>11
-----------------------------------------------------------------------------
(* Type correctness.                                                        *)

LEMMA InitTypeInv == Init => TypeInv
BY DEF Init, TypeInv, TypeOK, AxisRunInv, AxisRows, Idle

LEMMA RefreshRows ==
  ASSUME TypeOK, NEW K \in SUBSET Keys, NEW O \in SUBSET Observers,
         NEW decided \in [Devices -> Upserts(K, O)],
         verdicts' = Revised(decided)
  PROVE  /\ verdicts' \in [Devices -> AxisRows]
         /\ \A d \in Devices, a \in Axes :
              \/ verdicts'[d][a] = verdicts[d][a]
              \/ verdicts'[d][a] = UpsertVerdicts(verdicts[d][a], decided[d])
<1>1. Speaks[Nvd] \in Axes
  BY ConstantsAssumption
<1>2. ASSUME NEW d \in Devices
      PROVE  /\ verdicts'[d] \in AxisRows
             /\ \A a \in Axes :
                  \/ verdicts'[d][a] = verdicts[d][a]
                  \/ verdicts'[d][a] = UpsertVerdicts(verdicts[d][a], decided[d])
  <2>1. verdicts[d] \in [Axes -> SUBSET Row]
    BY DEF TypeOK, AxisRows
  <2>2. verdicts'[d] = [verdicts[d] EXCEPT ![Speaks[Nvd]] =
                          UpsertVerdicts(@, decided[d])]
    BY DEF Revised
  <2>3. UpsertVerdicts(verdicts[d][Speaks[Nvd]], decided[d]) \in SUBSET Row
    BY <1>1, <2>1, UpsertRows
  <2> QED
    BY <2>1, <2>2, <2>3 DEF AxisRows
<1>3. verdicts' = [d \in Devices |-> verdicts'[d]]
  BY DEF Revised
<1> QED
  BY <1>2, <1>3

LEMMA DistrustRows ==
  ASSUME TypeOK, NEW o \in Observers, Distrust(o)
  PROVE  verdicts' \in [Devices -> AxisRows]
<1>1. \A d \in Devices, a \in Axes : MarkRows(verdicts[d][a], o) \in SUBSET Row
  BY MarkedRows DEF TypeOK, AxisRows
<1> QED
  BY <1>1 DEF Distrust, AxisRows

\* A step of the engine keeps the types.
LEMMA EngineTypeInv == TypeInv /\ Engine => TypeInv'
<1> SUFFICES ASSUME TypeInv, Engine PROVE TypeInv'
  OBVIOUS
<1> USE DEF TypeInv
<1>1. ASSUME NEW d \in Devices, StartAssess(d) PROVE TypeInv'
  BY <1>1, SentinelAssumption
     DEF StartAssess, TypeOK, AxisRunInv, store, axisRun, Idle
<1>2. ASSUME NEW a \in Axes, BlindAxis(a) PROVE TypeInv'
  BY <1>2 DEF BlindAxis, BlankPosture, AxisPosture, TypeOK, AxisRunInv,
              store, axisRun, Idle
<1>3. ASSUME NEW a \in Axes, StartAxis(a) PROVE TypeInv'
  <2>1. ForAxis(a) \subseteq Observers
    BY ConstantsAssumption DEF ForAxis
  <2> QED
    BY <1>3, <2>1, SentinelAssumption
       DEF StartAxis, TypeOK, AxisRunInv, store, Idle
<1>4. ASSUME NEW o \in Observers, NEW ans \in Answer, NEW whole \in BOOLEAN,
             Observe(o, ans, whole)
      PROVE  TypeInv'
  <2>1. /\ found' \subseteq Finding
        /\ \A f, g \in found' : f.key = g.key => f = g
        /\ first' \in Keys \cup {NoKey}
        /\ first' = NoKey => found' = {}
        /\ first' # NoKey => \E f \in found' : f.key = first'
    BY <1>4, ObserveFindings
  <2>2. answered' \subseteq Observers \X Keys
    BY <1>4, AnswerType DEF Observe, TypeOK
  <2>3. axis' = axis /\ axis # NoAxis /\ device' = device /\ device # NoDevice
    BY <1>4 DEF Observe, NextToAsk, AxisRunInv, Idle
  <2>4. txn' \in AxisRows \cup {NoTxn}
    BY <1>4, <2>3 DEF Observe, TypeOK
  <2> QED
    BY <1>4, <2>1, <2>2, <2>3, <2>4
       DEF Observe, TypeOK, AxisRunInv, store, Idle
<1>5. ASSUME NEW o \in Observers, ObserverCrashes(o) PROVE TypeInv'
  BY <1>5 DEF ObserverCrashes, NextToAsk, TypeOK, AxisRunInv, store, Idle
<1>6. ASSUME FinishAxis PROVE TypeInv'
  <2>1. axis \in Axes
    BY <1>6 DEF FinishAxis, TypeOK
  <2>2. results' \in [Axes -> AxisPosture \cup {NoPosture}]
    BY <1>6, PostureType DEF FinishAxis, TypeOK
  <2>3. txn' \in AxisRows \cup {NoTxn}
    <3>1. CASE txn = NoTxn
      BY <1>6, <3>1 DEF FinishAxis
    <3>2. CASE txn # NoTxn
      <4>1. txn \in [Axes -> SUBSET Row]
        BY <3>2 DEF TypeOK, AxisRows
      <4>2. CommitDeviceVerdicts(txn[axis], found, complete) \in SUBSET Row
        BY <2>1, <4>1, GateRows DEF TypeOK
      <4> QED
        BY <1>6, <3>2, <4>1, <4>2 DEF FinishAxis, AxisRows
    <3> QED
      BY <3>1, <3>2
  <2> QED
    BY <1>6, <2>2, <2>3
       DEF FinishAxis, ResetAxis, TypeOK, AxisRunInv, store, Idle
<1>7. ASSUME NEW d \in Devices, CommitAssess(d) PROVE TypeInv'
  <2>1. verdicts' \in [Devices -> AxisRows]
    BY <1>7 DEF CommitAssess, TypeOK
  <2>2. posture' \in [Devices -> [Axes -> AxisPosture \cup {NoPosture}]]
    BY <1>7 DEF CommitAssess, TypeOK
  <2> QED
    BY <1>7, <2>1, <2>2
       DEF CommitAssess, ResetEngine, ResetAxis, TypeOK, AxisRunInv, Idle
<1>8. ASSUME AbortAssess PROVE TypeInv'
  BY <1>8 DEF AbortAssess, ResetEngine, ResetAxis, TypeOK, AxisRunInv, store,
              Idle
<1> QED
  BY <1>1, <1>2, <1>3, <1>4, <1>5, <1>6, <1>7, <1>8 DEF Engine

\* A commit of the refresh or of a distrust keeps the types.
LEMMA WritersTypeInv ==
  TypeInv /\ (Refresh \/ \E o \in Distrustable : Distrust(o)) => TypeInv'
<1> SUFFICES ASSUME TypeInv, Refresh \/ \E o \in Distrustable : Distrust(o)
             PROVE  TypeInv'
  OBVIOUS
<1> USE DEF TypeInv
<1>1. ASSUME NEW enriched \in SUBSET Keys,
             NEW decided \in [Devices -> Upserts(enriched, {Nvd})],
             RefreshNvd(enriched, decided)
      PROVE  TypeInv'
  <2>1. verdicts' \in [Devices -> AxisRows]
    BY <1>1, RefreshRows, ConstantsAssumption DEF RefreshNvd
  <2> QED
    BY <1>1, <2>1
       DEF RefreshNvd, TypeOK, AxisRunInv, engine, axisRun, Idle
<1>2. ASSUME NEW decided, RefreshVendors(decided) PROVE TypeInv'
  <2> DEFINE vendors == {o \in Observers \ {Nvd} : Speaks[o] = Speaks[Nvd]}
  <2>1. decided \in [Devices -> Upserts(fresh, vendors)]
    BY <1>2 DEF RefreshVendors
  <2>2. fresh \in SUBSET Keys /\ vendors \in SUBSET Observers
    BY DEF TypeOK
  <2>3. verdicts' \in [Devices -> AxisRows]
    BY <1>2, <2>1, <2>2, RefreshRows DEF RefreshVendors
  <2> QED
    BY <1>2, <2>3
       DEF RefreshVendors, TypeOK, AxisRunInv, engine, axisRun, Idle
<1>3. ASSUME RefreshDies PROVE TypeInv'
  BY <1>3 DEF RefreshDies, TypeOK, AxisRunInv, store, engine, axisRun, Idle
<1>4. ASSUME NEW o \in Distrustable, Distrust(o) PROVE TypeInv'
  <2>1. o \in Observers
    BY ConstantsAssumption
  <2>2. verdicts' \in [Devices -> AxisRows]
    BY <1>4, <2>1, DistrustRows
  <2> QED
    BY <1>4, <2>1, <2>2
       DEF Distrust, TypeOK, AxisRunInv, engine, axisRun, Idle
<1> QED
  BY <1>1, <1>2, <1>3, <1>4 DEF Refresh

LEMMA StepTypeInv == TypeInv /\ [Next]_vars => TypeInv'
<1>1. TypeInv /\ UNCHANGED vars => TypeInv'
  BY DEF TypeInv, TypeOK, AxisRunInv, vars, store, engine, axisRun, Idle
<1> QED
  BY <1>1, EngineTypeInv, WritersTypeInv DEF Next

\* Every state of the engine and of the store is well typed, and the findings
\* of an axis stay one per key.
THEOREM TypeCorrect == Spec => []TypeInv
BY InitTypeInv, StepTypeInv, PTL DEF Spec
-----------------------------------------------------------------------------
(* Authority.  Authority alone is not inductive: a later answer wins its    *)
(* key whoever gives it.  What makes the override right is the order the    *)
(* observers are asked in, so the invariant adds that everyone who has      *)
(* answered runs before everyone still to ask.                              *)

AskedInOrder == \A x \in answered, p \in toAsk : RunsBefore(x[1], p)

AuthorityInv == Authority /\ AskedInOrder

LEMMA ObserveAuthority ==
  ASSUME TypeInv, AuthorityInv, NEW o \in Observers, NEW ans \in Answer,
         NEW whole \in BOOLEAN, Observe(o, ans, whole)
  PROVE  AuthorityInv'
<1> DEFINE kept == {f \in found : f.key \notin DOMAIN ans}
           new == {[key |-> k, observer |-> o, status |-> ans[k]]
                     : k \in DOMAIN ans}
           gave == {<<o, k>> : k \in DOMAIN ans}
<1>1. found' = kept \cup new /\ answered' = answered \cup gave
  BY DEF Observe
<1>2. /\ o \in toAsk
      /\ toAsk' = toAsk \ {o}
      /\ \A p \in toAsk' : RunsBefore(o, p)
  BY DEF Observe, NextToAsk
<1>3. \A x \in answered : x \in Observers \X Keys /\ Order[o] <= Order[x[1]]
  BY <1>2, RunsBeforeOrder DEF AuthorityInv, AskedInOrder, TypeInv, TypeOK
<1>4. \A f \in new : f.key \in DOMAIN ans /\ f.observer = o
  OBVIOUS
<1>5. ASSUME NEW k \in DOMAIN ans
      PROVE  \E f \in new : f.key = k
  <2>1. [key |-> k, observer |-> o, status |-> ans[k]] \in new
    OBVIOUS
  <2> QED
    BY <2>1
<1>6. \A x \in answered' : \E f \in found' : f.key = x[2]
  <2>1. ASSUME NEW x \in answered PROVE \E f \in found' : f.key = x[2]
    BY <1>1, <1>5 DEF AuthorityInv, Authority
  <2>2. ASSUME NEW x \in gave PROVE \E f \in found' : f.key = x[2]
    BY <1>1, <1>5
  <2> QED
    BY <1>1, <2>1, <2>2
<1>7. ASSUME NEW f \in found'
      PROVE  /\ <<f.observer, f.key>> \in answered'
             /\ \A p \in Observers :
                  <<p, f.key>> \in answered' => Order[f.observer] <= Order[p]
  <2>1. CASE f \in kept
    BY <1>1, <2>1 DEF AuthorityInv, Authority
  <2>2. CASE f \in new
    <3>1. f.key \in DOMAIN ans /\ f.observer = o
      BY <1>4, <2>2
    <3>2. ASSUME NEW p \in Observers, <<p, f.key>> \in answered'
          PROVE  Order[o] <= Order[p]
      <4>1. Order[o] \in Nat
        BY ConstantsAssumption
      <4>2. CASE <<p, f.key>> \in answered
        BY <1>3, <4>2
      <4>3. CASE <<p, f.key>> \in gave
        BY <4>1, <4>3
      <4> QED
        BY <1>1, <3>2, <4>2, <4>3
    <3> QED
      BY <1>1, <3>1, <3>2
  <2> QED
    BY <1>1, <2>1, <2>2
<1>8. AskedInOrder'
  <2>1. ASSUME NEW x \in answered, NEW p \in toAsk' PROVE RunsBefore(x[1], p)
    BY <1>2 DEF AuthorityInv, AskedInOrder
  <2>2. ASSUME NEW x \in gave, NEW p \in toAsk' PROVE RunsBefore(x[1], p)
    BY <1>2
  <2> QED
    BY <1>1, <2>1, <2>2 DEF AskedInOrder
<1> QED
  BY <1>6, <1>7, <1>8 DEF AuthorityInv, Authority

LEMMA StepAuthorityInv == TypeInv /\ AuthorityInv /\ [Next]_vars => AuthorityInv'
<1> SUFFICES ASSUME TypeInv, AuthorityInv, [Next]_vars PROVE AuthorityInv'
  OBVIOUS
<1> USE DEF AuthorityInv, Authority, AskedInOrder
<1>1. CASE UNCHANGED <<found, answered, toAsk>>
  BY <1>1
<1>2. ASSUME NEW a \in Axes, StartAxis(a) PROVE AuthorityInv'
  BY <1>2 DEF StartAxis, TypeInv, AxisRunInv
<1>3. ASSUME NEW o \in Observers, NEW ans \in Answer, NEW whole \in BOOLEAN,
             Observe(o, ans, whole)
      PROVE  AuthorityInv'
  BY <1>3, ObserveAuthority
<1>4. ASSUME NEW o \in Observers, ObserverCrashes(o) PROVE AuthorityInv'
  BY <1>4 DEF ObserverCrashes
<1>5. CASE ResetAxis
  BY <1>5 DEF ResetAxis
<1>6. CASE Engine
  BY <1>1, <1>2, <1>3, <1>4, <1>5, <1>6
     DEF Engine, StartAssess, BlindAxis, FinishAxis, CommitAssess, AbortAssess,
         ResetEngine, axisRun
<1>7. CASE ~Engine
  BY <1>1, <1>7 DEF Next, Refresh, RefreshNvd, RefreshVendors, RefreshDies,
                    Distrust, engine, axisRun, vars
<1> QED
  BY <1>6, <1>7

\* The finding kept for a key is that of the strongest observer that answered.
THEOREM AuthorityHolds == Spec => []Authority
<1>1. Init => AuthorityInv
  BY DEF Init, AuthorityInv, Authority, AskedInOrder
<1>2. Spec => []AuthorityInv
  BY <1>1, StepAuthorityInv, TypeCorrect, PTL DEF Spec
<1> QED
  BY <1>2, PTL DEF AuthorityInv

\* The type invariant the runs check.
THEOREM AssessTypeOK == Spec => []TypeOK
BY TypeCorrect, PTL DEF TypeInv

-----------------------------------------------------------------------------
(* All axes or none.  The posture is replaced as a whole, so the property   *)
(* rests on the run having a result for each axis by then.                  *)

RunCovers ==
  ~Idle => \A a \in Axes : a \in axesLeft \/ a = axis \/ results[a] # NoPosture

WholeInv == AllAxesOrNone /\ RunCovers

LEMMA EngineWhole == TypeInv /\ WholeInv /\ Engine => WholeInv'
<1> SUFFICES ASSUME TypeInv, WholeInv, Engine PROVE WholeInv'
  OBVIOUS
<1> USE DEF TypeInv, WholeInv, AllAxesOrNone, RunCovers
<1>1. ASSUME NEW d \in Devices, StartAssess(d) PROVE WholeInv'
  BY <1>1 DEF StartAssess, store
<1>2. ASSUME NEW a \in Axes, BlindAxis(a) PROVE WholeInv'
  <2>1. BlankPosture \in AxisPosture
    BY DEF BlankPosture, AxisPosture
  <2>2. BlankPosture # NoPosture
    BY <2>1, SentinelAssumption
  <2> QED
    BY <1>2, <2>2 DEF BlindAxis, store, axisRun, Idle, TypeOK
<1>3. ASSUME NEW a \in Axes, StartAxis(a) PROVE WholeInv'
  BY <1>3, SentinelAssumption DEF StartAxis, store, Idle
<1>4. ASSUME NEW o \in Observers, NEW ans \in Answer, NEW whole \in BOOLEAN,
             Observe(o, ans, whole)
      PROVE  WholeInv'
  BY <1>4 DEF Observe, store, Idle
<1>5. ASSUME NEW o \in Observers, ObserverCrashes(o) PROVE WholeInv'
  BY <1>5 DEF ObserverCrashes, store, Idle
<1>6. CASE FinishAxis
  <2>1. PICK p \in AxisPostures : results' = [results EXCEPT ![axis] = p]
    BY <1>6 DEF FinishAxis
  <2>2. p # NoPosture
    BY PostureType, SentinelAssumption
  <2> QED
    BY <1>6, <2>1, <2>2 DEF FinishAxis, ResetAxis, store, Idle, TypeOK
<1>7. ASSUME NEW d \in Devices, CommitAssess(d) PROVE WholeInv'
  <2>1. \A a \in Axes : results[a] # NoPosture
    BY <1>7, SentinelAssumption DEF CommitAssess, Idle
  <2>2. \A e \in Devices : posture'[e] = IF e = d THEN results ELSE posture[e]
    BY <1>7 DEF CommitAssess, TypeOK
  <2>3. device' = NoDevice
    BY <1>7 DEF CommitAssess, ResetEngine
  <2> QED
    BY <2>1, <2>2, <2>3 DEF Idle
<1>8. CASE AbortAssess
  BY <1>8 DEF AbortAssess, ResetEngine, store, Idle
<1> QED
  BY <1>1, <1>2, <1>3, <1>4, <1>5, <1>6, <1>7, <1>8 DEF Engine

LEMMA StepWhole == TypeInv /\ WholeInv /\ [Next]_vars => WholeInv'
<1> SUFFICES ASSUME TypeInv, WholeInv, [Next]_vars, ~Engine PROVE WholeInv'
  BY EngineWhole
<1>1. UNCHANGED <<posture, device, axesLeft, axis, results>>
  BY DEF Next, Refresh, RefreshNvd, RefreshVendors, RefreshDies, Distrust,
         store, engine, axisRun, vars
<1> QED
  BY <1>1 DEF WholeInv, AllAxesOrNone, RunCovers, Idle

\* A device never shows a mixture of assessed and unassessed axes.
THEOREM WholePostures == Spec => []AllAxesOrNone
<1>1. Init => WholeInv
  BY DEF Init, WholeInv, AllAxesOrNone, RunCovers, Idle
<1>2. Spec => []WholeInv
  BY <1>1, StepWhole, TypeCorrect, PTL DEF Spec
<1> QED
  BY <1>2, PTL DEF WholeInv

-----------------------------------------------------------------------------
(* No silent clean.  The rows a gapless posture rests on are written long   *)
(* before it, in the open transaction: the invariant follows them there.    *)

\* A posture p beside rows: no stated gap only on top of verdicts.
Grounded(p, rows) ==
  p # NoPosture /\ ~p.gap => p.status # Unknown /\ rows # {}

CleanInv ==
  /\ \A d \in Devices, a \in Axes : Grounded(posture[d][a], verdicts[d][a])
  /\ found # {} => txn # NoTxn
  /\ \A a \in Axes :
       /\ txn = NoTxn => Grounded(results[a], {})
       /\ txn # NoTxn => Grounded(results[a], txn[a])

LEMMA EngineClean == TypeInv /\ CleanInv /\ Engine => CleanInv'
<1> SUFFICES ASSUME TypeInv, CleanInv, Engine PROVE CleanInv'
  OBVIOUS
<1> USE DEF TypeInv, CleanInv, Grounded
<1>1. ASSUME NEW d \in Devices, StartAssess(d) PROVE CleanInv'
  BY <1>1 DEF StartAssess, store, axisRun
<1>2. ASSUME NEW a \in Axes, BlindAxis(a) PROVE CleanInv'
  BY <1>2 DEF BlindAxis, BlankPosture, store, axisRun, TypeOK
<1>3. ASSUME NEW a \in Axes, StartAxis(a) PROVE CleanInv'
  BY <1>3 DEF StartAxis, store
<1>4. ASSUME NEW o \in Observers, NEW ans \in Answer, NEW whole \in BOOLEAN,
             Observe(o, ans, whole)
      PROVE  CleanInv'
  <2>1. verdicts[device] \in AxisRows /\ txn' # NoTxn
    BY <1>4, SentinelAssumption DEF Observe, TypeOK, Idle
  <2>2. txn' = IF txn = NoTxn THEN verdicts[device] ELSE txn
    BY <1>4 DEF Observe
  <2>3. UNCHANGED <<posture, verdicts, results>>
    BY <1>4 DEF Observe, store
  <2> QED
    BY <2>1, <2>2, <2>3
<1>5. ASSUME NEW o \in Observers, ObserverCrashes(o) PROVE CleanInv'
  BY <1>5 DEF ObserverCrashes, store
<1>6. CASE FinishAxis
  <2>1. PICK p \in AxisPostures : results' = [results EXCEPT ![axis] = p]
    BY <1>6 DEF FinishAxis
  <2>2. ~p.gap => found # {} /\ complete /\ p.status # Unknown
    BY PostureType
  <2>3. UNCHANGED <<posture, verdicts>> /\ found' = {} /\ axis \in Axes
    BY <1>6 DEF FinishAxis, ResetAxis, store, TypeOK
  <2>4. CASE txn = NoTxn
    BY <1>6, <2>1, <2>2, <2>3, <2>4 DEF FinishAxis, TypeOK
  <2>5. CASE txn # NoTxn
    <3> DEFINE rows == CommitDeviceVerdicts(txn[axis], found, complete)
    <3>1. txn \in [Axes -> SUBSET Row]
      BY <2>5 DEF TypeOK, AxisRows
    <3>2. rows \in SUBSET Row /\ (complete /\ found # {} => rows # {})
      BY <2>3, <3>1, GateRows DEF TypeOK
    <3>3. txn' = [txn EXCEPT ![axis] = rows]
      BY <1>6, <2>5 DEF FinishAxis
    <3>4. txn' # NoTxn
      BY <3>1, <3>2, <3>3, SentinelAssumption DEF AxisRows
    <3>5. \A a \in Axes : txn'[a] = IF a = axis THEN rows ELSE txn[a]
      BY <3>1, <3>3
    <3>6. \A a \in Axes : results'[a] = IF a = axis THEN p ELSE results[a]
      BY <2>1 DEF TypeOK
    <3> HIDE DEF rows
    <3>7. \A a \in Axes : Grounded(results'[a], txn'[a])
      BY <2>2, <2>5, <3>2, <3>5, <3>6
    <3> QED
      BY <2>3, <3>4, <3>7
  <2> QED
    BY <2>4, <2>5
<1>7. ASSUME NEW d \in Devices, CommitAssess(d) PROVE CleanInv'
  <2>1. \A e \in Devices : posture'[e] = IF e = d THEN results ELSE posture[e]
    BY <1>7 DEF CommitAssess, TypeOK
  <2>2. \A e \in Devices :
          verdicts'[e] = IF e = d /\ txn # NoTxn THEN txn ELSE verdicts[e]
    BY <1>7 DEF CommitAssess, TypeOK
  <2>3. \A a \in Axes : Grounded(posture'[d][a], verdicts'[d][a])
    BY <2>1, <2>2
  <2>4. /\ txn' = NoTxn
        /\ found' = {}
        /\ \A a \in Axes : results'[a] = NoPosture
    BY <1>7 DEF CommitAssess, ResetEngine, ResetAxis
  <2> QED
    BY <2>1, <2>2, <2>3, <2>4
<1>8. CASE AbortAssess
  BY <1>8 DEF AbortAssess, ResetEngine, ResetAxis, store
<1> QED
  BY <1>1, <1>2, <1>3, <1>4, <1>5, <1>6, <1>7, <1>8 DEF Engine

\* The other writers empty no axis.
LEMMA WritersKeepRows ==
  ASSUME TypeInv, Refresh \/ \E o \in Distrustable : Distrust(o)
  PROVE  \A d \in Devices, a \in Axes :
           verdicts[d][a] # {} => verdicts'[d][a] # {}
<1> USE DEF TypeInv
<1>1. \A d \in Devices, a \in Axes : verdicts[d][a] \in SUBSET Row
  BY DEF TypeOK, AxisRows
<1>2. ASSUME NEW K \in SUBSET Keys, NEW O \in SUBSET Observers,
             NEW decided \in [Devices -> Upserts(K, O)],
             verdicts' = Revised(decided), NEW d \in Devices, NEW a \in Axes,
             verdicts[d][a] # {}
      PROVE  verdicts'[d][a] # {}
  <2>1. \/ verdicts'[d][a] = verdicts[d][a]
        \/ verdicts'[d][a] = UpsertVerdicts(verdicts[d][a], decided[d])
    BY <1>2, RefreshRows
  <2>2. decided[d] \in Upserts(K, O)
    BY <1>2
  <2>3. UpsertVerdicts(verdicts[d][a], decided[d]) # {}
    BY <1>1, <1>2, <2>2, UpsertRows
  <2> QED
    BY <1>2, <2>1, <2>3
<1>3. ASSUME NEW enriched \in SUBSET Keys,
             NEW decided \in [Devices -> Upserts(enriched, {Nvd})],
             RefreshNvd(enriched, decided),
             NEW d \in Devices, NEW a \in Axes, verdicts[d][a] # {}
      PROVE  verdicts'[d][a] # {}
  BY <1>2, <1>3, ConstantsAssumption DEF RefreshNvd
<1>4. ASSUME NEW decided, RefreshVendors(decided),
             NEW d \in Devices, NEW a \in Axes, verdicts[d][a] # {}
      PROVE  verdicts'[d][a] # {}
  <2> DEFINE vendors == {o \in Observers \ {Nvd} : Speaks[o] = Speaks[Nvd]}
  <2>1. /\ decided \in [Devices -> Upserts(fresh, vendors)]
        /\ verdicts' = Revised(decided)
        /\ fresh \in SUBSET Keys
        /\ vendors \in SUBSET Observers
    BY <1>4 DEF RefreshVendors, TypeOK
  <2> QED
    BY <1>2, <1>4, <2>1
<1>5. ASSUME NEW o \in Distrustable, Distrust(o),
             NEW d \in Devices, NEW a \in Axes, verdicts[d][a] # {}
      PROVE  verdicts'[d][a] # {}
  BY <1>1, <1>5, MarkedRows, ConstantsAssumption DEF Distrust
<1>6. CASE RefreshDies
  BY <1>6 DEF RefreshDies, store
<1> QED
  BY <1>3, <1>4, <1>5, <1>6 DEF Refresh

LEMMA StepClean == TypeInv /\ CleanInv /\ [Next]_vars => CleanInv'
<1> SUFFICES ASSUME TypeInv, CleanInv, [Next]_vars, ~Engine PROVE CleanInv'
  BY EngineClean
<1>1. CASE UNCHANGED vars
  BY <1>1 DEF vars, store, engine, axisRun, CleanInv
<1>2. CASE Refresh \/ \E o \in Distrustable : Distrust(o)
  <2>1. UNCHANGED <<posture, found, txn, results>>
    BY <1>2 DEF Refresh, RefreshNvd, RefreshVendors, RefreshDies, Distrust,
                store, engine, axisRun
  <2> QED
    BY <1>2, <2>1, WritersKeepRows DEF CleanInv, Grounded
<1> QED
  BY <1>1, <1>2 DEF Next

\* No axis is ever shown clean without verdicts to show for it.
THEOREM NeverSilentlyClean == Spec => []NoSilentClean
<1>1. Init => CleanInv
  BY DEF Init, CleanInv, Grounded
<1>2. Spec => []CleanInv
  BY <1>1, StepClean, TypeCorrect, PTL DEF Spec
<1>3. CleanInv => NoSilentClean
  BY DEF CleanInv, Grounded, NoSilentClean
<1> QED
  BY <1>2, <1>3, PTL

-----------------------------------------------------------------------------
(* The engine and its fellow writers implement NoWipe.  A run's rows reach  *)
(* the store only when it commits, so the invariant says of the open        *)
(* transaction what NoWipe says of a replacement.                           *)

SwapInv ==
  txn # NoTxn
    => \A a \in Axes :
         \/ txn[a] = verdicts[device][a]
         \/ txn[a] # {} /\ Contract!OnePerKey(txn[a])

\* What the gate returns for findings with one verdict per key.
LEMMA GateReplaces ==
  ASSUME NEW old, NEW new \in SUBSET Finding, NEW whole \in BOOLEAN,
         \A f, g \in new : f.key = g.key => f = g
  PROVE  LET res == CommitDeviceVerdicts(old, new, whole)
         IN  res = old \/ (res # {} /\ Contract!OnePerKey(res))
<1> DEFINE res == CommitDeviceVerdicts(old, new, whole)
           swapped == {[key |-> f.key, observer |-> f.observer,
                        status |-> f.status, flagged |-> FALSE] : f \in new}
<1>1. res = IF ~whole \/ (new = {} /\ old # {}) THEN old ELSE swapped
  BY DEF CommitDeviceVerdicts
<1>2. Contract!OnePerKey(swapped)
  <2>1. ASSUME NEW r \in swapped, NEW s \in swapped, r.key = s.key
        PROVE  r = s
    <3>1. PICK f \in new : r = [key |-> f.key, observer |-> f.observer,
                                status |-> f.status, flagged |-> FALSE]
      OBVIOUS
    <3>2. PICK g \in new : s = [key |-> g.key, observer |-> g.observer,
                                status |-> g.status, flagged |-> FALSE]
      OBVIOUS
    <3>3. f.key = g.key
      BY <2>1, <3>1, <3>2
    <3> QED
      BY <3>1, <3>2, <3>3
  <2> QED
    BY <2>1 DEF Contract!OnePerKey
<1>3. new = {} => swapped = {}
  OBVIOUS
<1>4. new # {} => swapped # {}
  OBVIOUS
<1> QED
  BY <1>1, <1>2, <1>3, <1>4

LEMMA EngineSwaps == TypeInv /\ SwapInv /\ Engine => SwapInv'
<1> SUFFICES ASSUME TypeInv, SwapInv, Engine PROVE SwapInv'
  OBVIOUS
<1> USE DEF TypeInv, SwapInv
<1>1. CASE UNCHANGED <<verdicts, txn, device>>
  BY <1>1 DEF Contract!OnePerKey
<1>2. CASE txn' = NoTxn
  BY <1>2
<1>3. ASSUME NEW d \in Devices, StartAssess(d) PROVE SwapInv'
  BY <1>3 DEF StartAssess, Idle, TypeOK
<1>4. ASSUME NEW o \in Observers, NEW ans \in Answer, NEW whole \in BOOLEAN,
             Observe(o, ans, whole)
      PROVE  SwapInv'
  <2>1. CASE txn = NoTxn
    BY <1>4, <2>1 DEF Observe, store
  <2>2. CASE txn # NoTxn
    BY <1>1, <1>4, <2>2 DEF Observe, store
  <2> QED
    BY <2>1, <2>2
<1>5. CASE FinishAxis /\ txn # NoTxn
  <2> DEFINE rows == CommitDeviceVerdicts(txn[axis], found, complete)
  <2>1. /\ txn' = [txn EXCEPT ![axis] = rows]
        /\ UNCHANGED <<verdicts, device>>
    BY <1>5 DEF FinishAxis, store
  <2>2. rows = txn[axis] \/ (rows # {} /\ Contract!OnePerKey(rows))
    BY GateReplaces DEF TypeOK, AxisRunInv
  <2>3. txn \in [Axes -> SUBSET Row]
    BY <1>5 DEF TypeOK, AxisRows
  <2> HIDE DEF rows
  <2>4. \A a \in Axes : txn'[a] = IF a = axis THEN rows ELSE txn[a]
    BY <2>1, <2>3
  <2>5. axis \in Axes
    BY <1>5 DEF FinishAxis, TypeOK
  <2>6. ASSUME NEW a \in Axes
        PROVE  \/ txn'[a] = verdicts[device][a]
               \/ txn'[a] # {} /\ Contract!OnePerKey(txn'[a])
    <3>1. \/ txn[a] = verdicts[device][a]
          \/ txn[a] # {} /\ Contract!OnePerKey(txn[a])
      BY <1>5
    <3>2. CASE a = axis /\ rows # txn[axis]
      BY <2>2, <2>4, <3>2
    <3>3. CASE ~(a = axis /\ rows # txn[axis])
      <4>1. txn'[a] = txn[a]
        BY <2>4, <3>3
      <4> QED
        BY <3>1, <4>1
    <3> QED
      BY <3>2, <3>3
  <2> QED
    BY <2>1, <2>6 DEF Contract!OnePerKey
<1>6. CASE FinishAxis /\ txn = NoTxn
  BY <1>2, <1>6 DEF FinishAxis
<1> QED
  BY <1>1, <1>2, <1>3, <1>4, <1>5, <1>6
     DEF Engine, BlindAxis, StartAxis, ObserverCrashes, CommitAssess,
         AbortAssess, ResetEngine, store

LEMMA StepSwaps == TypeInv /\ SwapInv /\ [Next]_vars => SwapInv'
<1> SUFFICES ASSUME TypeInv, SwapInv, [Next]_vars, ~Engine PROVE SwapInv'
  BY EngineSwaps
<1>1. CASE txn' = NoTxn
  BY <1>1 DEF SwapInv
<1>2. CASE UNCHANGED <<verdicts, txn, device>>
  BY <1>2 DEF SwapInv, Contract!OnePerKey
<1> QED
  BY <1>1, <1>2 DEF Next, Refresh, RefreshNvd, RefreshVendors, RefreshDies,
                    Distrust, store, engine, vars

LEMMA Reflexive ==
  ASSUME NEW rows
  PROVE  Contract!IsRevision(rows, rows)
BY DEF Contract!IsRevision, Contract!SameRow

\* The two commits of a refresh tick revise.
LEMMA RefreshRevises ==
  ASSUME TypeInv, NEW K \in SUBSET Keys, NEW O \in SUBSET Observers,
         NEW decided \in [Devices -> Upserts(K, O)],
         verdicts' = Revised(decided), UNCHANGED marks
  PROVE  Contract!Revise
<1>1. ASSUME NEW d \in Devices, NEW a \in Axes
      PROVE  Contract!IsRevision(verdicts[d][a], verdicts'[d][a])
  <2>1. \/ verdicts'[d][a] = verdicts[d][a]
        \/ verdicts'[d][a] = UpsertVerdicts(verdicts[d][a], decided[d])
    BY RefreshRows DEF TypeInv
  <2>2. verdicts[d][a] \in SUBSET Row /\ decided[d] \in Upserts(K, O)
    BY DEF TypeInv, TypeOK, AxisRows
  <2>3. Contract!IsRevision(verdicts[d][a],
                            UpsertVerdicts(verdicts[d][a], decided[d]))
    BY <2>2, UpsertRows DEF Contract!IsRevision, Contract!SameRow
  <2> QED
    BY <2>1, <2>3, Reflexive
<1> QED
  BY <1>1 DEF Contract!Revise

LEMMA StepMaps ==
  ASSUME TypeInv, SwapInv, [Next]_vars
  PROVE  [Contract!Next]_(Contract!store)
<1>1. CASE UNCHANGED <<verdicts, marks>>
  BY <1>1 DEF Contract!store
<1>2. ASSUME NEW d \in Devices, CommitAssess(d)
      PROVE  Contract!Replace(d) \/ UNCHANGED <<verdicts, marks>>
  <2>1. CASE txn = NoTxn
    BY <1>2, <2>1 DEF CommitAssess
  <2>2. CASE txn # NoTxn
    <3>1. /\ \A e \in Devices : verdicts'[e] = IF e = d THEN txn ELSE verdicts[e]
          /\ UNCHANGED marks
          /\ device = d
      BY <1>2, <2>2 DEF CommitAssess, TypeInv, TypeOK
    <3>2. ASSUME NEW a \in Axes
          PROVE  \/ verdicts'[d][a] = verdicts[d][a]
                 \/ Contract!IsReplacement(verdicts[d][a], verdicts'[d][a])
      BY <2>2, <3>1 DEF SwapInv, Contract!IsReplacement
    <3> QED
      BY <3>1, <3>2 DEF Contract!Replace
  <2> QED
    BY <2>1, <2>2
<1>3. CASE Engine
  BY <1>1, <1>2, <1>3
     DEF Engine, StartAssess, BlindAxis, StartAxis, Observe, ObserverCrashes,
         FinishAxis, AbortAssess, store, Contract!Next
<1>4. ASSUME NEW enriched \in SUBSET Keys,
             NEW decided \in [Devices -> Upserts(enriched, {Nvd})],
             RefreshNvd(enriched, decided)
      PROVE  Contract!Revise
  BY <1>4, RefreshRevises, ConstantsAssumption DEF RefreshNvd
<1>5. ASSUME NEW decided, RefreshVendors(decided) PROVE Contract!Revise
  <2> DEFINE vendors == {o \in Observers \ {Nvd} : Speaks[o] = Speaks[Nvd]}
  <2>1. /\ decided \in [Devices -> Upserts(fresh, vendors)]
        /\ verdicts' = Revised(decided)
        /\ UNCHANGED marks
        /\ fresh \in SUBSET Keys
        /\ vendors \in SUBSET Observers
    BY <1>5 DEF RefreshVendors, TypeInv, TypeOK
  <2> QED
    BY <2>1, RefreshRevises
<1>6. ASSUME NEW o \in Distrustable, Distrust(o) PROVE Contract!Retract(o)
  BY <1>6 DEF Distrust, MarkRows, Contract!Retract, Contract!Flag
<1>7. CASE Refresh
  BY <1>1, <1>4, <1>5, <1>7 DEF Refresh, RefreshDies, store, Contract!Next
<1>8. CASE \E o \in Distrustable : Distrust(o)
  BY <1>6, <1>8, ConstantsAssumption DEF Contract!Next
<1>9. CASE UNCHANGED vars
  BY <1>1, <1>9 DEF vars, store
<1> QED
  BY <1>3, <1>7, <1>8, <1>9 DEF Next

\* The verdict tables change only as the no-wipe contract allows.
THEOREM ImplementsNoWipe == Spec => KeepsContract
<1>1. Init => SwapInv /\ Contract!Init
  BY DEF Init, SwapInv, Contract!Init
<1>2. Spec => []SwapInv
  BY <1>1, StepSwaps, TypeCorrect, PTL DEF Spec
<1> QED
  BY <1>1, <1>2, StepMaps, TypeCorrect, PTL DEF Spec, KeepsContract, Contract!Spec
-----------------------------------------------------------------------------
(* A gapless posture and the rows beside it.  Both were made of the same    *)
(* findings, in the open transaction; an axis whose rows differ from the    *)
(* stored ones has such a posture, and each axis is worked on once.         *)

Gapless(p) == p # NoPosture /\ ~p.gap

Matches(p, rows) ==
  /\ \E r \in rows : r.status = p.status /\ r.observer = p.decider
  /\ \A r \in rows :
       r.status \in Listed => /\ p.status \in Listed
                              /\ Dominance[p.status] <= Dominance[r.status]

RunInv ==
  /\ axis \notin axesLeft
  /\ \A a \in Axes :
       /\ Gapless(results[a]) => txn # NoTxn /\ Matches(results[a], txn[a])
       /\ txn # NoTxn =>
            /\ a \in axesLeft \/ a = axis => txn[a] = verdicts[device][a]
            /\ txn[a] = verdicts[device][a] \/ Gapless(results[a])

\* The rows the gate swaps in for a complete, non-empty fetch.
LEMMA SwappedRows ==
  ASSUME found # {}, complete, NEW old
  PROVE  LET rows == CommitDeviceVerdicts(old, found, complete)
         IN  /\ \A r \in rows : \E f \in found :
                  r.status = f.status /\ r.observer = f.observer
             /\ \A f \in found : \E r \in rows :
                  r.status = f.status /\ r.observer = f.observer
<1> DEFINE row(f) == [key |-> f.key, observer |-> f.observer,
                      status |-> f.status, flagged |-> FALSE]
           rows == CommitDeviceVerdicts(old, found, complete)
<1>1. rows = {row(f) : f \in found}
  BY DEF CommitDeviceVerdicts
<1>2. ASSUME NEW f \in found
      PROVE  row(f).status = f.status /\ row(f).observer = f.observer
  OBVIOUS
<1> HIDE DEF row, rows
<1>3. /\ \A r \in rows : \E f \in found :
           r.status = f.status /\ r.observer = f.observer
      /\ \A f \in found : \E r \in rows :
           r.status = f.status /\ r.observer = f.observer
  BY <1>1, <1>2
<1> QED
  BY <1>3 DEF rows

\* A gapless posture states the worst of the findings, and one of them says so.
LEMMA PostureOfFindings ==
  ASSUME TypeInv, NEW p \in AxisPostures, ~p.gap
  PROVE  Matches(p, found)
<1>1. found # {} /\ found \subseteq Finding
  BY PostureType DEF TypeInv, TypeOK
<1>2. FindingOf(first) \in found
  BY <1>1 DEF FindingOf, TypeInv, AxisRunInv
<1>3. PICK s \in AxisStatuses : \E o \in Deciders(s) :
        p = [status |-> s, decider |-> o,
             bias |-> FindingOf(first).observer, gap |-> ~complete]
  BY <1>1 DEF AxisPostures
<1>4. PICK o \in Deciders(s) :
        p = [status |-> s, decider |-> o,
             bias |-> FindingOf(first).observer, gap |-> ~complete]
  BY <1>3
<1>5. p.status = s /\ p.decider = o
  BY <1>4
<1>6. \E f \in found : f.status = s /\ f.observer = o
  BY <1>2, <1>4 DEF Deciders
<1>7. ASSUME NEW f \in found, f.status \in Listed
      PROVE  s \in Listed /\ Dominance[s] <= Dominance[f.status]
  BY <1>7 DEF AxisStatuses
<1> QED
  BY <1>5, <1>6, <1>7 DEF Matches

\* What finishing an axis does to its rows and to its posture.
LEMMA FinishedAxis ==
  ASSUME TypeInv, CleanInv, NEW p \in AxisPostures, txn # NoTxn, axis \in Axes
  PROVE  LET rows == CommitDeviceVerdicts(txn[axis], found, complete)
         IN  /\ p # NoPosture
             /\ ~p.gap => Matches(p, rows)
             /\ p.gap => rows = txn[axis]
<1> DEFINE rows == CommitDeviceVerdicts(txn[axis], found, complete)
<1>1. p # NoPosture
  BY PostureType, SentinelAssumption
<1>2. ASSUME ~p.gap
      PROVE  Matches(p, rows)
  <2>1. found # {} /\ complete
    BY <1>2, PostureType
  <2>2. /\ \A r \in rows : \E f \in found :
             r.status = f.status /\ r.observer = f.observer
        /\ \A f \in found : \E r \in rows :
             r.status = f.status /\ r.observer = f.observer
    BY <2>1, SwappedRows
  <2> HIDE DEF rows
  <2> QED
    BY <1>2, <2>2, PostureOfFindings DEF Matches
<1>3. ASSUME p.gap
      PROVE  rows = txn[axis]
  <2>1. CASE found = {}
    BY <2>1 DEF CommitDeviceVerdicts
  <2>2. CASE found # {}
    <3>1. p.gap = ~complete
      BY <2>2 DEF AxisPostures
    <3> QED
      BY <1>3, <3>1 DEF CommitDeviceVerdicts
  <2> QED
    BY <2>1, <2>2
<1> QED
  BY <1>1, <1>2, <1>3

LEMMA EngineRuns == TypeInv /\ CleanInv /\ RunInv /\ Engine => RunInv'
<1> SUFFICES ASSUME TypeInv, CleanInv, RunInv, Engine PROVE RunInv'
  OBVIOUS
<1> USE DEF RunInv, Matches
<1>1. ASSUME NEW d \in Devices, StartAssess(d) PROVE RunInv'
  BY <1>1, SentinelAssumption
     DEF StartAssess, store, axisRun, Idle, TypeInv, TypeOK
<1>2. ASSUME NEW a \in Axes, BlindAxis(a) PROVE RunInv'
  <2>1. \A b \in Axes : results'[b] = IF b = a THEN BlankPosture ELSE results[b]
    BY <1>2 DEF BlindAxis, TypeInv, TypeOK
  <2>2. ~Gapless(BlankPosture)
    BY DEF BlankPosture, Gapless
  <2>3. UNCHANGED <<verdicts, txn, device, axis>> /\ axesLeft' = axesLeft \ {a}
    BY <1>2 DEF BlindAxis, store, axisRun
  <2> QED
    BY <1>2, <2>1, <2>2, <2>3 DEF BlindAxis, Gapless
<1>3. ASSUME NEW a \in Axes, StartAxis(a) PROVE RunInv'
  BY <1>3 DEF StartAxis, store, Gapless
<1>4. ASSUME NEW o \in Observers, NEW ans \in Answer, NEW whole \in BOOLEAN,
             Observe(o, ans, whole)
      PROVE  RunInv'
  <2>1. /\ txn' = IF txn = NoTxn THEN verdicts[device] ELSE txn
        /\ UNCHANGED <<verdicts, device, axesLeft, axis, results>>
    BY <1>4 DEF Observe, store
  <2>2. txn' # NoTxn
    BY <1>4, SentinelAssumption DEF Observe, TypeInv, TypeOK, Idle
  <2> QED
    BY <2>1, <2>2 DEF Gapless
<1>5. ASSUME NEW o \in Observers, ObserverCrashes(o) PROVE RunInv'
  BY <1>5 DEF ObserverCrashes, store, Gapless
<1>6. CASE FinishAxis
  <2>1. PICK p \in AxisPostures : results' = [results EXCEPT ![axis] = p]
    BY <1>6 DEF FinishAxis
  <2>2. \A a \in Axes : results'[a] = IF a = axis THEN p ELSE results[a]
    BY <2>1 DEF TypeInv, TypeOK
  <2>3. /\ UNCHANGED <<verdicts, device, axesLeft>>
        /\ axis' = NoAxis
        /\ axis \in Axes
    BY <1>6 DEF FinishAxis, ResetAxis, store, TypeInv, TypeOK
  <2>4. axis' \notin axesLeft'
    BY <2>3, SentinelAssumption DEF TypeInv, TypeOK
  <2>5. CASE txn = NoTxn
    <3>1. found = {} /\ txn' = NoTxn
      BY <1>6, <2>5 DEF FinishAxis, CleanInv
    <3>2. ~Gapless(p)
      BY <3>1 DEF AxisPostures, BlankPosture, Gapless
    <3> QED
      BY <2>2, <2>4, <2>5, <3>1, <3>2 DEF Gapless
  <2>6. CASE txn # NoTxn
    <3> DEFINE rows == CommitDeviceVerdicts(txn[axis], found, complete)
    <3>1. /\ p # NoPosture
          /\ ~p.gap => Matches(p, rows)
          /\ p.gap => rows = txn[axis]
      BY <2>3, <2>6, FinishedAxis
    <3>2. txn \in [Axes -> SUBSET Row] /\ rows \in SUBSET Row
      BY <2>3, <2>6, GateRows DEF TypeInv, TypeOK, AxisRows
    <3>3. txn' = [txn EXCEPT ![axis] = rows]
      BY <1>6, <2>6 DEF FinishAxis
    <3> HIDE DEF rows
    <3>4. \A a \in Axes : txn'[a] = IF a = axis THEN rows ELSE txn[a]
      BY <3>2, <3>3
    <3>5. txn' # NoTxn
      BY <3>2, <3>3, SentinelAssumption DEF AxisRows
    <3>6. ASSUME NEW a \in Axes
          PROVE  /\ Gapless(results'[a]) => Matches(results'[a], txn'[a])
                 /\ a \in axesLeft' => txn'[a] = verdicts'[device'][a]
                 /\ txn'[a] = verdicts'[device'][a] \/ Gapless(results'[a])
      <4>1. CASE a = axis
        BY <2>2, <2>3, <2>6, <3>1, <3>4, <4>1 DEF Gapless
      <4>2. CASE a # axis
        BY <2>2, <2>3, <2>6, <3>4, <4>2 DEF Gapless
      <4> QED
        BY <4>1, <4>2
    <3>7. \A a \in Axes : a # axis'
      BY <2>3, SentinelAssumption
    <3> QED
      BY <2>4, <3>5, <3>6, <3>7 DEF Gapless
  <2> QED
    BY <2>5, <2>6
<1>7. CASE ResetEngine
  BY <1>7 DEF ResetEngine, ResetAxis, Gapless
<1> QED
  BY <1>1, <1>2, <1>3, <1>4, <1>5, <1>6, <1>7
     DEF Engine, CommitAssess, AbortAssess

LEMMA StepRuns == TypeInv /\ CleanInv /\ RunInv /\ [Next]_vars => RunInv'
<1> SUFFICES ASSUME TypeInv, CleanInv, RunInv, [Next]_vars, ~Engine PROVE RunInv'
  BY EngineRuns
<1>1. UNCHANGED <<txn, device, axesLeft, axis, results>>
  BY DEF Next, Refresh, RefreshNvd, RefreshVendors, RefreshDies, Distrust,
         store, engine, axisRun, vars
<1>2. txn = NoTxn \/ UNCHANGED verdicts
  BY DEF Next, Refresh, RefreshNvd, RefreshVendors, RefreshDies, Distrust,
         store, vars
<1> QED
  BY <1>1, <1>2 DEF RunInv, Gapless, Matches

THEOREM RunInvHolds == Spec => [](TypeInv /\ WholeInv /\ RunInv)
<1>1. Init => CleanInv /\ WholeInv /\ RunInv
  BY SentinelAssumption
     DEF Init, CleanInv, Grounded, WholeInv, AllAxesOrNone, RunCovers, Idle,
         RunInv, Gapless
<1> QED
  BY <1>1, StepRuns, StepClean, StepWhole, TypeCorrect, PTL DEF Spec

-----------------------------------------------------------------------------
(* What a step may do to the stored rows and postures.                      *)

\* The other writers lose no verdict.
LEMMA WritersLoseNothing ==
  ASSUME TypeInv, Refresh \/ \E o \in Distrustable : Distrust(o),
         NEW d \in Devices, NEW a \in Axes
  PROVE  ~Lost(verdicts[d][a], verdicts'[d][a])
<1>1. verdicts[d][a] \in SUBSET Row
  BY DEF TypeInv, TypeOK, AxisRows
<1>2. ASSUME NEW K \in SUBSET Keys, NEW O \in SUBSET Observers,
             NEW decided \in [Devices -> Upserts(K, O)],
             verdicts' = Revised(decided)
      PROVE  ~Lost(verdicts[d][a], verdicts'[d][a])
  <2>1. \/ verdicts'[d][a] = verdicts[d][a]
        \/ verdicts'[d][a] = UpsertVerdicts(verdicts[d][a], decided[d])
    BY <1>2, RefreshRows DEF TypeInv
  <2>2. ~Lost(verdicts[d][a], UpsertVerdicts(verdicts[d][a], decided[d]))
    BY <1>1, UpsertRows DEF Lost
  <2> QED
    BY <2>1, <2>2 DEF Lost
<1>3. ASSUME NEW enriched \in SUBSET Keys,
             NEW decided \in [Devices -> Upserts(enriched, {Nvd})],
             RefreshNvd(enriched, decided)
      PROVE  ~Lost(verdicts[d][a], verdicts'[d][a])
  BY <1>2, <1>3, ConstantsAssumption DEF RefreshNvd
<1>4. ASSUME NEW decided, RefreshVendors(decided)
      PROVE  ~Lost(verdicts[d][a], verdicts'[d][a])
  <2> DEFINE vendors == {o \in Observers \ {Nvd} : Speaks[o] = Speaks[Nvd]}
  <2>1. /\ decided \in [Devices -> Upserts(fresh, vendors)]
        /\ verdicts' = Revised(decided)
        /\ fresh \in SUBSET Keys
        /\ vendors \in SUBSET Observers
    BY <1>4 DEF RefreshVendors, TypeInv, TypeOK
  <2> QED
    BY <1>2, <2>1
<1>5. ASSUME NEW o \in Distrustable, Distrust(o)
      PROVE  ~Lost(verdicts[d][a], verdicts'[d][a])
  <2>1. verdicts'[d][a] = MarkRows(verdicts[d][a], o)
    BY <1>5 DEF Distrust
  <2>2. ASSUME NEW r \in verdicts[d][a]
        PROVE  \E s \in verdicts'[d][a] : s.key = r.key /\ s.observer = r.observer
    <3> DEFINE s == [r EXCEPT !.flagged = @ \/ r.observer = o]
    <3>1. s \in verdicts'[d][a]
      BY <2>1 DEF MarkRows
    <3>2. s.key = r.key /\ s.observer = r.observer
      BY <1>1 DEF Row
    <3> QED
      BY <3>1, <3>2
  <2> QED
    BY <2>2 DEF Lost
<1>6. CASE RefreshDies
  BY <1>6 DEF RefreshDies, store, Lost
<1> QED
  BY <1>3, <1>4, <1>5, <1>6 DEF Refresh

\* Rows and postures of one device and axis in a step: nothing changes, or the
\* run's transaction and results land together.
LEMMA RowsLandTogether ==
  ASSUME TypeInv, WholeInv, RunInv, [Next]_vars,
         NEW d \in Devices, NEW a \in Axes
  PROVE  \/ /\ posture'[d][a] = posture[d][a]
            /\ ~Lost(verdicts[d][a], verdicts'[d][a])
         \/ /\ posture'[d][a] # NoPosture
            /\ posture'[d][a].gap => verdicts'[d][a] = verdicts[d][a]
            /\ ~posture'[d][a].gap => Matches(posture'[d][a], verdicts'[d][a])
<1>1. CASE UNCHANGED <<verdicts, posture>>
  BY <1>1 DEF Lost
<1>2. CASE Refresh \/ \E o \in Distrustable : Distrust(o)
  <2>1. UNCHANGED posture
    BY <1>2 DEF Refresh, RefreshNvd, RefreshVendors, RefreshDies, Distrust, store
  <2> QED
    BY <1>2, <2>1, WritersLoseNothing
<1>3. ASSUME NEW e \in Devices, CommitAssess(e), d # e
      PROVE  posture'[d] = posture[d] /\ verdicts'[d] = verdicts[d]
  BY <1>3 DEF CommitAssess, TypeInv, TypeOK
<1>4. ASSUME CommitAssess(d)
      PROVE  /\ posture'[d][a] # NoPosture
             /\ posture'[d][a].gap => verdicts'[d][a] = verdicts[d][a]
             /\ ~posture'[d][a].gap => Matches(posture'[d][a], verdicts'[d][a])
  <2>1. /\ posture'[d] = results
        /\ verdicts'[d] = IF txn = NoTxn THEN verdicts[d] ELSE txn
        /\ device = d
    BY <1>4 DEF CommitAssess, TypeInv, TypeOK
  <2>2. results[a] # NoPosture
    BY <1>4, SentinelAssumption DEF CommitAssess, Idle, WholeInv, RunCovers
  <2> QED
    BY <2>1, <2>2 DEF RunInv, Gapless
<1>5. CASE \E e \in Devices : CommitAssess(e)
  BY <1>3, <1>4, <1>5 DEF Lost
<1> QED
  BY <1>1, <1>2, <1>5
     DEF Next, Engine, StartAssess, BlindAxis, StartAxis, Observe,
         ObserverCrashes, FinishAxis, AbortAssess, store, vars

\* Only a complete fetch of the whole axis takes a verdict away, and it leaves
\* others (the deletion gate, store.py:607-632), for every value of the
\* constants.
THEOREM OnlyCompleteFetchesLose == Spec => LossOnlyByCompleteFetch
<1>1. ASSUME TypeInv, WholeInv, RunInv, [Next]_vars,
             NEW d \in Devices, NEW a \in Axes,
             Lost(verdicts[d][a], verdicts'[d][a])
      PROVE  /\ verdicts'[d][a] # {}
             /\ posture'[d][a] # NoPosture
             /\ ~posture'[d][a].gap
  <2>1. verdicts'[d][a] # verdicts[d][a]
    BY <1>1 DEF Lost
  <2> QED
    BY <1>1, <2>1, RowsLandTogether DEF Matches
<1>2. ASSUME TypeInv, WholeInv, RunInv, [Next]_vars
      PROVE  [\A d \in Devices, a \in Axes :
                Lost(verdicts[d][a], verdicts'[d][a])
                  => /\ verdicts'[d][a] # {}
                     /\ posture'[d][a] # NoPosture
                     /\ ~posture'[d][a].gap]_store
  BY <1>1, <1>2
<1> QED
  BY <1>2, RunInvHolds, PTL DEF Spec, LossOnlyByCompleteFetch

\* A posture without a gap states the worst of the rows that become visible
\* with it (engine.py:236-254), for every value of the constants.
THEOREM PosturesMatchRows == Spec => PostureMatchesRows
<1>1. ASSUME TypeInv, WholeInv, RunInv, [Next]_vars,
             NEW d \in Devices, NEW a \in Axes,
             posture'[d][a] # posture[d][a], ~posture'[d][a].gap
      PROVE  Matches(posture'[d][a], verdicts'[d][a])
  BY <1>1, RowsLandTogether
<1>2. ASSUME TypeInv, WholeInv, RunInv, [Next]_vars
      PROVE  [\A d \in Devices, a \in Axes :
                LET p == posture'[d][a]
                    rows == verdicts'[d][a]
                IN  p # posture[d][a] /\ ~p.gap
                      => /\ \E r \in rows :
                              r.status = p.status /\ r.observer = p.decider
                         /\ \A r \in rows :
                              r.status \in Listed
                                => /\ p.status \in Listed
                                   /\ Dominance[p.status] <= Dominance[r.status]]_store
  BY <1>1, <1>2 DEF Matches
<1> QED
  BY <1>2, RunInvHolds, PTL DEF Spec, PostureMatchesRows
=============================================================================
