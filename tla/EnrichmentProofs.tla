-------------------------- MODULE EnrichmentProofs --------------------------
(***************************************************************************)
(* Proofs about what is written over the rows of the catalog: LlmEnrich,   *)
(* for any catalog, providers and cap, and NvdHeads, for any heads,        *)
(* records, matchers, page size and cap.                                   *)
(*                                                                         *)
(* LlmEnrich.  Its properties are not inductive: what a provider writes    *)
(* depends on the row it has re-read, which other processes may write      *)
(* until the tick's transaction is open.  The invariant adds, of the rows  *)
(* a tick has yet to write and no other tick has crossed it on, that they  *)
(* have no provider's text in them and no distrust mark (the sweep of      *)
(* distrust_provider marks drafted rows only), and of the tick's open      *)
(* transaction, that it agrees with the catalog on the rows yet to write   *)
(* and neither mixes a row nor changes a marked one it was not crossed on. *)
(* Where only one tick runs nothing is ever crossed.                       *)
(*                                                                         *)
(* NvdHeads.  That a complete answer is whole needs, of an answer still    *)
(* under way, that it has the row of every CVE listed before the place it  *)
(* has reached, by rank in a list NVD goes on changing; that a verdict is  *)
(* not lost needs that of all the heads done before.                       *)
(***************************************************************************)
EXTENDS LlmEnrich, NvdHeads, FiniteSetTheorems, TLAPS

\* The label of a real source is on its own text only.
Foreign(row) == row # NoRow /\ row.source \in Real => Providers(row) = {}

\* A row that a tick may still draft.
Open(row) == row # NoRow => ~Drafted(row) /\ row.marked = 0

\* An update that sets nobody's words but m's.
Own(merged, m) == ({merged.score} \cup merged.fixed_raw) \cap Models \subseteq {m}

AllForeign(table) == \A r \in Rows : Foreign(table[r])

\* What holds of the rows the tick t has yet to write.
Awaited(t) ==
  /\ \A r \in Unwritten(t) : r \notin crossed[t] => Open(View(t)[r])
  /\ held[t] # NoDraft =>
       /\ held[t].id \notin queue[t]
       /\ held[t].id \notin crossed[t] => Own(held[t].merged, model[t])

\* What holds of the transaction of t beside what is committed.
Pending(t) ==
  mine[t] # NoTxn =>
    /\ AllForeign(mine[t])
    /\ \A r \in Unwritten(t) : mine[t][r] = defects[r]
    /\ \A r \in Rows :
         r \notin crossed[t] =>
           /\ Mixed(mine[t][r]) => Mixed(defects[r])
           /\ defects[r] # NoRow /\ defects[r].marked = 1
                => mine[t][r] = defects[r]

IInv ==
  /\ TypeOK
  /\ AllForeign(defects)
  /\ \A t \in Ticks : Awaited(t) /\ Pending(t)

-----------------------------------------------------------------------------
(* Rows.                                                                   *)

LEMMA UpsertedRow ==
  ASSUME NEW row \in Row \cup {NoRow}, NEW source \in Real,
         NEW score \in {"nobody", "real"},
         NEW fixed_raw \in SUBSET {"cpe", "package"}
  PROVE  /\ Upserted(row, source, score, fixed_raw) \in Row
         /\ Upserted(row, source, score, fixed_raw).source = source
         /\ Providers(Upserted(row, source, score, fixed_raw)) = {}
         /\ ~Drafted(Upserted(row, source, score, fixed_raw))
         /\ Open(row) => Open(Upserted(row, source, score, fixed_raw))
  <1> DEFINE new == Upserted(row, source, score, fixed_raw)
  <1>1. new.marked \in {0, 1}
    BY DEF Upserted, Row
  <1>2. new \in Row
    BY <1>1 DEF Upserted, Row, Authors, Real
  <1>3. Providers(new) = {}
    BY LlmAssumption DEF Upserted, Providers
  <1>4. ~Drafted(new) /\ new.source = source
    BY LlmAssumption DEF Upserted, Drafted
  <1>5. Open(row) => Open(new)
    BY <1>4 DEF Open, Upserted
  <1> QED
    BY <1>2, <1>3, <1>4, <1>5

LEMMA UpdatedRow ==
  ASSUME NEW now \in Row, NEW merged \in Filling, NEW m \in Models
  PROVE  /\ Updated(now, merged, m) \in Row
         /\ Foreign(Updated(now, merged, m))
         /\ Foreign(now) /\ ~Drafted(now) /\ Own(merged, m)
              => ~Mixed(Updated(now, merged, m))
  <1> DEFINE new == Updated(now, merged, m)
  <1>1. new \in Row
    BY LlmAssumption DEF Updated, Row, Filling
  <1>2. Foreign(new)
    BY LlmAssumption DEF Updated, Foreign
  <1>3. ASSUME Foreign(now), ~Drafted(now), Own(merged, m)
        PROVE  ~Mixed(new)
    <2>1. Providers(now) = {}
      BY <1>3, NoneAssumption DEF Foreign, Drafted, Row
    <2>2. Providers(new) \subseteq {m} /\ new.source = m
      BY <1>3, <2>1 DEF Updated, Providers, Own
    <2> QED
      BY <2>2 DEF Mixed
  <1> QED
    BY <1>1, <1>2, <1>3

-----------------------------------------------------------------------------
(* The invariant.                                                          *)

LEMMA InitInvariant == Init => IInv
  <1> SUFFICES ASSUME Init PROVE IInv
    OBVIOUS
  <1> USE DEF Init
  <1>1. TypeOK
    BY NoneAssumption DEF TypeOK, Catalogs
  <1>2. AllForeign(defects)
    BY DEF AllForeign, Foreign
  <1>3. ASSUME NEW t \in Ticks PROVE Awaited(t) /\ Pending(t)
    BY DEF Awaited, Pending, Unwritten
  <1> QED
    BY <1>1, <1>2, <1>3 DEF IInv

\* What the ticks read, hold and wait for are of these types.
LEMMA Kinds ==
  ASSUME TypeOK, NEW t \in Ticks
  PROVE  /\ View(t) \in Catalogs
         /\ \A r \in Rows : View(t)[r] \in Row \cup {NoRow}
         /\ \A r \in Rows : defects[r] \in Row \cup {NoRow}
         /\ Unwritten(t) \subseteq Rows
         /\ held[t] # NoDraft => held[t] \in Update
         /\ held[t] # NoDraft \/ mine[t] # NoTxn \/ queue[t] # {}
              => model[t] \in Models
  <1>1. View(t) \in Catalogs
    BY DEF TypeOK, View
  <1>2. held[t] # NoDraft => held[t] \in Update
    BY DEF TypeOK
  <1>3. Unwritten(t) \subseteq Rows
    BY <1>2 DEF TypeOK, Unwritten, Update
  <1>4. held[t] # NoDraft \/ mine[t] # NoTxn \/ queue[t] # {}
          => model[t] \in Models
    BY DEF TypeOK
  <1> QED
    BY <1>1, <1>2, <1>3, <1>4 DEF TypeOK, Catalogs

\* While no transaction is open the ticks read what is committed, so a step
\* that writes rows which stay open where they were, and mixes none, keeps
\* the invariant.
LEMMA CommittedStep ==
  ASSUME IInv, Unlocked, UNCHANGED ticks, defects' \in Catalogs,
         AllForeign(defects'),
         \A r \in Rows : Open(defects[r]) => Open(defects'[r])
  PROVE  IInv'
  <1> USE DEF ticks
  <1>1. TypeOK'
    BY DEF IInv, TypeOK
  <1>2. AllForeign(defects)'
    BY DEF AllForeign, Foreign, Providers
  <1>3. ASSUME NEW t \in Ticks PROVE Awaited(t)' /\ Pending(t)'
    <2>1. Unwritten(t)' = Unwritten(t) /\ Unwritten(t) \subseteq Rows
      BY Kinds DEF IInv, Unwritten
    <2>2. View(t) = defects /\ View(t)' = defects'
      BY DEF Unlocked, View
    <2>3. Awaited(t)'
      BY <2>1, <2>2 DEF IInv, Awaited, Own
    <2>4. Pending(t)'
      BY DEF Unlocked, Pending
    <2> QED
      BY <2>3, <2>4
  <1> QED
    BY <1>1, <1>2, <1>3 DEF IInv

\* A write of a real source brings a row that is nobody else's.
LEMMA UpsertWrites ==
  ASSUME TypeOK, NEW r \in Rows, NEW source \in Real,
         NEW fixed_raw \in SUBSET {"cpe", "package"},
         Upsert(r, source, fixed_raw)
  PROVE  \E new \in Row :
           /\ defects' = [defects EXCEPT ![r] = new]
           /\ new.source = source /\ Providers(new) = {} /\ ~Drafted(new)
           /\ Open(defects[r]) => Open(new)
  <1>1. PICK score \in {"nobody", "real"} :
          defects' = [defects EXCEPT
                        ![r] = Upserted(@, source, score, fixed_raw)]
    BY DEF Upsert
  <1>2. defects[r] \in Row \cup {NoRow}
    BY DEF TypeOK, Catalogs
  <1> DEFINE new == Upserted(defects[r], source, score, fixed_raw)
  <1>3. /\ new \in Row
        /\ new.source = source /\ Providers(new) = {} /\ ~Drafted(new)
        /\ Open(defects[r]) => Open(new)
    BY <1>2, UpsertedRow
  <1>4. defects' = [defects EXCEPT ![r] = new]
    BY <1>1
  <1> HIDE DEF new
  <1> QED
    BY <1>3, <1>4

\* Every write of a real source is one upsert, or takes a row away.
LEMMA RealSourcesWrite ==
  ASSUME TypeOK, RealSources
  PROVE  /\ Unlocked /\ UNCHANGED ticks
         /\ \E r \in Rows : \E new \in Row \cup {NoRow} :
              /\ defects' = [defects EXCEPT ![r] = new]
              /\ new # NoRow => Providers(new) = {} /\ ~Drafted(new)
              /\ Open(defects[r]) => Open(new)
  <1> DEFINE Written ==
        /\ Unlocked /\ UNCHANGED ticks
        /\ \E r \in Rows : \E new \in Row \cup {NoRow} :
             /\ defects' = [defects EXCEPT ![r] = new]
             /\ new # NoRow => Providers(new) = {} /\ ~Drafted(new)
             /\ Open(defects[r]) => Open(new)
  <1>1. ASSUME NEW r \in Rows, NEW source \in Real,
               NEW fixed_raw \in SUBSET {"cpe", "package"},
               Upsert(r, source, fixed_raw)
        PROVE  Written
    <2>1. PICK new \in Row :
            /\ defects' = [defects EXCEPT ![r] = new]
            /\ Providers(new) = {} /\ ~Drafted(new)
            /\ Open(defects[r]) => Open(new)
      BY <1>1, UpsertWrites
    <2> QED
      BY <1>1, <2>1 DEF Upsert
  <1>2. ASSUME NEW r \in Rows, Purge(r) PROVE Written
    BY <1>2 DEF Purge, Open
  <1>3. CASE \E r \in Rows : TakeSkeleton(r)
    BY <1>1, <1>3 DEF TakeSkeleton, Real
  <1>4. CASE \E r \in Rows : EnrichPending(r)
    BY <1>1, <1>4 DEF EnrichPending, Real
  <1>5. CASE \E r \in Rows : IngestCpe(r) \/ IngestPeer(r)
    BY <1>1, <1>5 DEF IngestCpe, IngestPeer, Real
  <1>6. Written
    BY <1>2, <1>3, <1>4, <1>5 DEF RealSources
  <1> QED
    BY <1>6 DEF Written

LEMMA RealSourcesStep == IInv /\ RealSources => IInv'
  <1> SUFFICES ASSUME IInv, RealSources PROVE IInv'
    OBVIOUS
  <1>1. TypeOK
    BY DEF IInv
  <1>2. Unlocked /\ UNCHANGED ticks
    BY <1>1, RealSourcesWrite
  <1>3. PICK r \in Rows, new \in Row \cup {NoRow} :
          /\ defects' = [defects EXCEPT ![r] = new]
          /\ new # NoRow => Providers(new) = {} /\ ~Drafted(new)
          /\ Open(defects[r]) => Open(new)
    BY <1>1, RealSourcesWrite
  <1>4. defects' \in Catalogs
    BY <1>1, <1>3 DEF TypeOK, Catalogs
  <1>5. AllForeign(defects')
    BY <1>1, <1>3 DEF IInv, TypeOK, Catalogs, AllForeign, Foreign
  <1>6. \A s \in Rows : Open(defects[s]) => Open(defects'[s])
    BY <1>1, <1>3 DEF TypeOK, Catalogs
  <1> QED
    BY <1>2, <1>4, <1>5, <1>6, CommittedStep

\* Another tick goes on beside t: what t waits for and holds is as before.
LEMMA OtherTick ==
  ASSUME IInv, NEW t \in Ticks,
         UNCHANGED <<defects, model[t], queue[t], held[t], mine[t], crossed[t]>>
  PROVE  Awaited(t)' /\ Pending(t)'
  <1>1. View(t)' = View(t) /\ Unwritten(t)' = Unwritten(t)
    BY DEF View, Unwritten
  <1>2. Awaited(t) /\ Pending(t)
    BY DEF IInv
  <1> QED
    BY <1>1, <1>2 DEF Awaited, Pending, Own, AllForeign, Foreign, Providers, Mixed

LEMMA StartStep ==
  ASSUME IInv, NEW t \in Ticks, NEW m \in Models, StartTick(t, m)
  PROVE  IInv'
  <1> USE DEF StartTick
  <1>1. held[t] = NoDraft /\ mine[t] = NoTxn
    BY DEF IInv, TypeOK
  <1>2. queue'[t] \subseteq {r \in Pool(defects) : defects[r].marked = 0}
    BY DEF IInv, TypeOK, ThinDefectIds, FirstOf
  <1>3. TypeOK'
    BY <1>1, <1>2, LlmAssumption DEF IInv, TypeOK, Pool
  <1>4. Awaited(t)' /\ Pending(t)'
    <2>1. \A r \in queue'[t] : Open(defects[r])
      BY <1>2 DEF Open, Pool
    <2>2. View(t)' = defects /\ Unwritten(t)' = queue'[t]
      BY <1>1 DEF View, Unwritten
    <2>3. Awaited(t)'
      BY <1>1, <2>1, <2>2 DEF Awaited
    <2>4. Pending(t)'
      BY <1>1 DEF Pending
    <2> QED
      BY <2>3, <2>4
  <1>5. ASSUME NEW s \in Ticks, s # t PROVE Awaited(s)' /\ Pending(s)'
    BY <1>5, OtherTick DEF IInv, TypeOK
  <1> QED
    BY <1>3, <1>4, <1>5 DEF IInv, AllForeign

LEMMA SkipStep ==
  ASSUME IInv, NEW t \in Ticks, NEW r \in Rows, SkipRow(t, r)
  PROVE  IInv'
  <1> USE DEF SkipRow
  <1>1. held[t] = NoDraft /\ r \in queue[t]
    BY DEF NextRow
  <1>2. TypeOK'
    BY <1>1 DEF IInv, TypeOK
  <1>3. Awaited(t)' /\ Pending(t)'
    <2>1. Awaited(t) /\ Pending(t)
      BY DEF IInv
    <2>2. queue'[t] = queue[t] \ {r} /\ crossed'[t] = crossed[t] \ {r}
      BY DEF IInv, TypeOK
    <2>3. View(t)' = View(t) /\ Unwritten(t) = queue[t]
            /\ Unwritten(t)' = queue[t] \ {r}
      BY <1>1, <2>2 DEF View, Unwritten
    <2>4. Awaited(t)'
      BY <1>1, <2>1, <2>2, <2>3 DEF Awaited
    <2>5. Pending(t)'
      <3> SUFFICES ASSUME mine[t] # NoTxn PROVE Pending(t)'
        BY DEF Pending
      <3>1. mine[t][r] = defects[r]
        BY <1>1, <2>1, <2>3 DEF Pending
      <3>2. \A s \in Rows :
              s \notin crossed'[t] =>
                /\ Mixed(mine[t][s]) => Mixed(defects[s])
                /\ defects[s] # NoRow /\ defects[s].marked = 1
                     => mine[t][s] = defects[s]
        BY <2>1, <2>2, <3>1 DEF Pending
      <3>3. AllForeign(mine[t]) /\ \A s \in Unwritten(t)' : mine[t][s] = defects[s]
        BY <2>1, <2>3 DEF Pending
      <3> QED
        BY <3>2, <3>3 DEF Pending, AllForeign, Foreign, Providers, Mixed
    <2> QED
      BY <2>4, <2>5
  <1>4. ASSUME NEW s \in Ticks, s # t PROVE Awaited(s)' /\ Pending(s)'
    BY <1>4, OtherTick DEF IInv, TypeOK
  <1> QED
    BY <1>2, <1>3, <1>4 DEF IInv, AllForeign, Foreign, Providers

LEMMA ArrivalStep ==
  ASSUME IInv, NEW t \in Ticks, NEW r \in Rows, NEW draft \in Draft,
         DraftArrives(t, r, draft)
  PROVE  IInv'
  <1> USE DEF DraftArrives
  <1> DEFINE merged == Merged(View(t)[r], draft, model[t])
  <1>1. held[t] = NoDraft /\ r \in queue[t] /\ Unwritten(t) = queue[t]
    BY DEF NextRow, Unwritten
  <1>2. TypeOK /\ Awaited(t) /\ Pending(t)
    BY DEF IInv
  <1>3. View(t)[r] \in Row /\ model[t] \in Models
    BY <1>1, <1>2, Kinds
  <1>4. merged \in Filling
    BY <1>3 DEF Merged, Filling, Row, Authors
  <1>5. held' = [held EXCEPT ![t] = [id |-> r, merged |-> merged]]
    OBVIOUS
  <1>6. [id |-> r, merged |-> merged] \in Update
    BY <1>4 DEF Update
  <1>7. AllForeign(View(t))
    BY <1>2 DEF IInv, Pending, View
  <1>8. r \notin crossed[t] => Own(merged, model[t])
    <2> SUFFICES ASSUME r \notin crossed[t] PROVE Own(merged, model[t])
      OBVIOUS
    <2>1. Open(View(t)[r])
      BY <1>1, <1>2 DEF Awaited
    <2>2. Providers(View(t)[r]) = {}
      BY <1>3, <1>7, <2>1, NoneAssumption
        DEF AllForeign, Foreign, Open, Drafted, Row
    <2> QED
      BY <1>3, <2>2, LlmAssumption DEF Merged, Own, Providers
  <1> HIDE DEF merged
  <1>9. TypeOK'
    BY <1>2, <1>3, <1>5, <1>6, LlmAssumption DEF TypeOK
  <1>10. held'[t] = [id |-> r, merged |-> merged] /\ queue'[t] = queue[t] \ {r}
    BY <1>2, <1>5 DEF TypeOK
  <1>11. Awaited(t)' /\ Pending(t)'
    <2>1. View(t)' = View(t) /\ Unwritten(t)' = Unwritten(t)
      BY <1>1, <1>6, <1>10, NoneAssumption DEF View, Unwritten
    <2>2. Awaited(t)'
      BY <1>2, <1>8, <1>10, <2>1 DEF Awaited, Own
    <2>3. Pending(t)'
      BY <1>2, <2>1 DEF Pending, AllForeign, Foreign, Providers, Mixed
    <2> QED
      BY <2>2, <2>3
  <1>12. ASSUME NEW s \in Ticks, s # t PROVE Awaited(s)' /\ Pending(s)'
    BY <1>12, OtherTick DEF IInv, TypeOK
  <1> QED
    BY <1>9, <1>11, <1>12 DEF IInv, AllForeign, Foreign, Providers

LEMMA WriteStep ==
  ASSUME IInv, NEW t \in Ticks, WriteDraft(t)
  PROVE  IInv'
  <1> USE DEF WriteDraft
  <1> DEFINE id == held[t].id
             merged == held[t].merged
             now == View(t)[id]
             new == Updated(now, merged, model[t])
  <1>1. TypeOK /\ Awaited(t) /\ Pending(t)
    BY DEF IInv
  <1>2. /\ View(t) \in Catalogs /\ held[t] \in Update /\ model[t] \in Models
        /\ \A r \in Rows : View(t)[r] \in Row \cup {NoRow}
    BY <1>1, Kinds
  <1>3. id \in Rows /\ merged \in Filling /\ id \in Unwritten(t)
    BY <1>2 DEF Update, Unwritten
  <1>4. AllForeign(View(t))
    BY <1>1 DEF IInv, Pending, View
  <1>5. now # NoRow =>
          /\ new \in Row /\ Foreign(new)
          /\ Foreign(now) /\ ~Drafted(now) /\ Own(merged, model[t])
               => ~Mixed(new)
    BY <1>2, <1>3, UpdatedRow
  <1>6. mine'[t] = [r \in Rows |-> IF r = id /\ now # NoRow
                                   THEN new ELSE View(t)[r]]
    BY <1>1 DEF TypeOK
  <1> HIDE DEF new
  <1>7. mine'[t] \in Catalogs
    BY <1>2, <1>5, <1>6 DEF Catalogs
  <1>8. mine'[t] # NoTxn
    BY <1>7, NoneAssumption
  <1>9. TypeOK'
    BY <1>1, <1>2, <1>7, LlmAssumption DEF TypeOK
  <1>10. AllForeign(mine'[t])
    BY <1>2, <1>4, <1>5, <1>6 DEF AllForeign
  <1>11. View(t)' = mine'[t]
    BY <1>8 DEF View
  <1>12. Unwritten(t)' = queue[t] /\ id \notin queue[t]
           /\ queue[t] \subseteq Unwritten(t)
    BY <1>1 DEF TypeOK, Unwritten, Awaited
  <1>13. \A r \in queue[t] : mine'[t][r] = View(t)[r]
    BY <1>1, <1>6, <1>12 DEF TypeOK
  <1>14. Awaited(t)'
    <2>1. \A r \in queue[t] : r \notin crossed[t] => Open(mine'[t][r])
      BY <1>1, <1>12, <1>13 DEF Awaited
    <2>2. held'[t] = NoDraft
      BY <1>1 DEF TypeOK
    <2> QED
      BY <1>11, <1>12, <2>1, <2>2 DEF Awaited
  \* Before the write the tick's view agrees with the catalog as Pending asks.
  <1>15. /\ \A r \in Unwritten(t) : View(t)[r] = defects[r]
         /\ \A r \in Rows : r \notin crossed[t] =>
              /\ Mixed(View(t)[r]) => Mixed(defects[r])
              /\ defects[r] # NoRow /\ defects[r].marked = 1
                   => View(t)[r] = defects[r]
    BY <1>1 DEF Pending, View
  <1>16. ASSUME NEW r \in Rows, r \notin crossed[t]
         PROVE  /\ Mixed(mine'[t][r]) => Mixed(defects[r])
                /\ defects[r] # NoRow /\ defects[r].marked = 1
                     => mine'[t][r] = defects[r]
    <2>1. CASE r = id /\ now # NoRow
      <3>1. Open(now) /\ Own(merged, model[t])
        BY <1>1, <1>3, <1>16, <2>1, <1>2 DEF Awaited
      <3>2. Foreign(now) /\ ~Drafted(now) /\ now.marked = 0
        BY <1>4, <1>3, <2>1, <3>1 DEF AllForeign, Open
      <3>3. ~Mixed(new) /\ mine'[t][r] = new
        BY <1>5, <1>6, <2>1, <3>1, <3>2
      <3>4. now = defects[r]
        BY <1>3, <1>15, <2>1
      <3> QED
        BY <3>2, <3>3, <3>4
    <2>2. CASE ~(r = id /\ now # NoRow)
      BY <1>6, <1>15, <1>16, <2>2
    <2> QED
      BY <2>1, <2>2
  <1>17. Pending(t)'
    <2>1. \A r \in Unwritten(t)' : mine'[t][r] = defects[r]
      BY <1>12, <1>13, <1>15
    <2> QED
      BY <1>10, <1>16, <2>1
        DEF Pending, AllForeign, Foreign, Providers, Mixed
  <1>18. ASSUME NEW s \in Ticks, s # t PROVE Awaited(s)' /\ Pending(s)'
    BY <1>18, OtherTick DEF IInv, TypeOK
  <1> QED
    BY <1>9, <1>14, <1>17, <1>18 DEF IInv, AllForeign, Foreign, Providers

\* The commit of t, or its death, seen by another tick: where t changed a row
\* that the other one has yet to write, they are crossed on it.
LEMMA EndSeen ==
  ASSUME IInv, NEW t \in Ticks, CommitTick(t) \/ TickDies(t),
         NEW s \in Ticks, s # t
  PROVE  Awaited(s)' /\ Pending(s)'
  <1> USE DEF EndTick
  <1>1. TypeOK /\ Awaited(s) /\ Pending(s)
    BY DEF IInv
  <1>2. UNCHANGED <<model[s], queue[s], held[s], mine[s]>>
    BY <1>1 DEF TypeOK, CommitTick, TickDies
  <1>3. CASE defects' = defects /\ crossed'[s] = crossed[s]
    BY <1>2, <1>3, OtherTick
  <1>4. CASE ~(defects' = defects /\ crossed'[s] = crossed[s])
    <2>1. CommitTick(t)
      BY <1>1, <1>4 DEF TickDies, TypeOK
    <2>2. crossed'[s] = crossed[s] \cup
                          {r \in Unwritten(s) : defects'[r] # defects[r]}
      BY <2>1 DEF CommitTick
    <2>3. mine[t] # NoTxn
      BY <1>4, <2>1, <2>2 DEF CommitTick, View
    <2>4. mine[s] = NoTxn
      BY <1>1, <2>3 DEF TypeOK
    <2>5. View(s) = defects /\ View(s)' = defects'
            /\ Unwritten(s)' = Unwritten(s)
      BY <1>2, <2>4 DEF View, Unwritten
    <2>6. \A r \in Unwritten(s) : r \notin crossed'[s] => Open(defects'[r])
      BY <1>1, <2>2, <2>5 DEF Awaited
    <2>7. Awaited(s)'
      BY <1>1, <1>2, <2>2, <2>5, <2>6 DEF Awaited, Own
    <2>8. Pending(s)'
      BY <1>2, <2>4 DEF Pending
    <2> QED
      BY <2>7, <2>8
  <1> QED
    BY <1>3, <1>4

LEMMA EndStep ==
  ASSUME IInv, NEW t \in Ticks, CommitTick(t) \/ TickDies(t)
  PROVE  IInv'
  <1> USE DEF EndTick
  <1>1. TypeOK /\ Pending(t)
    BY DEF IInv
  <1>2. defects' \in Catalogs /\ AllForeign(defects')
    BY <1>1, Kinds DEF CommitTick, TickDies, View, Pending, IInv, TypeOK
  <1>3. crossed' \in [Ticks -> SUBSET Rows]
    <2>1. CASE CommitTick(t)
      <3>1. \A s \in Ticks : crossed[s] \subseteq Rows /\ Unwritten(s) \subseteq Rows
        BY <1>1, Kinds DEF TypeOK
      <3> QED
        BY <2>1, <3>1 DEF CommitTick
    <2>2. CASE TickDies(t)
      BY <1>1, <2>2 DEF TickDies, TypeOK
    <2> QED
      BY <2>1, <2>2
  <1>4. /\ model' = [model EXCEPT ![t] = NoDraft]
        /\ queue' = [queue EXCEPT ![t] = {}]
        /\ held' = [held EXCEPT ![t] = NoDraft]
        /\ mine' = [mine EXCEPT ![t] = NoTxn]
    BY DEF CommitTick, TickDies
  <1>5. TypeOK'
    BY <1>1, <1>2, <1>3, <1>4 DEF TypeOK
  <1>6. Awaited(t)' /\ Pending(t)'
    BY <1>1, <1>4 DEF Awaited, Pending, Unwritten, TypeOK
  <1>7. ASSUME NEW s \in Ticks, s # t PROVE Awaited(s)' /\ Pending(s)'
    BY <1>7, EndSeen
  <1>8. AllForeign(defects)'
    BY <1>2 DEF AllForeign, Foreign, Providers
  <1> QED
    BY <1>5, <1>6, <1>7, <1>8 DEF IInv

\* What the sweep of distrust_provider makes of a row.
Swept(row, m) ==
  IF row # NoRow /\ row.source = m THEN [row EXCEPT !.marked = 1] ELSE row

LEMMA SweptRow ==
  ASSUME NEW row \in Row \cup {NoRow}, NEW m \in Models
  PROVE  /\ Swept(row, m) \in Row \cup {NoRow}
         /\ Foreign(row) => Foreign(Swept(row, m))
         /\ Open(row) => Open(Swept(row, m))
         /\ Mixed(Swept(row, m)) => Mixed(row)
         /\ row # NoRow /\ row.marked = 1 => Swept(row, m) = row
  BY NoneAssumption DEF Swept, Row, Foreign, Open, Drafted, Mixed, Providers

LEMMA DistrustSweeps ==
  ASSUME TypeOK, NEW m \in Models, DistrustProvider(m)
  PROVE  /\ defects' = [r \in Rows |-> Swept(defects[r], m)]
         /\ \A r \in Rows : defects[r] \in Row \cup {NoRow}
  BY DEF DistrustProvider, Swept, TypeOK, Catalogs

LEMMA DistrustStep ==
  ASSUME IInv, NEW m \in Models, DistrustProvider(m)
  PROVE  IInv'
  <1>1. /\ defects' = [r \in Rows |-> Swept(defects[r], m)]
        /\ \A r \in Rows : defects[r] \in Row \cup {NoRow}
    BY DistrustSweeps DEF IInv
  <1>2. defects' \in Catalogs /\ AllForeign(defects')
    BY <1>1, SweptRow DEF IInv, AllForeign, Catalogs
  <1>3. \A r \in Rows : Open(defects[r]) => Open(defects'[r])
    BY <1>1, SweptRow
  <1> QED
    BY <1>2, <1>3, CommittedStep DEF DistrustProvider

LEMMA NextInvariant == IInv /\ [Next]_vars => IInv'
  <1> SUFFICES ASSUME IInv, [Next]_vars PROVE IInv'
    OBVIOUS
  <1>1. CASE RealSources
    BY <1>1, RealSourcesStep
  <1>2. ASSUME NEW t \in Ticks, Enrich(t) PROVE IInv'
    BY <1>2, StartStep, SkipStep, ArrivalStep, WriteStep, EndStep DEF Enrich
  <1>3. CASE Operator
    BY <1>3, DistrustStep DEF Operator
  <1>4. CASE UNCHANGED vars
    <2> USE <1>4 DEF vars, ticks
    <2>1. TypeOK'
      BY DEF IInv, TypeOK
    <2>2. \A t \in Ticks : Awaited(t)' /\ Pending(t)'
      BY OtherTick
    <2>3. AllForeign(defects)'
      BY DEF IInv, AllForeign, Foreign, Providers
    <2> QED
      BY <2>1, <2>2, <2>3 DEF IInv
  <1> QED
    BY <1>1, <1>2, <1>3, <1>4 DEF Next

LEMMA Invariant == Spec => []IInv
  BY InitInvariant, NextInvariant, PTL DEF Spec

-----------------------------------------------------------------------------
(* The theorems.                                                           *)

\* The catalog, the ticks and their transactions keep their types: whatever
\* the interleaving, a tick that is over holds no update and no transaction,
\* and no two transactions are open (llm_enrich_tick and _cmd_enrich_llm).
THEOREM LlmTypeCorrect == Spec => []TypeOK
  <1>1. IInv => TypeOK
    BY DEF IInv
  <1> QED
    BY <1>1, Invariant, PTL

\* No row that the assess path decides from holds a word of a provider, for
\* any ticks that overlap (defects_for_cpe_head over upsert_llm_draft and
\* upsert_defect).
THEOREM DraftsNeverDecide == Spec => []NoDraftDecides
  <1>1. IInv => NoDraftDecides
    BY DEF IInv, AllForeign, Foreign, NoDraftDecides, Decidable, Real
  <1> QED
    BY <1>1, Invariant, PTL

\* A step changes a row to a provider's words under another's label, or
\* drafts a retracted row again, only by committing a tick that was crossed.
LEMMA OnlyByCrossing ==
  ASSUME IInv, Next, NEW r \in Rows
  PROVE  /\ Mixed(defects'[r]) =>
              Mixed(defects[r]) \/ \E t \in Ticks : r \in crossed[t]
         /\ defects[r] # NoRow /\ defects'[r] # NoRow
              => (defects[r].marked = 1 /\ Drafted(defects'[r])
                    => \/ defects'[r] = defects[r]
                       \/ \E t \in Ticks : r \in crossed[t])
  <1>1. TypeOK /\ defects[r] \in Row \cup {NoRow}
    BY DEF IInv, TypeOK, Catalogs
  <1>2. CASE RealSources
    <2>1. PICK s \in Rows, new \in Row \cup {NoRow} :
            /\ defects' = [defects EXCEPT ![s] = new]
            /\ new # NoRow => Providers(new) = {} /\ ~Drafted(new)
      BY <1>1, <1>2, RealSourcesWrite
    <2>2. ~Mixed(new)
      BY <2>1 DEF Mixed
    <2>3. defects'[r] = defects[r] \/ defects'[r] = new
      BY <1>1, <2>1 DEF TypeOK, Catalogs
    <2> QED
      BY <2>1, <2>2, <2>3
  <1>3. ASSUME NEW t \in Ticks, CommitTick(t)
        PROVE  \/ r \in crossed[t]
               \/ /\ Mixed(defects'[r]) => Mixed(defects[r])
                  /\ defects[r] # NoRow /\ defects[r].marked = 1
                       => defects'[r] = defects[r]
    BY <1>3 DEF CommitTick, View, IInv, Pending
  <1>4. ASSUME NEW t \in Ticks, Enrich(t), ~CommitTick(t)
        PROVE  defects' = defects
    BY <1>4 DEF Enrich, StartTick, SkipRow, DraftArrives, WriteDraft, TickDies
  <1>5. CASE Operator
    <2>1. PICK m \in Models : DistrustProvider(m)
      BY <1>5 DEF Operator
    <2>2. defects'[r] = Swept(defects[r], m)
      BY <1>1, <2>1, DistrustSweeps
    <2> QED
      BY <1>1, <2>2, SweptRow
  <1> QED
    BY <1>2, <1>3, <1>4, <1>5 DEF Next

\* For any providers, ticks and caps, whatever overlaps: a provider's words
\* come to stand under another's label only where two ticks crossed on the
\* row (upsert_llm_draft).
THEOREM MixingNeedsCrossing == Spec => MixedOnlyByCrossing
  <1> DEFINE Step == \A r \in Rows :
        Mixed(defects'[r])
          => Mixed(defects[r]) \/ \E t \in Ticks : r \in crossed[t]
  <1>1. IInv /\ [Next]_vars => [Step]_vars
    BY OnlyByCrossing
  <1> QED
    BY <1>1, Invariant, PTL DEF Spec, MixedOnlyByCrossing

\* A row whose draft was retracted is drafted again, by whichever provider
\* and whatever a real source makes of it, only where two ticks crossed on
\* it (thin_defect_ids and upsert_llm_draft).
THEOREM RedraftingNeedsCrossing == Spec => RedraftedOnlyByCrossing
  <1> DEFINE Step == \A r \in Rows :
        defects[r] # NoRow /\ defects'[r] # NoRow
          => (defects[r].marked = 1 /\ Drafted(defects'[r])
                => \/ defects'[r] = defects[r]
                   \/ \E t \in Ticks : r \in crossed[t])
  <1>1. IInv /\ [Next]_vars => [Step]_vars
    BY OnlyByCrossing
  <1> QED
    BY <1>1, Invariant, PTL DEF Spec, RedraftedOnlyByCrossing

\* With one tick nothing is crossed, and so no row is mixed.
Alone == (\A t \in Ticks : crossed[t] = {}) /\ (\A r \in Rows : ~Mixed(defects[r]))

LEMMA AloneStays ==
  ASSUME \A s, t \in Ticks : s = t
  PROVE  Spec => []Alone
  <1>1. Init => Alone
    BY DEF Init, Alone, Mixed
  <1>2. IInv /\ Alone /\ [Next]_vars => Alone'
    <2> SUFFICES ASSUME IInv, Alone, [Next]_vars PROVE Alone'
      OBVIOUS
    <2>1. CASE UNCHANGED vars
      BY <2>1 DEF vars, ticks, Alone, Mixed, Providers
    <2>2. CASE Next
      <3>1. \A r \in Rows : ~Mixed(defects'[r])
        BY <2>2, OnlyByCrossing DEF Alone
      <3>2. \A t \in Ticks : crossed'[t] = {}
        <4>1. CASE UNCHANGED ticks
          BY <4>1 DEF ticks, Alone
        <4>2. ASSUME NEW t \in Ticks, Enrich(t)
              PROVE  \A s \in Ticks : crossed'[s] = {}
          BY <4>2 DEF Enrich, StartTick, SkipRow, DraftArrives, WriteDraft,
            CommitTick, TickDies, Alone, IInv, TypeOK
        <4>3. RealSources \/ Operator => UNCHANGED ticks
          BY RealSourcesWrite DEF Operator, DistrustProvider, IInv
        <4> QED
          BY <2>2, <4>1, <4>2, <4>3 DEF Next
      <3> QED
        BY <3>1, <3>2 DEF Alone, Mixed, Providers
    <2> QED
      BY <2>1, <2>2
  <1> QED
    BY <1>1, <1>2, Invariant, PTL DEF Spec

\* Where no two ticks overlap, whatever a provider wrote is in rows that carry
\* its label, so that one sweep reaches it (llm_enrich.py:82-84).
THEOREM DraftsAreLabelled ==
  ASSUME \A s, t \in Ticks : s = t
  PROVE  Spec => []RetractableInOneSweep
  <1>1. Alone => RetractableInOneSweep
    BY DEF Alone, RetractableInOneSweep
  <1> QED
    BY <1>1, AloneStays, PTL

\* Where no two ticks overlap, a row whose draft was retracted is never
\* drafted again (llm_enrich.py:518-520).
THEOREM RetractionsStick ==
  ASSUME \A s, t \in Ticks : s = t
  PROVE  Spec => RetractedStayOut
  <1> DEFINE Step == \A r \in Rows :
        defects[r] # NoRow /\ defects'[r] # NoRow
          => (defects[r].marked = 1 /\ Drafted(defects'[r])
                => defects'[r] = defects[r])
  <1>1. IInv /\ Alone /\ [Next]_vars => [Step]_vars
    BY OnlyByCrossing DEF Alone
  <1> QED
    BY <1>1, Invariant, AloneStays, PTL DEF Spec, RetractedStayOut

-----------------------------------------------------------------------------
(* NvdHeads: the answer to a query, the device's verdicts, the catalog.    *)

\* What NVD may come to say of any CVE.
Known == UNION {RecordsOf[c] : c \in Cves}

\* The query of a head has the row of a CVE, and it concerns the head.
Gathered(c, head) == c \in DOMAIN rows /\ Lists(Ranges(rows[c]), head)

HeadsTypeOK ==
  /\ record \in [Cves -> Known \cup {NoRecord}]
  /\ \E S \in SUBSET Cves : rows \in [S -> Known]
  /\ client \in {"none", "assess", "ingest"}
  /\ turn \in 1 .. Len(Matchers) + 1
  /\ start \in Nat
  /\ ended \in {"no", "complete", "incomplete"}
  /\ found \in [Cves -> Verdicts \cup {NoVerdict}]
  /\ whole \in BOOLEAN
  /\ steady \in [Heads -> SUBSET Cves]
  /\ shifted \in SUBSET Heads
  /\ denied \in SUBSET Heads

\* A query is between two pages only while its client asks for its head.
QueryOK ==
  /\ ended # "no" => client # "none" /\ turn <= Len(Matchers) /\ start = 0
  /\ client = "none" \/ turn > Len(Matchers) => start = 0

SteadyConcerned == \A h \in Heads : steady[h] \subseteq Concerned(record, h)

\* What the query has walked past it has, unless the list moved under it.
WalkedIsGathered ==
  \A head \in Heads :
    Paging /\ head = QueriedHead /\ head \notin shifted
      => \A c \in steady[head] : Rank(head, c) < start => Gathered(c, head)

CompleteIsWhole ==
  \A head \in Heads :
    ended = "complete" /\ head = QueriedHead /\ head \notin shifted
      => \/ rows = NoRows /\ head \in denied
         \/ \A c \in steady[head] : Gathered(c, head)

\* The heads an assessment is through with have given their verdicts.
HeadsDoneAreFound ==
  client = "assess" /\ whole
    => \A i \in 1 .. Len(Matchers) :
         i < turn /\ Matchers[i].head \notin shifted \cup denied
           => \A c \in steady[Matchers[i].head] : found[c] # NoVerdict

HeadsInv == /\ HeadsTypeOK
            /\ QueryOK
            /\ SteadyConcerned
            /\ WalkedIsGathered
            /\ CompleteIsWhole
            /\ HeadsDoneAreFound

\* A row of the catalog is what Ranges keeps of the record it was made from.
CatalogIsProjected ==
  /\ DOMAIN catalog = Cves
  /\ DOMAIN origin = Cves
  /\ \A c \in Cves :
       catalog[c] # NoRecord =>
         origin[c] \in Known /\ catalog[c] = Ranges(origin[c])

-----------------------------------------------------------------------------
(* One CVE against one version.                                            *)

\* Of some finite sets, none of the others is within the least.
LEMMA LeastSet ==
  ASSUME NEW T \in SUBSET SUBSET Nat, T # {}, \A P \in T : IsFiniteSet(P)
  PROVE  \E P \in T : \A Q \in T : Q \subseteq P => Q = P
  <1>1. T \subseteq FiniteSubsetsOf(Nat)
    BY DEF FiniteSubsetsOf
  <1>2. PICK P \in T : \A Q \in T : ~ (<<Q, P>> \in StrictSubsetOrdering(Nat))
    BY <1>1, WFMin, FS_StrictSubsetOrderingWellFounded
  <1> QED
    BY <1>2 DEF StrictSubsetOrdering

LEMMA LeastIsIn ==
  ASSUME NEW S \in SUBSET Nat, S # {}
  PROVE  Min(S) \in S
  <1> DEFINE T == {0 .. i : i \in S}
  <1>0. ASSUME NEW i \in S PROVE IsFiniteSet(0 .. i)
    <2>1. i \in Int /\ 0 \in Int
      OBVIOUS
    <2> QED
      BY <2>1, FS_Interval
  <1>1. T \in SUBSET SUBSET Nat /\ T # {} /\ \A P \in T : IsFiniteSet(P)
    <2>1. T \in SUBSET SUBSET Nat
      OBVIOUS
    <2>2. T # {}
      OBVIOUS
    <2> QED
      BY <1>0, <2>1, <2>2
  <1>2. PICK P \in T : \A Q \in T : Q \subseteq P => Q = P
    BY <1>1, LeastSet
  <1>3. PICK x \in S : P = 0 .. x
    OBVIOUS
  <1>4. ASSUME NEW y \in S PROVE x =< y
    <2>1. 0 .. y \subseteq 0 .. x => 0 .. y = 0 .. x
      BY <1>2, <1>3
    <2> QED
      BY <2>1
  <1> QED
    BY <1>4 DEF Min

LEMMA GreatestIsIn ==
  ASSUME NEW n \in Nat, NEW S \in SUBSET (0 .. n), S # {}
  PROVE  Max(S) \in S
  <1> DEFINE T == {i .. n : i \in S}
  <1>0. ASSUME NEW i \in S PROVE IsFiniteSet(i .. n)
    <2>1. i \in Int /\ n \in Int
      OBVIOUS
    <2> QED
      BY <2>1, FS_Interval
  <1>1. T \in SUBSET SUBSET Nat /\ T # {} /\ \A P \in T : IsFiniteSet(P)
    <2>1. T \in SUBSET SUBSET Nat
      OBVIOUS
    <2>2. T # {}
      OBVIOUS
    <2> QED
      BY <1>0, <2>1, <2>2
  <1>2. PICK P \in T : \A Q \in T : Q \subseteq P => Q = P
    BY <1>1, LeastSet
  <1>3. PICK x \in S : P = x .. n
    OBVIOUS
  <1>4. ASSUME NEW y \in S PROVE x >= y
    <2>1. y .. n \subseteq x .. n => y .. n = x .. n
      BY <1>2, <1>3
    <2> QED
      BY <2>1
  <1> QED
    BY <1>4 DEF Max

LEMMA RangeDecided ==
  ASSUME NEW v \in Nat, NEW m \in Entry
  PROVE  DecideRange(v, m) \in Verdicts
  BY DEF DecideRange, Verdict, Verdicts, Entry, Bounds

\* A record with a vulnerable entry for the head has a verdict.
LEMMA ConcernedIsDecided ==
  ASSUME NEW r \in Seq(Entry), NEW v \in Nat, NEW head
  PROVE  /\ Decide(r, v, head) \in Verdicts \cup {NoVerdict}
         /\ Lists(Ranges(r), head) => Decide(r, v, head) # NoVerdict
  <1> DEFINE said == Said(r, v, head)
             Of(status) == {i \in DOMAIN said : said[i].status = status}
  <1>1. /\ DOMAIN said \subseteq 1 .. Len(r)
        /\ \A i \in DOMAIN said : said[i] \in Verdicts
        /\ Lists(Ranges(r), head) => DOMAIN said # {}
    <2>1. DOMAIN said \subseteq 1 .. Len(r)
      BY DEF Said
    <2>2. ASSUME NEW i \in DOMAIN said PROVE said[i] \in Verdicts
      <3>1. r[i] \in Entry
        BY <2>1, <2>2
      <3>2. said[i] = DecideRange(v, r[i])
        BY <2>2 DEF Said
      <3> QED
        BY <3>1, <3>2, RangeDecided
    <2>3. Lists(Ranges(r), head) => DOMAIN said # {}
      BY DEF Said, Lists, Ranges
    <2> QED
      BY <2>1, <2>2, <2>3
  <1>2. ASSUME Of("unpatched") # {} PROVE said[Min(Of("unpatched"))] \in Verdicts
    <2>1. Of("unpatched") \in SUBSET Nat
      BY <1>1
    <2>2. Min(Of("unpatched")) \in Of("unpatched")
      BY <1>2, <2>1, LeastIsIn
    <2> QED
      BY <2>2, <1>1
  <1>3. ASSUME Of("patched") # {} PROVE said[Max(Of("patched"))] \in Verdicts
    <2>1. Len(r) \in Nat /\ Of("patched") \in SUBSET (0 .. Len(r))
      BY <1>1
    <2>2. Max(Of("patched")) \in Of("patched")
      BY <1>3, <2>1, GreatestIsIn
    <2> QED
      BY <2>2, <1>1
  <1>4. Verdict("not_affected", NoBound) \in Verdicts
    BY DEF Verdict, Verdicts, Bounds
  <1> HIDE DEF said
  <1>5. DOMAIN said # {} => Decide(r, v, head) \in Verdicts
    BY <1>2, <1>3, <1>4 DEF Decide, said
  <1>6. DOMAIN said = {} => Decide(r, v, head) = NoVerdict
    BY DEF Decide, said
  <1> QED
    BY <1>1, <1>5, <1>6, HeadsAssumption

\* The projection decides as the record does.
LEMMA ProjectionDecides ==
  ASSUME NEW r \in Seq(Entry), NEW v, NEW head
  PROVE  Decide(Rebuilt(Ranges(r)), v, head) = Decide(r, v, head)
  <1>1. Rebuilt(Ranges(r)) = Ranges(r)
    <2>1. ASSUME NEW i \in DOMAIN Ranges(r)
          PROVE  [Ranges(r)[i] EXCEPT !.vulnerable = TRUE] = Ranges(r)[i]
      <3>1. r[i] \in Entry /\ r[i].vulnerable /\ Ranges(r)[i] = r[i]
        BY DEF Ranges
      <3>2. r[i].vulnerable = TRUE
        BY <3>1 DEF Entry
      <3> QED
        BY <3>1, <3>2 DEF Entry
    <2> QED
      BY <2>1 DEF Rebuilt, Ranges
  <1>2. Said(Ranges(r), v, head) = Said(r, v, head)
    <2> DEFINE places == {i \in DOMAIN r : r[i].vulnerable /\ r[i].head = head}
    <2>1. {i \in DOMAIN Ranges(r) :
             Ranges(r)[i].vulnerable /\ Ranges(r)[i].head = head} = places
      BY DEF Ranges
    <2>2. \A i \in places : Ranges(r)[i] = r[i]
      BY DEF Ranges
    <2> QED
      BY <2>1, <2>2 DEF Said
  <1> QED
    BY <1>1, <1>2 DEF Decide

-----------------------------------------------------------------------------
(* NVD's list of a head, and the pages cut from it.                        *)

LEMMA CvesFinite == IsFiniteSet(Cves)
  <1>1. 1 \in Int /\ MaxCve \in Int
    BY HeadsAssumption
  <1> QED
    BY <1>1, FS_Interval DEF Cves

LEMMA RankType ==
  ASSUME NEW head, NEW c \in Cves
  PROVE  /\ IsFiniteSet(Listing(head)) /\ Cardinality(Listing(head)) \in Nat
         /\ Rank(head, c) \in Nat
         /\ c \in Listing(head) => Rank(head, c) < Cardinality(Listing(head))
  <1> DEFINE before == {d \in Listing(head) : d < c}
  <1>2. IsFiniteSet(Listing(head)) /\ Cardinality(Listing(head)) \in Nat
    BY CvesFinite, FS_Subset, FS_CardinalityType DEF Listing
  <1>3. /\ IsFiniteSet(before)
        /\ Cardinality(before) <= Cardinality(Listing(head))
        /\ Cardinality(Listing(head)) = Cardinality(before) => Listing(head) = before
    <2>1. before \in SUBSET Listing(head)
      OBVIOUS
    <2> QED
      BY <1>2, <2>1, FS_Subset
  <1>4. Cardinality(before) \in Nat
    BY <1>3, FS_CardinalityType
  <1>5. c \in Listing(head) => Listing(head) # before
    BY DEF Cves
  <1> QED
    BY <1>2, <1>3, <1>4, <1>5 DEF Rank

\* The rank grows along the list.
LEMMA RankGrows ==
  ASSUME NEW head, NEW c \in Listing(head), NEW d \in Listing(head), c < d
  PROVE  Rank(head, c) < Rank(head, d)
  <1> DEFINE Before(x) == {e \in Listing(head) : e < x}
  <1>1. c \in Cves /\ d \in Cves /\ c \in Nat /\ d \in Nat
    BY DEF Listing, Cves
  <1>2. IsFiniteSet(Before(d))
    <2>1. IsFiniteSet(Listing(head)) /\ Before(d) \in SUBSET Listing(head)
      BY <1>1, RankType
    <2> QED
      BY <2>1, FS_Subset
  <1>3. Before(c) \in SUBSET Before(d) /\ Before(c) # Before(d)
    BY <1>1 DEF Listing, Cves
  <1>4. /\ Cardinality(Before(c)) <= Cardinality(Before(d))
        /\ Cardinality(Before(d)) # Cardinality(Before(c))
    BY <1>2, <1>3, FS_Subset
  <1> QED
    BY <1>1, <1>4, RankType DEF Rank

\* A page has no more than PageSize rows.
LEMMA PageBound ==
  ASSUME start \in Nat
  PROVE  /\ Page \subseteq Listing(QueriedHead)
         /\ Cardinality(Page) \in Nat
         /\ Cardinality(Page) <= PageSize
  <1> DEFINE places == start .. start + PageSize - 1
             f == [c \in Page |-> Rank(QueriedHead, c)]
  <1>1. Page \subseteq Listing(QueriedHead)
    BY DEF Page
  <1>2. f \in [Page -> places]
    BY DEF Page
  <1>3. ASSUME NEW c \in Page, NEW d \in Page, f[c] = f[d] PROVE c = d
    <2>1. c \in Listing(QueriedHead) /\ d \in Listing(QueriedHead)
      BY <1>1
    <2>2. c \in Cves /\ d \in Cves
      BY <2>1 DEF Listing
    <2>3. ~ (c < d) /\ ~ (d < c)
      BY <1>3, <2>1, <2>2, RankGrows, RankType
    <2> QED
      BY <2>2, <2>3 DEF Cves
  <1>4. f \in Injection(Page, places)
    BY <1>2, <1>3 DEF Injection, IsInjective
  <1>5. IsFiniteSet(places) /\ Cardinality(places) = PageSize
    <2> DEFINE last == start + PageSize - 1
    <2>1. start \in Int /\ last \in Int /\ start <= last
          /\ last - start + 1 = PageSize
      BY HeadsAssumption
    <2>2. places = start .. last
      OBVIOUS
    <2> HIDE DEF last, places
    <2>3. /\ IsFiniteSet(start .. last)
          /\ Cardinality(start .. last)
               = IF start > last THEN 0 ELSE last - start + 1
      BY <2>1, FS_Interval
    <2> QED
      BY <2>1, <2>2, <2>3
  <1>6. IsFiniteSet(Page) /\ Cardinality(Page) <= Cardinality(places)
    BY <1>4, <1>5, FS_Injection
  <1> QED
    BY <1>1, <1>5, <1>6, FS_CardinalityType

\* What NVD changes behind the place reached moves nothing before it, unless
\* a row walked past leaves the list.
LEMMA RankKept ==
  ASSUME NEW c0 \in Cves, NEW r, Revises(c0, r),
         record \in [Cves -> Known \cup {NoRecord}], NEW head, NEW n \in Nat,
         ~ (Lists(record[c0], head) /\ ~Lists(r, head) /\ Rank(head, c0) < n),
         NEW c \in Cves, c \in Listing(head)', Rank(head, c)' < n
  PROVE  Rank(head, c) < n
  <1> DEFINE L1 == Listing(head)
             L2 == Listing(head)'
             Old(x) == {e \in L1 : e < x}
             New(x) == {e \in L2 : e < x}
  <1>1. \A e \in Cves \ {c0} : e \in L1 <=> e \in L2
    BY DEF Revises, Listing
  <1>2. (c0 \in L1 <=> Lists(record[c0], head)) /\ (c0 \in L2 <=> Lists(r, head))
    BY DEF Revises, Listing
  <1>3. /\ \A x \in Cves : IsFiniteSet(Old(x)) /\ Cardinality(Old(x)) \in Nat
        /\ \A x \in Cves : IsFiniteSet(New(x)) /\ Cardinality(New(x)) \in Nat
    <2>2. ASSUME NEW S \in SUBSET Cves
          PROVE  IsFiniteSet(S) /\ Cardinality(S) \in Nat
      BY CvesFinite, FS_Subset, FS_CardinalityType
    <2>3. \A x : Old(x) \in SUBSET Cves /\ New(x) \in SUBSET Cves
      BY DEF Listing
    <2> HIDE DEF Old, New
    <2> QED
      BY <2>2, <2>3
  <1>4. \A x \in Cves : Rank(head, x) = Cardinality(Old(x))
    BY DEF Rank
  <1>5. Rank(head, c)' = Cardinality(New(c))
    BY DEF Rank
  <1>6. L1 \subseteq Cves /\ L2 \subseteq Cves /\ c \in L2 /\ c \in Nat /\ c0 \in Nat
    BY DEF Listing, Cves
  <1>7. CASE c0 \notin L1 \/ c0 \in L2 \/ c < c0
    <2>1. Old(c) \in SUBSET New(c)
      BY <1>1, <1>6, <1>7 DEF Cves
    <2>2. Cardinality(Old(c)) <= Cardinality(New(c))
      BY <1>3, <2>1, FS_Subset
    <2> QED
      BY <1>3, <1>4, <1>5, <2>2
  <1>8. CASE c0 \in L1 /\ c0 \notin L2 /\ ~ (c < c0)
    <2>1. c0 < c
      BY <1>6, <1>8
    <2>2. Old(c0) \in SUBSET New(c)
      BY <1>1, <1>6, <2>1 DEF Cves
    <2>3. Cardinality(Old(c0)) <= Cardinality(New(c))
      BY <1>3, <2>2, FS_Subset
    <2>4. ~ (Rank(head, c0) < n)
      BY <1>2, <1>8
    <2> QED
      BY <1>3, <1>4, <1>5, <2>3, <2>4
  <1> QED
    BY <1>7, <1>8

-----------------------------------------------------------------------------
(* The steps.                                                              *)

LEMMA MatcherType ==
  /\ Len(Matchers) \in Nat
  /\ \A i \in 1 .. Len(Matchers) :
       Matchers[i].head \in Heads /\ Matchers[i].version \in Nat
  /\ turn \in 1 .. Len(Matchers) => QueriedHead \in Heads
  <1> DEFINE Matcher == [head : Heads, version : Nat]
  <1>1. Matchers \in Seq(Matcher)
    BY HeadsAssumption
  <1>2. Len(Matchers) \in Nat /\ \A i \in 1 .. Len(Matchers) : Matchers[i] \in Matcher
    <2> HIDE DEF Matcher
    <2> QED
      BY <1>1
  <1> QED
    BY <1>2 DEF QueriedHead

LEMMA RecordType ==
  /\ Known \subseteq Seq(Entry)
  /\ NoRecord \notin Known
  BY HeadsAssumption DEF Known

LEMMA HeadsInitInv == HeadsInit => HeadsInv /\ CatalogIsProjected
  <1> SUFFICES ASSUME HeadsInit PROVE HeadsInv /\ CatalogIsProjected
    OBVIOUS
  <1> USE DEF HeadsInit
  <1>1. HeadsTypeOK
    <2>1. rows \in [{} -> Known]
      BY DEF NoRows
    <2>2. \E S \in SUBSET Cves : rows \in [S -> Known]
      BY <2>1
    <2>3. turn \in 1 .. Len(Matchers) + 1
      BY MatcherType
    <2> QED
      BY <2>2, <2>3 DEF HeadsTypeOK, Silent
  <1>2. QueryOK /\ SteadyConcerned
    BY DEF QueryOK, SteadyConcerned
  <1>3. WalkedIsGathered /\ CompleteIsWhole /\ HeadsDoneAreFound
    BY DEF WalkedIsGathered, CompleteIsWhole, HeadsDoneAreFound, Paging
  <1>4. CatalogIsProjected
    BY DEF CatalogIsProjected
  <1> QED
    BY <1>1, <1>2, <1>3, <1>4 DEF HeadsInv

LEMMA RevisesInv ==
  ASSUME HeadsInv, NEW c0 \in Cves, NEW r \in RecordsOf[c0], Revises(c0, r)
  PROVE  HeadsInv'
  <1> USE DEF HeadsInv
  <1>1. HeadsTypeOK'
    <2>1. record' \in [Cves -> Known \cup {NoRecord}]
      BY DEF HeadsTypeOK, Revises, Known
    <2>2. steady' \in [Heads -> SUBSET Cves]
      BY DEF HeadsTypeOK, Revises
    <2>3. shifted' \in SUBSET Heads
      BY MatcherType DEF HeadsTypeOK, Revises, Paging
    <2>4. UNCHANGED <<client, turn, start, rows, ended, found, whole, denied>>
      BY DEF Revises, query, device
    <2> QED
      BY <2>1, <2>2, <2>3, <2>4 DEF HeadsTypeOK
  <1>2. QueryOK'
    BY DEF QueryOK, Revises, query
  <1>3. SteadyConcerned'
    BY DEF SteadyConcerned, Revises, HeadsTypeOK
  <1>4. /\ \A h \in Heads : steady'[h] \subseteq steady[h]
        /\ shifted \subseteq shifted'
    BY DEF Revises
  <1>5. UNCHANGED <<client, turn, start, rows, ended, found, whole, denied>>
    BY DEF Revises, query, device
  <1>6. QueriedHead' = QueriedHead /\ Paging' = Paging
    BY <1>5 DEF QueriedHead, Paging
  <1>7. WalkedIsGathered'
    <2> SUFFICES ASSUME NEW head \in Heads, Paging', head = QueriedHead',
                        head \notin shifted', NEW c \in steady'[head],
                        Rank(head, c)' < start'
                 PROVE  Gathered(c, head)'
      BY DEF WalkedIsGathered
    <2>1. Paging /\ head = QueriedHead /\ head \notin shifted /\ c \in steady[head]
      BY <1>4, <1>6
    <2>2. c \in Cves /\ start \in Nat
      BY <2>1 DEF HeadsTypeOK
    <2>3. c \in Concerned(record', head)
      BY DEF Revises
    <2>4. c \in Listing(head)'
      BY <2>3, <1>1, RecordType DEF Concerned, Listing, Lists, Ranges
    <2>5. ~ (Lists(record[c0], head) /\ ~Lists(r, head) /\ Rank(head, c0) < start)
      BY <2>1 DEF Revises
    <2>6. Rank(head, c)' < start
      BY <1>5
    <2>7. Rank(head, c) < start
      BY <2>2, <2>4, <2>5, <2>6, RankKept DEF HeadsTypeOK
    <2> QED
      BY <1>5, <2>1, <2>7 DEF WalkedIsGathered, Gathered
  <1>8. CompleteIsWhole'
    BY <1>4, <1>5, <1>6 DEF CompleteIsWhole, Gathered, NoRows
  <1>9. HeadsDoneAreFound'
    BY <1>4, <1>5, MatcherType DEF HeadsDoneAreFound
  <1> QED
    BY <1>1, <1>2, <1>3, <1>7, <1>8, <1>9

\* The rows of a page, over those gathered before.
LEMMA PageGathers ==
  ASSUME HeadsInv, Paging,
         NEW out, out = Over(Restrict(record, Page), rows)
  PROVE  /\ \E S \in SUBSET Cves : out \in [S -> Known]
         /\ \A c \in steady[QueriedHead] :
              /\ QueriedHead \notin shifted
              /\ Rank(QueriedHead, c) < start + Cardinality(Page)
              => c \in DOMAIN out /\ Lists(Ranges(out[c]), QueriedHead)
  <1> USE DEF HeadsInv
  <1>1. PICK S \in SUBSET Cves : rows \in [S -> Known]
    BY DEF HeadsTypeOK
  <1>2. start \in Nat /\ QueriedHead \in Heads
    BY MatcherType DEF HeadsTypeOK, Paging
  <1>3. \A c \in Page : c \in Cves /\ record[c] \in Known
    BY <1>2, PageBound DEF Listing, Lists, HeadsTypeOK
  <1>4. /\ DOMAIN out = Page \cup S
        /\ \A c \in Page : out[c] = record[c]
        /\ \A c \in S \ Page : out[c] = rows[c]
    BY <1>1 DEF Over, Restrict
  <1>5. out \in [Page \cup S -> Known]
    <2>1. out = [c \in Page \cup S |-> out[c]]
      BY <1>1 DEF Over, Restrict
    <2> QED
      BY <1>1, <1>3, <1>4, <2>1
  <1>6. ASSUME NEW c \in steady[QueriedHead], QueriedHead \notin shifted,
               Rank(QueriedHead, c) < start + Cardinality(Page)
        PROVE  c \in DOMAIN out /\ Lists(Ranges(out[c]), QueriedHead)
    <2>1. c \in Concerned(record, QueriedHead) /\ c \in Cves
      BY <1>2, <1>6 DEF SteadyConcerned, HeadsTypeOK
    <2>2. c \in Listing(QueriedHead) /\ Lists(Ranges(record[c]), QueriedHead)
      BY <2>1, RecordType DEF Concerned, Listing, Lists, Ranges, HeadsTypeOK
    <2>3. Rank(QueriedHead, c) \in Nat
      BY <2>1, RankType
    <2>4. CASE Rank(QueriedHead, c) < start
      <3>1. Gathered(c, QueriedHead)
        BY <1>2, <1>6, <2>4 DEF WalkedIsGathered
      <3> QED
        BY <1>1, <1>4, <2>2, <3>1 DEF Gathered
    <2>5. CASE ~ (Rank(QueriedHead, c) < start)
      <3>1. Rank(QueriedHead, c) \in start .. start + PageSize - 1
        BY <1>2, <1>6, <2>3, <2>5, PageBound, HeadsAssumption
      <3>2. c \in Page
        BY <2>2, <3>1 DEF Page
      <3> QED
        BY <1>4, <2>2, <3>2
    <2> QED
      BY <2>4, <2>5
  <1> QED
    BY <1>3, <1>5, <1>6

\* An answer without rows, or no answer, ends the query of a head.
LEMMA EndsInv ==
  ASSUME HeadsInv, Paging, NEW how \in {"complete", "incomplete"}, NEW out,
         Ends(how, out), \E S \in SUBSET Cves : out \in [S -> Known],
         denied' \in {denied, denied \cup {QueriedHead}},
         UNCHANGED <<record, client, turn, device, steady, shifted>>,
         how = "complete" =>
           \/ out = NoRows /\ QueriedHead \in denied'
           \/ QueriedHead \in shifted
           \/ \A c \in steady[QueriedHead] :
                c \in DOMAIN out /\ Lists(Ranges(out[c]), QueriedHead)
  PROVE  HeadsInv'
  <1> USE DEF HeadsInv, Ends
  <1>1. QueriedHead \in Heads /\ QueriedHead' = QueriedHead
    BY MatcherType DEF HeadsTypeOK, Paging, QueriedHead
  <1>2. HeadsTypeOK'
    <2>1. denied' \in SUBSET Heads /\ start' \in Nat
      BY <1>1 DEF HeadsTypeOK
    <2>2. ended' \in {"no", "complete", "incomplete"}
      OBVIOUS
    <2>3. \E S \in SUBSET Cves : rows' \in [S -> Known]
      OBVIOUS
    <2> QED
      BY <2>1, <2>2, <2>3 DEF HeadsTypeOK, device
  <1>3. QueryOK'
    BY DEF QueryOK, Paging
  <1>4. SteadyConcerned'
    BY DEF SteadyConcerned, Concerned
  <1>5. WalkedIsGathered'
    BY DEF WalkedIsGathered, Paging
  <1>6. CompleteIsWhole'
    BY <1>1 DEF CompleteIsWhole, Gathered, NoRows
  <1>7. HeadsDoneAreFound'
    BY DEF HeadsDoneAreFound, device
  <1> QED
    BY <1>2, <1>3, <1>4, <1>5, <1>6, <1>7

LEMMA PageArrivesInv == HeadsInv /\ PageArrives => HeadsInv'
  <1> SUFFICES ASSUME HeadsInv, PageArrives PROVE HeadsInv'
    OBVIOUS
  <1> DEFINE out == Over(Restrict(record, Page), rows)
             next == start + Cardinality(Page)
             total == Cardinality(Listing(QueriedHead))
  <1>1. /\ Paging /\ UNCHANGED denied
        /\ UNCHANGED <<record, client, turn, device, steady, shifted>>
    BY DEF PageArrives, Elsewhere
  <1>2. /\ \E S \in SUBSET Cves : out \in [S -> Known]
        /\ \A c \in steady[QueriedHead] :
             QueriedHead \notin shifted /\ Rank(QueriedHead, c) < next
               => c \in DOMAIN out /\ Lists(Ranges(out[c]), QueriedHead)
    BY <1>1, PageGathers
  <1>3. start \in Nat /\ QueriedHead \in Heads
    BY <1>1, MatcherType DEF HeadsInv, HeadsTypeOK, Paging
  <1>4. next \in Nat
    BY <1>3, PageBound
  <1>5. CASE next >= total
    <2>1. Ends("complete", out)
      BY <1>5 DEF PageArrives
    <2>2. ASSUME NEW c \in steady[QueriedHead] PROVE Rank(QueriedHead, c) < next
      <3>1. c \in Concerned(record, QueriedHead) /\ c \in Cves
        BY <1>3, <2>2 DEF HeadsInv, SteadyConcerned, HeadsTypeOK
      <3>2. c \in Listing(QueriedHead)
        BY <3>1, RecordType DEF HeadsInv, Concerned, Listing, Lists, Ranges, HeadsTypeOK
      <3> QED
        BY <1>4, <1>5, <3>1, <3>2, RankType
    <2> HIDE DEF out, next, total
    <2> QED
      BY <1>1, <1>2, <2>1, <2>2, EndsInv
  <1>6. CASE ~(next >= total) /\ next >= MaxResults
    <2>1. Ends("incomplete", out)
      BY <1>6 DEF PageArrives
    <2> HIDE DEF out, next, total
    <2> QED
      BY <1>1, <1>2, <2>1, EndsInv
  <1>7. CASE ~(next >= total) /\ ~(next >= MaxResults)
    <2>1. rows' = out /\ start' = next /\ UNCHANGED ended
      BY <1>7 DEF PageArrives
    <2>2. QueriedHead' = QueriedHead
      BY <1>1 DEF QueriedHead
    <2> HIDE DEF out, next, total
    <2>3. HeadsTypeOK'
      BY <1>1, <1>2, <1>4, <2>1 DEF HeadsInv, HeadsTypeOK, device
    <2>4. QueryOK'
      BY <1>1, <2>1 DEF QueryOK, Paging, HeadsInv, HeadsTypeOK
    <2>5. SteadyConcerned'
      BY <1>1 DEF SteadyConcerned, Concerned, HeadsInv
    <2>6. WalkedIsGathered'
      <3>1. \A head, c : Rank(head, c)' = Rank(head, c)
        BY <1>1 DEF Rank, Listing
      <3> QED
        BY <1>1, <1>2, <2>1, <2>2, <3>1 DEF WalkedIsGathered, Gathered, HeadsInv
    <2>7. CompleteIsWhole'
      BY <1>1, <2>1 DEF CompleteIsWhole, Paging
    <2>8. HeadsDoneAreFound'
      BY <1>1 DEF HeadsDoneAreFound, device, HeadsInv
    <2> QED
      BY <2>3, <2>4, <2>5, <2>6, <2>7, <2>8 DEF HeadsInv
  <1> QED
    BY <1>5, <1>6, <1>7

LEMMA OtherAnswersInv ==
  HeadsInv /\ (EmptyPage \/ AbsentTwice \/ GivesUp) => HeadsInv'
  <1> SUFFICES ASSUME HeadsInv, EmptyPage \/ AbsentTwice \/ GivesUp PROVE HeadsInv'
    OBVIOUS
  <1>1. Paging /\ UNCHANGED <<record, client, turn, device, steady, shifted>>
    BY DEF EmptyPage, AbsentTwice, GivesUp, Elsewhere
  <1>2. \E S \in SUBSET Cves : rows \in [S -> Known]
    BY DEF HeadsInv, HeadsTypeOK
  <1>3. \E S \in SUBSET Cves : NoRows \in [S -> Known]
    <2>1. NoRows \in [{} -> Known]
      BY DEF NoRows
    <2> QED
      BY <2>1
  <1>4. CASE Ends("complete", NoRows) /\ denied' = denied \cup {QueriedHead}
    BY <1>1, <1>3, <1>4, EndsInv
  <1>5. CASE Ends("incomplete", rows) /\ UNCHANGED denied
    BY <1>1, <1>2, <1>5, EndsInv
  <1> QED
    BY <1>4, <1>5 DEF EmptyPage, AbsentTwice, GivesUp

\* A client begins, or is through with all of its heads, or dies.
LEMMA IdleInv ==
  ASSUME HeadsInv, UNCHANGED record,
         client' \in {"none", "assess", "ingest"}, turn' = 1, start' = 0,
         ended' = "no", \E S \in SUBSET Cves : rows' \in [S -> Known],
         found' \in [Cves -> Verdicts \cup {NoVerdict}], whole' \in BOOLEAN,
         steady' \in {[h \in Heads |-> Concerned(record, h)], [h \in Heads |-> {}]},
         shifted' = {}, denied' = {}
  PROVE  HeadsInv'
  <1>1. HeadsTypeOK'
    <2>1. turn' \in 1 .. Len(Matchers) + 1
      BY MatcherType
    <2>2. start' \in Nat /\ shifted' \in SUBSET Heads /\ denied' \in SUBSET Heads
      OBVIOUS
    <2>3. steady' \in [Heads -> SUBSET Cves]
      BY DEF Concerned
    <2>4. record' \in [Cves -> Known \cup {NoRecord}]
      BY DEF HeadsInv, HeadsTypeOK
    <2>5. ended' \in {"no", "complete", "incomplete"}
      OBVIOUS
    <2> QED
      BY <2>1, <2>2, <2>3, <2>4, <2>5, Zenon DEF HeadsTypeOK
  <1>2. QueryOK'
    BY DEF QueryOK
  <1>3. SteadyConcerned'
    BY DEF SteadyConcerned, Concerned
  <1>4. WalkedIsGathered'
    <2>1. \A head : \A c \in Cves : Rank(head, c)' \in Nat
      <3>1. \A head, c : Rank(head, c)' = Rank(head, c)
        BY DEF Rank, Listing
      <3> QED
        BY <3>1, RankType
    <2>2. \A h \in Heads : steady'[h] \subseteq Cves
      BY <1>1 DEF HeadsTypeOK
    <2> QED
      BY <2>1, <2>2 DEF WalkedIsGathered
  <1>5. CompleteIsWhole'
    BY DEF CompleteIsWhole
  <1>6. HeadsDoneAreFound'
    BY DEF HeadsDoneAreFound
  <1> QED
    BY <1>1, <1>2, <1>3, <1>4, <1>5, <1>6 DEF HeadsInv

LEMMA NoRowsType == \E S \in SUBSET Cves : NoRows \in [S -> Known]
  <1>1. NoRows \in [{} -> Known]
    BY DEF NoRows
  <1> QED
    BY <1>1

\* The client takes up the next head.
LEMMA NextHeadInv ==
  ASSUME HeadsInv, ended # "no", turn' = turn + 1, rows' = NoRows, ended' = "no",
         UNCHANGED <<record, client, start, history>>,
         found' \in [Cves -> Verdicts \cup {NoVerdict}], whole' \in BOOLEAN,
         HeadsDoneAreFound'
  PROVE  HeadsInv'
  <1> USE DEF HeadsInv
  <1>1. turn \in 1 .. Len(Matchers) /\ start' = 0
    BY MatcherType DEF QueryOK, HeadsTypeOK
  <1>2. HeadsTypeOK'
    <2>1. turn' \in 1 .. Len(Matchers) + 1
      BY <1>1, MatcherType
    <2>2. start' \in Nat
      BY <1>1
    <2>3. ended' \in {"no", "complete", "incomplete"}
      OBVIOUS
    <2>4. \E S \in SUBSET Cves : rows' \in [S -> Known]
      BY NoRowsType
    <2> QED
      BY <2>1, <2>2, <2>3, <2>4 DEF HeadsTypeOK, history
  <1>3. QueryOK'
    BY <1>1 DEF QueryOK
  <1>4. SteadyConcerned'
    BY DEF SteadyConcerned, Concerned, history
  <1>5. WalkedIsGathered'
    <2>1. \A head : \A c \in Cves : Rank(head, c)' \in Nat
      <3>1. \A head, c : Rank(head, c)' = Rank(head, c)
        BY DEF Rank, Listing
      <3> QED
        BY <3>1, RankType
    <2>2. \A h \in Heads : steady'[h] \subseteq Cves
      BY <1>2 DEF HeadsTypeOK
    <2> QED
      BY <1>1, <2>1, <2>2 DEF WalkedIsGathered
  <1>6. CompleteIsWhole'
    BY DEF CompleteIsWhole
  <1> QED
    BY <1>2, <1>3, <1>4, <1>5, <1>6

LEMMA HeadAssessedInv == HeadsInv /\ HeadAssessed => HeadsInv'
  <1> SUFFICES ASSUME HeadsInv, HeadAssessed PROVE HeadsInv'
    OBVIOUS
  <1> DEFINE matcher == Matchers[turn]
             said(c) == Decide(rows[c], matcher.version, matcher.head)
  <1>1. turn \in 1 .. Len(Matchers) /\ Len(Matchers) \in Nat
    BY MatcherType DEF HeadsInv, QueryOK, HeadsTypeOK, HeadAssessed
  <1>2. matcher.version \in Nat /\ matcher.head \in Heads
    BY <1>1, MatcherType
  <1>3. \A c \in DOMAIN rows :
          /\ said(c) \in Verdicts \cup {NoVerdict}
          /\ Lists(Ranges(rows[c]), matcher.head) => said(c) # NoVerdict
    <2>1. \A c \in DOMAIN rows : rows[c] \in Seq(Entry)
      BY RecordType DEF HeadsInv, HeadsTypeOK
    <2> HIDE DEF matcher
    <2> QED
      BY <1>2, <2>1, ConcernedIsDecided
  <1>4. found' = [c \in Cves |->
                   IF c \in DOMAIN rows /\ said(c) # NoVerdict THEN said(c)
                   ELSE found[c]]
    BY DEF HeadAssessed, Overlaid
  <1> HIDE DEF said
  <1>5. found' \in [Cves -> Verdicts \cup {NoVerdict}]
    BY <1>3, <1>4 DEF HeadsInv, HeadsTypeOK
  <1>6. whole' \in BOOLEAN
    BY Zenon DEF HeadAssessed
  <1>7. HeadsDoneAreFound'
    <2> SUFFICES ASSUME whole', NEW i \in 1 .. Len(Matchers), i < turn',
                        Matchers[i].head \notin shifted \cup denied,
                        NEW c \in steady[Matchers[i].head]
                 PROVE  found'[c] # NoVerdict
      BY DEF HeadsDoneAreFound, HeadAssessed, history
    <2>1. whole /\ ended = "complete"
      BY Zenon DEF HeadAssessed
    <2>2. c \in Cves /\ Matchers[i].head \in Heads
      BY MatcherType DEF HeadsInv, HeadsTypeOK
    <2>3. CASE i < turn
      <3>1. found[c] # NoVerdict
        BY <2>1, <2>3 DEF HeadsInv, HeadsDoneAreFound, HeadAssessed
      <3> QED
        BY <1>4, <2>2, <3>1
    <2>4. CASE i = turn
      <3>1. Gathered(c, matcher.head)
        BY <2>1, <2>2, <2>4 DEF HeadsInv, CompleteIsWhole, QueriedHead
      <3> QED
        BY <1>3, <1>4, <2>2, <3>1 DEF Gathered
    <2>5. turn' = turn + 1
      BY DEF HeadAssessed
    <2> QED
      BY <1>1, <2>3, <2>4, <2>5
  <1>8. /\ ended # "no" /\ turn' = turn + 1 /\ rows' = NoRows /\ ended' = "no"
        /\ UNCHANGED <<record, client, start, history>>
    BY DEF HeadAssessed
  <1> QED
    BY <1>5, <1>6, <1>7, <1>8, NextHeadInv

LEMMA HeadIngestedInv == HeadsInv /\ HeadIngested => HeadsInv'
  <1> SUFFICES ASSUME HeadsInv, HeadIngested PROVE HeadsInv'
    OBVIOUS
  <1>1. /\ ended # "no" /\ turn' = turn + 1 /\ rows' = NoRows /\ ended' = "no"
        /\ UNCHANGED <<record, client, start, history>>
    BY DEF HeadIngested
  <1>2. found' \in [Cves -> Verdicts \cup {NoVerdict}] /\ whole' \in BOOLEAN
    BY Zenon DEF HeadIngested, device, HeadsInv, HeadsTypeOK
  <1>3. HeadsDoneAreFound'
    BY DEF HeadsDoneAreFound, HeadIngested
  <1> QED
    BY <1>1, <1>2, <1>3, NextHeadInv

LEMMA SilentType == Silent \in [Cves -> Verdicts \cup {NoVerdict}]
  BY DEF Silent

LEMMA HeadsStepInv == HeadsInv /\ [HeadsNext]_headsVars => HeadsInv'
  <1> SUFFICES ASSUME HeadsInv, [HeadsNext]_headsVars PROVE HeadsInv'
    OBVIOUS
  <1>1. ASSUME NEW c \in Cves, NEW r \in UNION {RecordsOf[d] : d \in Cves},
               r \in RecordsOf[c] /\ Revises(c, r)
        PROVE  HeadsInv'
    BY <1>1, RevisesInv
  <1>2. CASE Query
    BY <1>2, PageArrivesInv, OtherAnswersInv DEF Query
  <1>3. ASSUME NEW who \in {"assess", "ingest"}, Begin(who) PROVE HeadsInv'
    <2>1. start' = 0 /\ ended' = "no"
      BY <1>3 DEF Begin, query, HeadsInv, QueryOK, HeadsTypeOK
    <2>2. \E S \in SUBSET Cves : rows' \in [S -> Known]
      BY <1>3 DEF Begin, query, HeadsInv, HeadsTypeOK
    <2>3. found' \in [Cves -> Verdicts \cup {NoVerdict}] /\ whole' \in BOOLEAN
      BY <1>3, Zenon DEF Begin, device, HeadsInv, HeadsTypeOK
    <2>4. /\ UNCHANGED record
          /\ client' \in {"none", "assess", "ingest"} /\ turn' = 1
          /\ steady' = [h \in Heads |-> Concerned(record, h)]
          /\ shifted' = {} /\ denied' = {}
      BY <1>3 DEF Begin
    <2> QED
      BY <2>1, <2>2, <2>3, <2>4, IdleInv
  <1>4. ASSUME AssessCommits \/ IngestEnds PROVE HeadsInv'
    <2>1. start' = 0 /\ ended' = "no"
      BY <1>4, MatcherType
         DEF AssessCommits, IngestEnds, query, HeadsInv, QueryOK, HeadsTypeOK
    <2>2. \E S \in SUBSET Cves : rows' \in [S -> Known]
      BY <1>4 DEF AssessCommits, IngestEnds, query, HeadsInv, HeadsTypeOK
    <2>3. found' \in [Cves -> Verdicts \cup {NoVerdict}] /\ whole' \in BOOLEAN
      BY <1>4, SilentType, Zenon
         DEF AssessCommits, IngestEnds, device, HeadsInv, HeadsTypeOK
    <2>4. /\ UNCHANGED record
          /\ client' \in {"none", "assess", "ingest"} /\ turn' = 1
          /\ steady' = [h \in Heads |-> {}]
          /\ shifted' = {} /\ denied' = {}
      BY <1>4 DEF AssessCommits, IngestEnds, Forget
    <2> QED
      BY <2>1, <2>2, <2>3, <2>4, IdleInv
  <1>5. ASSUME NEW kept \in SUBSET Cves, Dies(kept) PROVE HeadsInv'
    <2>1. start' = 0 /\ ended' = "no"
      BY <1>5 DEF Dies
    <2>2. \E S \in SUBSET Cves : rows' \in [S -> Known]
      BY <1>5, NoRowsType DEF Dies
    <2>3. found' \in [Cves -> Verdicts \cup {NoVerdict}] /\ whole' \in BOOLEAN
      BY <1>5, SilentType, Zenon DEF Dies
    <2>4. /\ UNCHANGED record
          /\ client' \in {"none", "assess", "ingest"} /\ turn' = 1
          /\ steady' = [h \in Heads |-> {}]
          /\ shifted' = {} /\ denied' = {}
      BY <1>5 DEF Dies, Forget
    <2> QED
      BY <2>1, <2>2, <2>3, <2>4, IdleInv
  <1>6. ASSUME \/ AssessOffline \/ UNCHANGED headsVars
               \/ \E c \in Cves : Refreshes(c)
        PROVE  HeadsInv'
    <2>1. UNCHANGED <<record, client, turn, query, device, history>>
      BY <1>6 DEF AssessOffline, Refreshes, headsVars, query, device, history
    <2> QED
      BY <2>1 DEF HeadsInv, HeadsTypeOK, QueryOK, SteadyConcerned, Concerned,
                  WalkedIsGathered, CompleteIsWhole, HeadsDoneAreFound, Paging,
                  QueriedHead, Gathered, Rank, Listing, NoRows,
                  query, device, history
  <1> QED
    BY <1>1, <1>2, <1>3, <1>4, <1>5, <1>6, HeadAssessedInv, HeadIngestedInv
       DEF HeadsNext, Assess, Ingest

\* Rows written to the catalog are projections of the records written.
LEMMA EnrichedProjects ==
  ASSUME CatalogIsProjected, NEW records, Enriched(records),
         DOMAIN records \subseteq Cves,
         \A c \in DOMAIN records : records[c] \in Known
  PROVE  CatalogIsProjected'
  BY DEF CatalogIsProjected, Enriched, Over

LEMMA CatalogStep ==
  HeadsInv /\ CatalogIsProjected /\ [HeadsNext]_headsVars => CatalogIsProjected'
  <1> SUFFICES ASSUME HeadsInv, CatalogIsProjected, [HeadsNext]_headsVars
               PROVE  CatalogIsProjected'
    OBVIOUS
  <1>1. DOMAIN rows \subseteq Cves /\ \A c \in DOMAIN rows : rows[c] \in Known
    BY DEF HeadsInv, HeadsTypeOK
  <1>2. CASE HeadIngested
    <2>1. Enriched(rows) \/ UNCHANGED <<catalog, origin>>
      BY <1>2 DEF HeadIngested
    <2> QED
      BY <1>1, <2>1, EnrichedProjects DEF CatalogIsProjected
  <1>3. ASSUME NEW kept \in SUBSET Cves, Dies(kept) PROVE CatalogIsProjected'
    <2>1. Enriched(Restrict(rows, kept)) /\ kept \subseteq DOMAIN rows
      BY <1>3 DEF Dies
    <2>2. /\ DOMAIN Restrict(rows, kept) = kept
          /\ \A c \in kept : Restrict(rows, kept)[c] = rows[c]
      BY DEF Restrict
    <2> QED
      BY <1>1, <2>1, <2>2, EnrichedProjects
  <1>4. ASSUME NEW c \in Cves, Refreshes(c) PROVE CatalogIsProjected'
    <2>1. Enriched(Restrict(record, {c})) /\ record[c] \in Known
      BY <1>4 DEF Refreshes, HeadsInv, HeadsTypeOK
    <2>2. /\ DOMAIN Restrict(record, {c}) = {c}
          /\ Restrict(record, {c})[c] = record[c]
      BY DEF Restrict
    <2> QED
      BY <2>1, <2>2, EnrichedProjects
  <1>5. ASSUME UNCHANGED <<catalog, origin>> PROVE CatalogIsProjected'
    BY <1>5 DEF CatalogIsProjected
  <1> QED
    BY <1>2, <1>3, <1>4, <1>5
       DEF HeadsNext, Query, Assess, Ingest, Revises, PageArrives, EmptyPage,
           AbsentTwice, GivesUp, Elsewhere, Begin, HeadAssessed, AssessCommits,
           AssessOffline, IngestEnds, headsVars

LEMMA HeadsInvariant == HeadsSpec => [](HeadsInv /\ CatalogIsProjected)
  BY HeadsInitInv, HeadsStepInv, CatalogStep, PTL DEF HeadsSpec

-----------------------------------------------------------------------------
(* The theorems.                                                           *)

\* For any heads, records, page size and cap: a query that calls itself
\* complete and has rows has those of all CVEs that concerned its head all
\* along, unless NVD took a row out before the page it was asked for
\* (nvd_cve.py:296-298).
THEOREM CompleteAnswersAreWhole == HeadsSpec => []WholeOrUnknown
  <1>1. HeadsInv => WholeOrUnknown
    <2> SUFFICES ASSUME HeadsInv, ended = "complete", rows # NoRows,
                        QueriedHead \notin shifted
                 PROVE  steady[QueriedHead] \subseteq DOMAIN rows
      BY DEF WholeOrUnknown
    <2>1. QueriedHead \in Heads
      BY MatcherType DEF HeadsInv, HeadsTypeOK, QueryOK
    <2> QED
      BY <2>1 DEF HeadsInv, CompleteIsWhole, Gathered
  <1> QED
    BY <1>1, HeadsInvariant, PTL

\* A live assessment forgets no verdict NVD went on giving, unless NVD's list
\* moved under the query or NVD denied having any row (nvd_cve.py:14-16,
\* 376-411).
THEOREM LiveAnswersForgetNothing == HeadsSpec => KeepsListed
  <1>1. HeadsInv /\ [HeadsNext]_headsVars =>
          (client = "assess" /\ client' = "none"
             => \A c \in Cves :
                  stored[c] # NoVerdict /\ stored'[c] = NoVerdict
                    => \A i \in DOMAIN Matchers :
                         LET head == Matchers[i].head
                         IN  c \in steady[head] => head \in shifted \cup denied)
    <2> SUFFICES ASSUME HeadsInv, [HeadsNext]_headsVars,
                        client = "assess", client' = "none",
                        NEW c \in Cves, stored[c] # NoVerdict, stored'[c] = NoVerdict,
                        NEW i \in DOMAIN Matchers, c \in steady[Matchers[i].head]
                 PROVE  Matchers[i].head \in shifted \cup denied
      BY Zenon
    <2>1. AssessCommits \/ UNCHANGED stored
      BY DEF HeadsNext, Query, Assess, Ingest, Revises, PageArrives, EmptyPage,
             AbsentTwice, GivesUp, Elsewhere, Begin, HeadAssessed, HeadIngested,
             IngestEnds, AssessOffline, Dies, Refreshes, headsVars
    <2>2. AssessCommits
      BY <2>1
    <2>3. whole /\ stored' = found
      BY <2>2, Zenon DEF AssessCommits, Gated
    <2>4. i \in 1 .. Len(Matchers) /\ i < turn
      BY <2>2, HeadsAssumption DEF AssessCommits, HeadsInv, HeadsTypeOK
    <2> QED
      BY <2>3, <2>4 DEF HeadsInv, HeadsDoneAreFound
  <1> QED
    BY <1>1, HeadsInvariant, PTL DEF HeadsSpec, KeepsListed

\* The offline path decides as the live one does: the catalog's row of a CVE
\* and the record it was made from have the same decision for any version
\* and head (nvd_cve.py:466-475).
THEOREM ProjectionsAgree == HeadsSpec => []CatalogAgrees
  <1>1. CatalogIsProjected => CatalogAgrees
    BY ProjectionDecides, RecordType DEF CatalogIsProjected, CatalogAgrees
  <1> QED
    BY <1>1, HeadsInvariant, PTL
=============================================================================
