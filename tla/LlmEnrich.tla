----------------------------- MODULE LlmEnrich -----------------------------
(***************************************************************************)
(* Drafted catalog rows: the LLM enrichment of posture/llm_enrich.py       *)
(* beside the writers that bring what a real source says.                  *)
(*                                                                         *)
(* A tick selects the thin rows, asks a provider about one after the       *)
(* other, and fills what the row lacks.  It reads a row, then updates it:  *)
(* another process may write the row in between, until the tick's first    *)
(* update opens its one transaction and keeps the other writers out.       *)
(* Nothing keeps two ticks apart: each is a process of its own, and only   *)
(* their transactions exclude each other.                                  *)
(*                                                                         *)
(* Of a row's fields two are told apart, by who wrote them: the score      *)
(* (cvss or cvss_vector), which one writes, and fixed_raw, a dict whose    *)
(* keys several may have written.  NVD gives CPE ranges there, a peer      *)
(* packages with ranges of their own.                                      *)
(***************************************************************************)
EXTENDS Naturals, FiniteSets

CONSTANTS
  Rows,
  Models,    \* the providers, a row drafted by m has source llm:m
  Ticks,     \* processes that run _cmd_enrich_llm
  ListedBy,  \* [Rows -> SUBSET Real], the real sources that list a row
  Newer,     \* [Rows -> Nat], order of publication, later is higher
  Columns,   \* the columns drafts bring: "score", "fixed_raw", or "prose"
             \* for every other one
  DraftCap,  \* rows asked per tick
  NoRow, NoTxn, NoDraft

Real == {"mitre", "nvd", "osv"}

ASSUME LlmAssumption ==
  /\ IsFiniteSet(Rows)
  /\ ListedBy \in [Rows -> SUBSET Real]
  /\ Newer \in [Rows -> Nat]
  /\ \A r, s \in Rows : Newer[r] = Newer[s] => r = s
  /\ Columns \subseteq {"score", "fixed_raw", "prose"}
  /\ DraftCap \in Nat \ {0}
  /\ Models \cap (Real \cup {"nobody", "real", "kept", "cpe", "package"}) = {}
  /\ NoDraft \notin Models

VARIABLES
  defects,  \* the catalog as committed: [Rows -> Row]
  model,    \* of each tick its provider, or NoDraft while it does not run
  queue,    \* of each tick the rows it has yet to ask about
  held,     \* of each tick the update it is about to make, or NoDraft
  mine,     \* of each tick the catalog in its open transaction, or NoTxn
  crossed   \* history, of each running tick: the rows another tick wrote
            \* while this one had yet to write them

ticks == <<model, queue, held, mine, crossed>>
vars == <<defects, ticks>>

Authors == {"cpe", "package"} \cup Models

Row == [source : Real \cup Models, stratum : Real \cup {"llm"},
        score : {"nobody", "real"} \cup Models,
        fixed_raw : SUBSET Authors,
        marked : {0, 1}]
Catalogs == [Rows -> Row \cup {NoRow}]

\* The columns upsert_llm_draft is to set, "kept" for one it leaves alone.
Filling == [score : {"kept"} \cup Models,
            fixed_raw : {{"kept"}} \cup SUBSET Authors]
Update == [id : Rows, merged : Filling]

ASSUME NoneAssumption ==
  NoRow \notin Row /\ NoTxn \notin Catalogs /\ NoDraft \notin Update

\* What a draft brings; part of it may break the rules of validate_draft.
Draft == SUBSET (Columns \cup {"malformed"})

Drafted(row) == row.source \in Models

\* _row_is_thin: it knows a CPE range by its criteria; the ranges of a peer
\* lie one level deeper than it looks.
Thin(row) == row.score = "nobody" /\ row.fixed_raw \subseteq {"package"}

\* The assess path reads NVD rows that name products and are not distrusted.
Decidable(row) ==
  row.source = "nvd" /\ row.marked = 0 /\ row.fixed_raw # {}

-----------------------------------------------------------------------------
(* The real sources.                                                       *)

\* No other process has a transaction open: SQLite admits one writer.
Unlocked == \A t \in Ticks : mine[t] = NoTxn

\* Mutant: what the new record lacks is kept from the old row.
UpsertedFilling(row, source, score, fixed_raw) ==
  [source |-> source, stratum |-> source,
   score |-> IF row # NoRow /\ score = "nobody" THEN row.score ELSE score,
   fixed_raw |-> fixed_raw,
   marked |-> IF row = NoRow THEN 0 ELSE row.marked]

\* upsert_defect and set_enrich_state: every field is overwritten, the
\* distrust mark stays.
Upserted(row, source, score, fixed_raw) ==
  [source |-> source, stratum |-> source, score |-> score,
   fixed_raw |-> fixed_raw, marked |-> IF row = NoRow THEN 0 ELSE row.marked]

Upsert(r, source, fixed_raw) ==
  /\ source \in ListedBy[r]
  /\ Unlocked
  /\ \E score \in {"nobody", "real"} :
       defects' =
         [defects EXCEPT ![r] = Upserted(@, source, score, fixed_raw)]
  /\ UNCHANGED ticks

\* The stream: a new or changed record, with the vector of its CNA or none.
TakeSkeleton(r) == Upsert(r, "mitre", {})

\* The refresh: only the pending skeletons are asked for.
EnrichPending(r) ==
  /\ defects[r] # NoRow
  /\ defects[r].stratum = "mitre"
  /\ \E fixed_raw \in {{}, {"cpe"}} : Upsert(r, "nvd", fixed_raw)

\* nvd_cpe_ingest_tick: whatever NVD lists under a CPE head.
IngestCpe(r) == Upsert(r, "nvd", {"cpe"})

\* A record of an OSV export, which lists its packages or none.
IngestPeer(r) ==
  \E fixed_raw \in {{}, {"package"}} : Upsert(r, "osv", fixed_raw)

Purge(r) ==
  /\ Unlocked
  /\ defects' = [defects EXCEPT ![r] = NoRow]
  /\ UNCHANGED ticks

-----------------------------------------------------------------------------
(* llm_enrich_tick.                                                        *)

Pool(rows) == {r \in Rows : rows[r] # NoRow /\ ~Drafted(rows[r]) /\ Thin(rows[r])}

FirstOf(ids) ==
  {r \in ids : Cardinality({s \in ids : Newer[s] > Newer[r]}) < DraftCap}

\* Mutant: distrusted rows are drafted too.
ThinOfAnyTrust(rows) == FirstOf(Pool(rows))

\* thin_defect_ids: the newest first, the cap counts thin rows only.
ThinDefectIds(rows) == FirstOf({r \in Pool(rows) : rows[r].marked = 0})

StartTick(t, m) ==
  /\ model[t] = NoDraft
  /\ model' = [model EXCEPT ![t] = m]
  /\ queue' = [queue EXCEPT ![t] = ThinDefectIds(defects)]
  /\ UNCHANGED <<defects, held, mine, crossed>>

NextRow(t, r) ==
  /\ held[t] = NoDraft
  /\ r \in queue[t]
  /\ \A s \in queue[t] : Newer[s] <= Newer[r]

\* What a tick's own connection reads.
View(t) == IF mine[t] = NoTxn THEN defects ELSE mine[t]

ValidDraft(draft) == "malformed" \notin draft

\* It brings a column that is empty, or a key that fixed_raw lacks.
Fills(row, draft) ==
  \/ "score" \in draft /\ row.score = "nobody"
  \/ draft \cap {"fixed_raw", "prose"} # {}

\* The row is gone, draft_fn raises or has nothing to say, the draft is
\* rejected, a real source has enriched the row, or nothing is new.
SkipRow(t, r) ==
  /\ NextRow(t, r)
  /\ queue' = [queue EXCEPT ![t] = @ \ {r}]
  /\ crossed' = [crossed EXCEPT ![t] = @ \ {r}]
  /\ UNCHANGED <<defects, model, held, mine>>

\* What the update is to set, from the row as it was read again: an empty
\* score, and the whole of fixed_raw with the draft's keys among its own.
Merged(row, draft, m) ==
  [score |-> IF "score" \in draft /\ row.score = "nobody" THEN m ELSE "kept",
   fixed_raw |->
     IF "fixed_raw" \in draft THEN row.fixed_raw \cup {m} ELSE {"kept"}]

\* A draft passes validate_draft and upsert_llm_draft reads the row again: a
\* drafted row may be drafted again, a real source's must still be thin.
DraftArrives(t, r, draft) ==
  /\ NextRow(t, r)
  /\ ValidDraft(draft)
  /\ View(t)[r] # NoRow
  /\ Drafted(View(t)[r]) \/ Thin(View(t)[r])
  /\ Fills(View(t)[r], draft)
  /\ held' = [held EXCEPT
                ![t] = [id |-> r, merged |-> Merged(View(t)[r], draft, model[t])]]
  /\ queue' = [queue EXCEPT ![t] = @ \ {r}]
  /\ UNCHANGED <<defects, model, mine, crossed>>

\* Mutant: the row keeps the label of its source.
UpdatedUnlabelled(now, merged, m) ==
  [source |-> now.source, stratum |-> "llm", marked |-> now.marked,
   score |-> IF merged.score = "kept" THEN now.score ELSE merged.score,
   fixed_raw |-> IF merged.fixed_raw = {"kept"}
                 THEN now.fixed_raw ELSE merged.fixed_raw]

\* The update: the columns to set as they were merged, and the label.
Updated(now, merged, m) ==
  [source |-> m, stratum |-> "llm", marked |-> now.marked,
   score |-> IF merged.score = "kept" THEN now.score ELSE merged.score,
   fixed_raw |-> IF merged.fixed_raw = {"kept"}
                 THEN now.fixed_raw ELSE merged.fixed_raw]

WriteDraft(t) ==
  /\ held[t] # NoDraft
  /\ \A s \in Ticks \ {t} : mine[s] = NoTxn
  /\ mine' = [mine EXCEPT ![t] =
                [r \in Rows |->
                   IF r = held[t].id /\ View(t)[r] # NoRow
                   THEN Updated(View(t)[r], held[t].merged, model[t])
                   ELSE View(t)[r]]]
  /\ held' = [held EXCEPT ![t] = NoDraft]
  /\ UNCHANGED <<defects, model, queue, crossed>>

EndTick(t) ==
  /\ model' = [model EXCEPT ![t] = NoDraft]
  /\ queue' = [queue EXCEPT ![t] = {}]
  /\ held' = [held EXCEPT ![t] = NoDraft]
  /\ mine' = [mine EXCEPT ![t] = NoTxn]

\* The rows a tick has yet to write.
Unwritten(t) == queue[t] \cup IF held[t] = NoDraft THEN {} ELSE {held[t].id}

\* The commit of _cmd_enrich_llm.
CommitTick(t) ==
  /\ model[t] # NoDraft
  /\ queue[t] = {}
  /\ held[t] = NoDraft
  /\ defects' = View(t)
  /\ crossed' = [s \in Ticks |->
                   IF s = t THEN {}
                   ELSE crossed[s] \cup
                          {r \in Unwritten(s) : View(t)[r] # defects[r]}]
  /\ EndTick(t)

\* The process dies, or a write meets a locked database: rolled back.
TickDies(t) ==
  /\ model[t] # NoDraft
  /\ EndTick(t)
  /\ crossed' = [crossed EXCEPT ![t] = {}]
  /\ UNCHANGED defects

\* distrust_provider: every row that carries the provider's label.
DistrustProvider(m) ==
  /\ Unlocked
  /\ defects' =
       [r \in Rows |->
          IF defects[r] # NoRow /\ defects[r].source = m
          THEN [defects[r] EXCEPT !.marked = 1] ELSE defects[r]]
  /\ UNCHANGED ticks

-----------------------------------------------------------------------------

Init ==
  /\ defects = [r \in Rows |-> NoRow]
  /\ model = [t \in Ticks |-> NoDraft]
  /\ queue = [t \in Ticks |-> {}]
  /\ held = [t \in Ticks |-> NoDraft]
  /\ mine = [t \in Ticks |-> NoTxn]
  /\ crossed = [t \in Ticks |-> {}]

RealSources ==
  \E r \in Rows :
    TakeSkeleton(r) \/ EnrichPending(r) \/ IngestCpe(r) \/ IngestPeer(r)
      \/ Purge(r)

Enrich(t) ==
  \/ \E m \in Models : StartTick(t, m)
  \/ \E r \in Rows :
       SkipRow(t, r) \/ \E draft \in Draft : DraftArrives(t, r, draft)
  \/ WriteDraft(t)
  \/ CommitTick(t)
  \/ TickDies(t)

Operator == \E m \in Models : DistrustProvider(m)

Next == RealSources \/ (\E t \in Ticks : Enrich(t)) \/ Operator

Spec == Init /\ [][Next]_vars

(* Fairness: the regular ticks run again and again, so a row that stays    *)
(* pending is asked for, and a tick of drafts ends.                        *)
LiveSpec ==
  /\ Spec
  /\ \A t \in Ticks : WF_vars(CommitTick(t) \/ TickDies(t))
  /\ \A r \in Rows : SF_vars(EnrichPending(r))

-----------------------------------------------------------------------------
(* Properties.                                                             *)

\* Types; a tick that does not run holds neither an update nor a transaction,
\* and no two hold a transaction (llm_enrich.py:418-478, cli.py:1416-1421).
TypeOK ==
  /\ defects \in Catalogs
  /\ model \in [Ticks -> Models \cup {NoDraft}]
  /\ queue \in [Ticks -> SUBSET Rows]
  /\ held \in [Ticks -> Update \cup {NoDraft}]
  /\ mine \in [Ticks -> Catalogs \cup {NoTxn}]
  /\ crossed \in [Ticks -> SUBSET Rows]
  /\ \A t \in Ticks :
       model[t] = NoDraft => queue[t] = {} /\ held[t] = NoDraft /\ mine[t] = NoTxn
  /\ \A t, s \in Ticks : mine[t] # NoTxn /\ mine[s] # NoTxn => t = s

\* The providers whose words a row holds.
Providers(row) == ({row.score} \cup row.fixed_raw) \cap Models

\* No row the assess path would decide from holds a field a provider wrote,
\* not even a row that was drafted and then enriched, or enriched while its
\* draft was being written (llm_enrich.py:22-26, "STRUCTURALLY BARRED").
NoDraftDecides ==
  \A r \in Rows :
    defects[r] # NoRow /\ Decidable(defects[r]) => Providers(defects[r]) = {}

\* A row holds a provider's words under another one's label.
Mixed(row) == row # NoRow /\ Providers(row) \ {row.source} # {}

\* A row comes to hold one provider's words under another's label, out of
\* reach of the sweep, only if two ticks crossed on it: another tick's draft
\* of it was committed after this one had selected it and before it wrote it
\* (llm_enrich.py:73-85 and 352-361).
MixedOnlyByCrossing ==
  [][\A r \in Rows :
       Mixed(defects'[r])
         => Mixed(defects[r]) \/ \E t \in Ticks : r \in crossed[t]]_vars

\* A row that was retracted is drafted again, even after a real source has
\* taken it over and left it thin, only where two ticks crossed on it
\* (llm_enrich.py:297-303 and 352-361).
RedraftedOnlyByCrossing ==
  [][\A r \in Rows :
       defects[r] # NoRow /\ defects'[r] # NoRow
         => (defects[r].marked = 1 /\ Drafted(defects'[r])
               => \/ defects'[r] = defects[r]
                  \/ \E t \in Ticks : r \in crossed[t])]_vars

(* What the documentation says and the code does not do.                   *)

\* llm_enrich.py:82-84: the sweep of distrust_provider "marks exactly one
\* provider's rows": what a provider wrote bears its own label.
RetractableInOneSweep == \A r \in Rows : ~Mixed(defects[r])

\* llm_enrich.py:518-520: a distrusted row is "excluded from future
\* re-drafting".
RetractedStayOut ==
  [][\A r \in Rows :
       defects[r] # NoRow /\ defects'[r] # NoRow
         => (defects[r].marked = 1 /\ Drafted(defects'[r])
               => defects'[r] = defects[r])]_vars

\* llm_enrich.py:28-31: a foreign-authored map point always wins: a row NVD
\* has enriched with products is decided from.
RealSourceDecides ==
  \A r \in Rows :
    defects[r] # NoRow /\ defects[r].source = "nvd"
      /\ "cpe" \in defects[r].fixed_raw => Decidable(defects[r])

\* llm_enrich.py:275-277: a row that carries a score or usable affected info
\* is left alone by the drafts.
UsableRowsStayReal ==
  [][\A r \in Rows :
       defects[r] # NoRow /\ ~Drafted(defects[r])
         => (defects[r].fixed_raw # {} /\ defects'[r] # NoRow
               => ~Drafted(defects'[r]))]_vars

\* docs/architecture.md:316: real-source enrichment overwrites drafts.
DraftsAreOverwritten ==
  \A r \in Rows :
    (defects[r] # NoRow /\ Drafted(defects[r]))
      ~> (defects[r] = NoRow \/ ~Drafted(defects[r]))
=============================================================================
