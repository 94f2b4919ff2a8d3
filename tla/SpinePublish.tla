---------------------------- MODULE SpinePublish ----------------------------
(***************************************************************************)
(* Publishing the map: publish_spine of posture/export.py, which exports   *)
(* the catalog table by table into a staging directory, verifies it        *)
(* against its manifest and swaps it into the directory a web server       *)
(* serves; and a client that downloads the served map file by file,        *)
(* verifies its copy and imports it.                                       *)
(*                                                                         *)
(* The three directories outlive the publisher, which may die between any  *)
(* two steps and is started again by a timer.  A directory is removed in   *)
(* one step here: nobody looks at one that is being removed.               *)
(***************************************************************************)
EXTENDS Naturals

CONSTANTS
  Items,      \* what the catalog may hold; every item has a row in each table
  Tables,
  Position,   \* [Tables -> Nat], the order in which they are exported
  MaxFaults,  \* bound: faults of the publisher's host
  ReuseDir,   \* the client downloads over its last copy
  Torn,       \* what a damaged file holds
  NoMap, NoManifest

\* The rows of every table: a manifest's claim, or the content of the files.
\* A table without rows has neither a file nor an entry in the manifest.
Rows == [Tables -> SUBSET Items]
Damaged == {Torn}
Files == [Tables -> (SUBSET Items) \cup {Damaged}]
Manifest == Rows \cup {NoManifest}
Map == [files : Files, manifest : Manifest]

ASSUME SpineAssumption ==
  /\ Position \in [Tables -> Nat]
  /\ \A t, u \in Tables : Position[t] = Position[u] => t = u
  /\ MaxFaults \in Nat
  /\ ReuseDir \in BOOLEAN
  /\ Torn \notin Items
  /\ NoManifest \notin Rows
  /\ NoMap \notin Map

VARIABLES
  catalog,    \* the items the database holds
  staging,    \* .spine-staging, or NoMap
  previous,   \* .spine-previous, or NoMap
  published,  \* spine, the served directory, or NoMap
  phase,      \* where the publisher is
  left,       \* tables still to export
  entries,    \* the digests taken of the rows written so far
  faults,     \* host faults so far
  copy,       \* the client's directory
  toFetch,    \* shards the client has still to download
  loaded,     \* the rows in the client's database
  released,   \* history: the rows of every map ever published
  cuts        \* history: how often the publisher died in the middle of a swap

dirs == <<staging, previous, published>>
publisher == <<phase, left, entries>>
client == <<copy, toFetch, loaded>>
history == <<released, cuts>>
vars == <<catalog, dirs, publisher, faults, client, history>>

NoRows == [t \in Tables |-> {}]
NewMap == [files |-> NoRows, manifest |-> NoManifest]

\* verify_spine: every shard the manifest names is there and has the digest
\* it states.  Files the manifest does not name are not looked at.
Verifies(map) ==
  /\ map.manifest # NoManifest
  /\ \A t \in Tables :
       map.manifest[t] # {} => map.files[t] = map.manifest[t]

Fault == faults < MaxFaults /\ faults' = faults + 1

-----------------------------------------------------------------------------
(* The ingests and the purge: one commit writes every table of an item.    *)

AddItem(i) ==
  /\ i \notin catalog
  /\ catalog' = catalog \cup {i}
  /\ UNCHANGED <<dirs, publisher, faults, client, history>>

PurgeItem(i) ==
  /\ i \in catalog
  /\ catalog' = catalog \ {i}
  /\ UNCHANGED <<dirs, publisher, faults, client, history>>

-----------------------------------------------------------------------------
(* publish_spine.                                                          *)

\* Mutants: a start that respects a staging directory left behind, and one
\* that makes room early.
StartRespectingStaging ==
  /\ phase = "idle"
  /\ staging = NoMap
  /\ staging' = NewMap
  /\ phase' = "exporting"
  /\ left' = Tables
  /\ entries' = NoRows
  /\ UNCHANGED <<catalog, previous, published, faults, client, history>>

StartDroppingPrevious ==
  /\ phase = "idle"
  /\ staging' = NewMap
  /\ previous' = NoMap
  /\ phase' = "exporting"
  /\ left' = Tables
  /\ entries' = NoRows
  /\ UNCHANGED <<catalog, published, faults, client, history>>

\* A staging directory left by a run that died is removed first.
StartPublish ==
  /\ phase = "idle"
  /\ staging' = NewMap
  /\ phase' = "exporting"
  /\ left' = Tables
  /\ entries' = NoRows
  /\ UNCHANGED <<catalog, previous, published, faults, client, history>>

\* One table: a SELECT of its own, streamed to disk beside a running digest.
ExportTable(t) ==
  /\ phase = "exporting"
  /\ t \in left
  /\ \A u \in left : Position[t] <= Position[u]
  /\ left' = left \ {t}
  /\ entries' = [entries EXCEPT ![t] = catalog]
  /\ \/ /\ staging' = [staging EXCEPT !.files[t] = catalog]
        /\ UNCHANGED faults
     \/ /\ Fault
        /\ catalog # {}
        /\ staging' = [staging EXCEPT !.files[t] = Damaged]
  /\ UNCHANGED <<catalog, previous, published, phase, client, history>>

\* The manifest is written last, and signed.
WriteManifest ==
  /\ phase = "exporting"
  /\ left = {}
  /\ staging' = [staging EXCEPT !.manifest = entries]
  /\ phase' = "staged"
  /\ UNCHANGED <<catalog, previous, published, left, entries, faults, client,
                 history>>

\* Mutant: verification is skipped.
VerifyNothing ==
  /\ phase = "staged"
  /\ phase' = "verified"
  /\ UNCHANGED <<catalog, staging, previous, published, left, entries, faults,
                 client, history>>

VerifyStaged ==
  /\ phase = "staged"
  /\ IF Verifies(staging)
     THEN phase' = "verified" /\ UNCHANGED staging
     ELSE phase' = "idle" /\ staging' = NoMap
  /\ UNCHANGED <<catalog, previous, published, left, entries, faults, client,
                 history>>

\* A locked database, a full disk, an oversize shard, a missing signing key.
ExportFails ==
  /\ phase \in {"exporting", "staged"}
  /\ Fault
  /\ phase' = "idle"
  /\ staging' = NoMap
  /\ UNCHANGED <<catalog, previous, published, left, entries, client, history>>

RemovePrevious ==
  /\ phase = "verified"
  /\ previous' = NoMap
  /\ phase' = "cleared"
  /\ UNCHANGED <<catalog, staging, published, left, entries, faults, client,
                 history>>

\* Mutant: the served map is not moved aside, the new one goes over it.
MoveOver ==
  /\ phase = "cleared"
  /\ phase' = "aside"
  /\ UNCHANGED <<catalog, dirs, left, entries, faults, client, history>>

MoveAside ==
  /\ phase = "cleared"
  /\ IF published # NoMap
     THEN previous' = published /\ published' = NoMap
     ELSE UNCHANGED <<previous, published>>
  /\ phase' = "aside"
  /\ UNCHANGED <<catalog, staging, left, entries, faults, client, history>>

\* Neither of these two is inside a try: the staging directory stays.
SwapRaises ==
  /\ phase \in {"verified", "cleared"}
  /\ Fault
  /\ phase' = "idle"
  /\ UNCHANGED <<catalog, dirs, left, entries, client, history>>

MoveIn ==
  /\ phase = "aside"
  /\ published' = staging
  /\ staging' = NoMap
  /\ phase' = "landed"
  /\ released' = released \cup {staging.manifest}
  /\ UNCHANGED <<catalog, previous, left, entries, faults, client, cuts>>

\* Mutant: the old map is not put back.
MoveInFailsForGood ==
  /\ phase = "aside"
  /\ Fault
  /\ staging' = NoMap
  /\ phase' = "idle"
  /\ UNCHANGED <<catalog, previous, published, left, entries, client, history>>

\* The rename raises: the map moved aside in this run is put back.
MoveInFails ==
  /\ phase = "aside"
  /\ Fault
  /\ IF previous # NoMap /\ published = NoMap
     THEN published' = previous /\ previous' = NoMap
     ELSE UNCHANGED <<previous, published>>
  /\ staging' = NoMap
  /\ phase' = "idle"
  /\ UNCHANGED <<catalog, left, entries, client, history>>

CleanUp ==
  /\ phase = "landed"
  /\ previous' = NoMap
  /\ staging' = NoMap
  /\ phase' = "idle"
  /\ UNCHANGED <<catalog, published, left, entries, faults, client, history>>

\* The process is killed: by systemd's TimeoutStartSec, or with its host.
Crash ==
  /\ phase # "idle"
  /\ Fault
  /\ phase' = "idle"
  /\ cuts' = IF phase = "aside" THEN cuts + 1 ELSE cuts
  /\ UNCHANGED <<catalog, dirs, left, entries, client, released>>

-----------------------------------------------------------------------------
(* The client.                                                             *)

\* It reads the manifest, and forgets what it had begun to download.
FetchManifest ==
  /\ published # NoMap
  /\ copy' = [files |-> IF ReuseDir THEN copy.files ELSE NoRows,
              manifest |-> published.manifest]
  /\ toFetch' = {t \in Tables : published.manifest[t] # {}}
  /\ UNCHANGED <<catalog, dirs, publisher, faults, loaded, history>>

\* One shard, from whatever map is served by now; a shard that map does not
\* have is not found, and the transfer may be cut short.
FetchShard(t) ==
  /\ t \in toFetch
  /\ published # NoMap
  /\ toFetch' = toFetch \ {t}
  /\ \E got \in {published.files[t], Damaged} :
       copy' = IF published.files[t] = {}
               THEN copy
               ELSE [copy EXCEPT !.files[t] = got]
  /\ UNCHANGED <<catalog, dirs, publisher, faults, loaded, history>>

\* Mutant: the import without its verification.
ImportAnything ==
  /\ copy.manifest # NoManifest
  /\ loaded' = [t \in Tables |-> loaded[t] \cup (copy.files[t] \cap Items)]
  /\ UNCHANGED <<catalog, dirs, publisher, faults, copy, toFetch, history>>

\* import_spine: every shard file found in the directory is loaded, rows are
\* replaced or added and none is deleted, and all is committed before the
\* counts are compared with the manifest's.  A line that is no JSON raises.
ImportSpine ==
  /\ Verifies(copy)
  /\ \A t \in Tables : copy.files[t] # Damaged
  /\ loaded' = [t \in Tables |-> loaded[t] \cup copy.files[t]]
  /\ UNCHANGED <<catalog, dirs, publisher, faults, copy, toFetch, history>>

-----------------------------------------------------------------------------

Init ==
  /\ catalog \in SUBSET Items
  /\ staging = NoMap
  /\ previous = NoMap
  /\ published = NoMap
  /\ phase = "idle"
  /\ left = {}
  /\ entries = NoRows
  /\ faults = 0
  /\ copy = NewMap
  /\ toFetch = {}
  /\ loaded = NoRows
  /\ released = {}
  /\ cuts = 0

Writers == \E i \in Items : AddItem(i) \/ PurgeItem(i)

Publish ==
  \/ StartPublish
  \/ \E t \in Tables : ExportTable(t)
  \/ WriteManifest
  \/ VerifyStaged
  \/ RemovePrevious
  \/ MoveAside
  \/ MoveIn
  \/ CleanUp

Failures == ExportFails \/ SwapRaises \/ MoveInFails \/ Crash

Client == FetchManifest \/ (\E t \in Tables : FetchShard(t)) \/ ImportSpine

Next == Writers \/ Publish \/ Failures \/ Client

Spec == Init /\ [][Next]_vars

\* A timer starts the publisher again and again, and a publisher that runs
\* takes its next step: the host's faults are finitely many.
LiveSpec == Spec /\ WF_vars(Publish)

-----------------------------------------------------------------------------
(* Properties.                                                             *)

\* Types of the directories, the publisher and the client; from the start of
\* the export to the swap there is a staged map (export.py:593-620).
TypeOK ==
  /\ catalog \subseteq Items
  /\ {staging, previous, published} \subseteq Map \cup {NoMap}
  /\ phase \in {"idle", "exporting", "staged", "verified", "cleared", "aside",
                "landed"}
  /\ phase \in {"exporting", "staged", "verified", "cleared", "aside"}
       => staging # NoMap
  /\ left \subseteq Tables
  /\ entries \in Rows
  /\ faults \in 0 .. MaxFaults
  /\ copy \in Map
  /\ toFetch \subseteq Tables
  /\ loaded \in Rows
  /\ released \subseteq Manifest
  /\ cuts \in Nat

\* A map that is served is whole: each of its shards is the one its manifest
\* describes, and no shard lies beside it that the manifest does not name
\* (export.py:577-583, "never a mixture").
ServedIsWhole ==
  published # NoMap => published.files = published.manifest

\* A client never loads a mixture, though it downloads shard by shard while
\* maps are swapped under it: what it imports is one map that was published
\* (verify_spine before import_spine, export.py:1536-1538).  Its directory must
\* have been empty when it began.
ImportIsOneMap ==
  [][loaded' # loaded => copy.files \in released]_vars

\* Once a map has been served, one is served: except during the swap, and
\* after a process died in that very window (export.py:606-620).
StaysServed ==
  released # {} /\ cuts = 0 => published # NoMap \/ phase = "aside"

\* A single fault of the host, wherever it strikes, loses nothing: a whole map
\* is still in one of the directories, if only to be put back by hand
\* (export.py:606-620).
OneFaultIsRecoverable ==
  released # {} /\ faults <= 1
    => \E map \in {published, previous, staging} :
         map # NoMap /\ map.files = map.manifest

\* However the publisher dies, and whatever it leaves behind, a map is served
\* in the end (the staging directory of a dead run is removed at the start,
\* export.py:593-594).
ServedAgain == published = NoMap ~> published # NoMap

\* Those who read the served directory are promised whole maps that come and go
\* in one step each: the map aside in a swap is put back as it was or replaced,
\* unless the publisher dies right there (export.py:577-583 and 603-621).
Promise == INSTANCE ServedMap WITH
  served <- published,
  aside <- IF phase = "aside" THEN previous ELSE NoMap,
  lost <- cuts

KeepsPromise == Promise!Spec

(* What the documentation says and the code does not do.                   *)

\* export.py:581-583: "The served map is therefore always either the last
\* verified snapshot or the new one".
AlwaysServed == released # {} => published # NoMap \/ phase # "idle"
=============================================================================
