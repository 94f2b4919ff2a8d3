------------------------- MODULE SpinePublishProofs -------------------------
(* Proofs about SpinePublish, for every catalog, any number of tables and   *)
(* faults: what is served is whole, and what a client imports is one map.   *)
EXTENDS SpinePublish, TLAPS

-----------------------------------------------------------------------------
(* Types.                                                                   *)

LEMMA InitTypes == Init => TypeOK
BY SpineAssumption DEF Init, TypeOK, NewMap, NoRows, Map, Files, Manifest, Rows

LEMMA WritersKeepTypes ==
  ASSUME TypeOK, Writers
  PROVE  TypeOK'
BY DEF TypeOK, Writers, AddItem, PurgeItem, dirs, publisher, client, history

LEMMA PublishKeepsTypes ==
  ASSUME TypeOK, Publish
  PROVE  TypeOK'
<1> USE SpineAssumption DEF TypeOK, dirs, client, history
<1>1. CASE StartPublish
  BY <1>1 DEF StartPublish, NewMap, NoRows, Map, Files, Manifest, Rows
<1>2. ASSUME NEW t \in Tables, ExportTable(t)
      PROVE  TypeOK'
  <2>1. staging \in Map
    BY <1>2 DEF ExportTable
  <2>2. staging' \in Map
    <3>1. PICK c \in {catalog, Damaged} :
             staging' = [staging EXCEPT !.files[t] = c]
      BY <1>2 DEF ExportTable
    <3>2. c \in (SUBSET Items) \cup {Damaged}
      BY <3>1
    <3>3. [staging.files EXCEPT ![t] = c] \in Files
      BY <2>1, <3>2 DEF Map, Files
    <3>4. staging' = [files |-> [staging.files EXCEPT ![t] = c],
                      manifest |-> staging.manifest]
      BY <2>1, <3>1 DEF Map
    <3> QED
      BY <2>1, <3>3, <3>4 DEF Map
  <2>3. entries' \in Rows
    BY <1>2 DEF ExportTable, Rows
  <2>4. faults' \in 0 .. MaxFaults
    BY <1>2 DEF ExportTable, Fault
  <2> QED
    BY <1>2, <2>2, <2>3, <2>4 DEF ExportTable
<1>3. CASE WriteManifest
  BY <1>3 DEF WriteManifest, Map, Manifest
<1>4. CASE VerifyStaged
  BY <1>4 DEF VerifyStaged
<1>5. CASE RemovePrevious
  BY <1>5 DEF RemovePrevious
<1>6. CASE MoveAside
  BY <1>6 DEF MoveAside
<1>7. CASE MoveIn
  BY <1>7 DEF MoveIn, Map
<1>8. CASE CleanUp
  BY <1>8 DEF CleanUp
<1> QED
  BY <1>1, <1>2, <1>3, <1>4, <1>5, <1>6, <1>7, <1>8 DEF Publish

LEMMA FailuresKeepTypes ==
  ASSUME TypeOK, Failures
  PROVE  TypeOK'
<1> USE SpineAssumption DEF TypeOK, client, history, Fault
<1>1. CASE ExportFails
  BY <1>1 DEF ExportFails
<1>2. CASE SwapRaises
  BY <1>2 DEF SwapRaises, dirs
<1>3. CASE MoveInFails
  BY <1>3 DEF MoveInFails
<1>4. CASE Crash
  BY <1>4 DEF Crash, dirs
<1> QED
  BY <1>1, <1>2, <1>3, <1>4 DEF Failures

LEMMA ClientKeepsTypes ==
  ASSUME TypeOK, Client
  PROVE  TypeOK'
<1> USE SpineAssumption DEF TypeOK, dirs, publisher, history
<1>1. CASE FetchManifest
  BY <1>1 DEF FetchManifest, Map, NoRows, Files
<1>2. ASSUME NEW t \in Tables, FetchShard(t)
      PROVE  TypeOK'
  <2>1. CASE copy' = copy
    BY <1>2, <2>1 DEF FetchShard
  <2>2. CASE copy' # copy
    <3>1. PICK c \in {published.files[t], Damaged} :
             copy' = [copy EXCEPT !.files[t] = c]
      BY <1>2, <2>2 DEF FetchShard
    <3>2. c \in (SUBSET Items) \cup {Damaged}
      BY <1>2, <3>1 DEF FetchShard, Map, Files
    <3>3. [copy.files EXCEPT ![t] = c] \in Files
      BY <3>2 DEF Map, Files
    <3>4. copy' = [files |-> [copy.files EXCEPT ![t] = c],
                   manifest |-> copy.manifest]
      BY <3>1 DEF Map
    <3>5. copy' \in Map
      BY <3>3, <3>4 DEF Map
    <3> QED
      BY <1>2, <3>5 DEF FetchShard
  <2> QED
    BY <2>1, <2>2
<1>3. CASE ImportSpine
  <2>1. copy.files \in Rows
    <3>1. copy.files \in Files
      BY DEF Map
    <3>2. \A t \in Tables : copy.files[t] # Damaged
      BY <1>3 DEF ImportSpine
    <3> QED
      BY <3>1, <3>2 DEF Files, Rows
  <2> QED
    BY <1>3, <2>1 DEF ImportSpine, Map, Rows
<1> QED
  BY <1>1, <1>2, <1>3 DEF Client

\* The directories, the publisher and the client keep their types
\* (export.py:556-621 and 1523-1701), for every value of the constants.
THEOREM SpineTypeCorrect == Spec => []TypeOK
<1>1. ASSUME TypeOK, [Next]_vars
      PROVE  TypeOK'
  <2>1. CASE UNCHANGED vars
    BY <1>1, <2>1 DEF TypeOK, vars, dirs, publisher, client, history
  <2> QED
    BY <1>1, <2>1, WritersKeepTypes, PublishKeepsTypes, FailuresKeepTypes,
       ClientKeepsTypes DEF Next
<1> QED
  BY <1>1, InitTypes, PTL DEF Spec

-----------------------------------------------------------------------------
(* What is served is whole.                                                 *)

Whole(map) ==
  map # NoMap => map.manifest \in Rows /\ map.files = map.manifest

(* While it exports, the digests describe the files written so far, save a  *)
(* damaged one; a verified staging directory is whole, as are the two maps  *)
(* beside it.                                                               *)
StagedInv ==
  /\ phase = "exporting" => staging.manifest = NoManifest
  /\ phase = "exporting"
       => \A t \in left : staging.files[t] = {} /\ entries[t] = {}
  /\ phase \in {"exporting", "staged"}
       => \A t \in Tables : entries[t] = {} => staging.files[t] = {}
  /\ phase = "staged" => staging.manifest = entries
  /\ phase \in {"verified", "cleared", "aside"} => Whole(staging)

DirsInv ==
  /\ Whole(published)
  /\ Whole(previous)

ReleasedInv ==
  /\ published # NoMap => published.manifest \in released
  /\ previous # NoMap => previous.manifest \in released

PublishInv == TypeOK /\ StagedInv /\ DirsInv /\ ReleasedInv

\* A staged map that verifies is whole: what the manifest names is as it says,
\* and nothing else was written.
LEMMA VerifiedIsWhole ==
  ASSUME PublishInv, phase = "staged", Verifies(staging)
  PROVE  Whole(staging)
<1>1. staging \in Map /\ staging.manifest = entries /\ entries \in Rows
  BY DEF PublishInv, TypeOK, StagedInv
<1>2. \A t \in Tables : staging.files[t] = entries[t]
  BY <1>1 DEF PublishInv, StagedInv, Verifies
<1>3. staging.files = entries
  BY <1>1, <1>2 DEF Map, Files, Rows
<1> QED
  BY <1>1, <1>3 DEF Whole

LEMMA PublishKeepsPublishInv ==
  ASSUME PublishInv, Publish, TypeOK'
  PROVE  PublishInv'
<1> USE SpineAssumption DEF PublishInv, StagedInv, DirsInv, ReleasedInv
<1>1. CASE StartPublish
  <2>1. Whole(published)' /\ Whole(previous)'
    BY <1>1 DEF StartPublish, Whole
  <2> QED
    BY <1>1, <2>1 DEF StartPublish, NewMap, NoRows, history
<1>2. ASSUME NEW t \in Tables, ExportTable(t)
      PROVE  PublishInv'
  <2>1. staging \in Map /\ entries \in Rows
    BY <1>2 DEF TypeOK, ExportTable
  <2>2. PICK c \in {catalog, Damaged} :
           /\ staging' = [staging EXCEPT !.files[t] = c]
           /\ catalog = {} => c = {}
    BY <1>2 DEF ExportTable
  <2>3. /\ staging'.manifest = staging.manifest
        /\ \A u \in Tables : staging'.files[u] = IF u = t THEN c
                                                 ELSE staging.files[u]
    BY <2>1, <2>2 DEF Map, Files
  <2>4. \A u \in Tables : entries'[u] = IF u = t THEN catalog ELSE entries[u]
    BY <1>2, <2>1 DEF ExportTable, Rows
  <2>5. left' = left \ {t} /\ left \subseteq Tables
    BY <1>2 DEF ExportTable, TypeOK
  <2>6. StagedInv'
    BY <1>2, <2>2, <2>3, <2>4, <2>5 DEF ExportTable
  <2> QED
    BY <1>2, <2>6 DEF ExportTable, Whole, history
<1>3. CASE WriteManifest
  <2>1. staging \in Map
    BY <1>3 DEF TypeOK, WriteManifest
  <2>2. staging'.manifest = entries /\ staging'.files = staging.files
    BY <1>3, <2>1 DEF WriteManifest, Map
  <2> QED
    BY <1>3, <2>2 DEF WriteManifest, Whole, history
<1>4. CASE VerifyStaged
  <2>1. Verifies(staging) => Whole(staging)
    BY <1>4, VerifiedIsWhole DEF VerifyStaged
  <2> QED
    BY <1>4, <2>1 DEF VerifyStaged, Whole, history
<1>5. CASE RemovePrevious
  BY <1>5 DEF RemovePrevious, Whole, history
<1>6. CASE MoveAside
  BY <1>6 DEF MoveAside, Whole, history
<1>7. CASE MoveIn
  BY <1>7 DEF MoveIn, Whole, TypeOK
<1>8. CASE CleanUp
  BY <1>8 DEF CleanUp, Whole, history
<1> QED
  BY <1>1, <1>2, <1>3, <1>4, <1>5, <1>6, <1>7, <1>8 DEF Publish

LEMMA OthersKeepPublishInv ==
  ASSUME PublishInv, Writers \/ Failures \/ Client \/ UNCHANGED vars, TypeOK'
  PROVE  PublishInv'
<1> USE DEF PublishInv, StagedInv, DirsInv, ReleasedInv, Whole, dirs,
            publisher, client, history
<1>1. CASE Writers
  BY <1>1 DEF Writers, AddItem, PurgeItem
<1>2. CASE Failures
  BY <1>2 DEF Failures, ExportFails, SwapRaises, MoveInFails, Crash
<1>3. CASE Client
  BY <1>3 DEF Client, FetchManifest, FetchShard, ImportSpine
<1>4. CASE UNCHANGED vars
  BY <1>4 DEF vars
<1> QED
  BY <1>1, <1>2, <1>3, <1>4

THEOREM PublishInvHolds == Spec => []PublishInv
<1>1. Init => PublishInv
  BY InitTypes, SpineAssumption
     DEF Init, PublishInv, StagedInv, DirsInv, ReleasedInv, Whole
<1>2. ASSUME PublishInv, [Next]_vars, TypeOK'
      PROVE  PublishInv'
  BY <1>2, PublishKeepsPublishInv, OthersKeepPublishInv DEF Next
<1> QED
  BY <1>1, <1>2, SpineTypeCorrect, PTL DEF Spec

\* A served map is whole, whatever kills the publisher and however often
\* (export.py:577-583), for every value of the constants.
THEOREM ServedIsAlwaysWhole == Spec => []ServedIsWhole
<1>1. PublishInv => ServedIsWhole
  BY DEF PublishInv, DirsInv, Whole, ServedIsWhole
<1> QED
  BY <1>1, PublishInvHolds, PTL

-----------------------------------------------------------------------------
(* What a client imports is one map.                                        *)

(* A client that began in an empty directory has, of the shards its         *)
(* manifest names, those it fetched, and no other.                          *)
CopyInv ==
  /\ copy.manifest # NoManifest => copy.manifest \in released
  /\ copy.manifest # NoManifest
       => \A t \in Tables : copy.manifest[t] = {}
                              => t \notin toFetch /\ copy.files[t] = {}
  /\ copy.manifest = NoManifest => toFetch = {}

LEMMA ClientKeepsCopyInv ==
  ASSUME ~ReuseDir, PublishInv, CopyInv, Client
  PROVE  CopyInv'
<1> USE SpineAssumption DEF CopyInv, history
<1>1. CASE FetchManifest
  <2>1. /\ copy' = [files |-> NoRows, manifest |-> published.manifest]
        /\ published.manifest \in released
        /\ published.manifest # NoManifest
    BY <1>1 DEF FetchManifest, PublishInv, ReleasedInv, DirsInv, Whole
  <2> QED
    BY <1>1, <2>1 DEF FetchManifest, NoRows
<1>2. ASSUME NEW t \in Tables, FetchShard(t)
      PROVE  CopyInv'
  <2>1. copy \in Map
    BY DEF PublishInv, TypeOK
  <2>2. /\ copy'.manifest = copy.manifest
        /\ \A u \in Tables : u # t => copy'.files[u] = copy.files[u]
    BY <1>2, <2>1 DEF FetchShard, Map, Files
  <2> QED
    BY <1>2, <2>2 DEF FetchShard
<1>3. CASE ImportSpine
  BY <1>3 DEF ImportSpine
<1> QED
  BY <1>1, <1>2, <1>3 DEF Client

LEMMA OthersKeepCopyInv ==
  ASSUME CopyInv, Writers \/ Publish \/ Failures \/ UNCHANGED vars
  PROVE  CopyInv'
<1> USE DEF CopyInv, client, history
<1>1. CASE Writers
  BY <1>1 DEF Writers, AddItem, PurgeItem
<1>2. CASE Publish
  BY <1>2 DEF Publish, StartPublish, ExportTable, WriteManifest, VerifyStaged,
     RemovePrevious, MoveAside, MoveIn, CleanUp
<1>3. CASE Failures
  BY <1>3 DEF Failures, ExportFails, SwapRaises, MoveInFails, Crash
<1>4. CASE UNCHANGED vars
  BY <1>4 DEF vars
<1> QED
  BY <1>1, <1>2, <1>3, <1>4

\* The rows of a database only change by the import of a published map.
LEMMA ImportsReleased ==
  ASSUME PublishInv, CopyInv, [Next]_vars, loaded' # loaded
  PROVE  copy.files \in released
<1>1. ImportSpine
  BY DEF Next, Writers, AddItem, PurgeItem, Publish, StartPublish, ExportTable,
     WriteManifest, VerifyStaged, RemovePrevious, MoveAside, MoveIn, CleanUp,
     Failures, ExportFails, SwapRaises, MoveInFails, Crash, Client,
     FetchManifest, FetchShard, client, vars
<1>2. copy \in Map /\ copy.manifest \in Rows
  BY <1>1 DEF ImportSpine, Verifies, PublishInv, TypeOK, Map, Manifest
<1>3. \A t \in Tables : copy.files[t] = copy.manifest[t]
  BY <1>1 DEF ImportSpine, Verifies, CopyInv
<1>4. copy.files = copy.manifest
  BY <1>2, <1>3 DEF Map, Files, Rows
<1> QED
  BY <1>1, <1>4 DEF CopyInv, ImportSpine, Verifies

\* A client that downloads into an empty directory imports one published map
\* as a whole, however many maps are swapped in while it downloads
\* (export.py:640-664 before 1523-1701), for every value of the constants.
THEOREM ImportsAreOneMap ==
  ASSUME ~ReuseDir
  PROVE  Spec => ImportIsOneMap
<1>1. Init => CopyInv
  BY DEF Init, CopyInv, NewMap
<1>2. ASSUME PublishInv, CopyInv, [Next]_vars
      PROVE  CopyInv'
  BY <1>2, ClientKeepsCopyInv, OthersKeepCopyInv DEF Next
<1>3. ASSUME PublishInv, CopyInv, [Next]_vars
      PROVE  [loaded' # loaded => copy.files \in released]_vars
  BY <1>3, ImportsReleased
<1> QED
  BY <1>1, <1>2, <1>3, PublishInvHolds, PTL DEF Spec, ImportIsOneMap
-----------------------------------------------------------------------------
(* A map stays served, and one fault loses none.                            *)

(* Without a death in the swap, a map is served or waits beside the swap;   *)
(* with at most one fault, the swap is the only time when the maps of the   *)
(* past may both be gone, and then the staged one is whole.                 *)
KeptInv ==
  /\ cuts <= faults
  /\ phase = "landed" => published # NoMap
  /\ released # {} /\ cuts = 0
       => published # NoMap \/ (phase = "aside" /\ previous # NoMap)
  /\ released # {} /\ faults <= 1
       => \/ published # NoMap
          \/ previous # NoMap
          \/ phase \in {"cleared", "aside"}

LEMMA PublishKeepsKeptInv ==
  ASSUME PublishInv, KeptInv, Publish
  PROVE  KeptInv'
<1> USE SpineAssumption DEF KeptInv, history, dirs
<1>1. CASE StartPublish
  BY <1>1 DEF StartPublish
<1>2. ASSUME NEW t \in Tables, ExportTable(t)
      PROVE  KeptInv'
  <2>1. faults \in Nat /\ cuts \in Nat /\ faults' \in {faults, faults + 1}
    BY <1>2 DEF ExportTable, Fault, PublishInv, TypeOK
  <2> QED
    BY <1>2, <2>1 DEF ExportTable
<1>3. CASE WriteManifest
  BY <1>3 DEF WriteManifest
<1>4. CASE VerifyStaged
  BY <1>4 DEF VerifyStaged
<1>5. CASE RemovePrevious
  BY <1>5 DEF RemovePrevious
<1>6. CASE MoveAside
  BY <1>6 DEF MoveAside
<1>7. CASE MoveIn
  BY <1>7 DEF MoveIn, PublishInv, TypeOK
<1>8. CASE CleanUp
  BY <1>8 DEF CleanUp
<1> QED
  BY <1>1, <1>2, <1>3, <1>4, <1>5, <1>6, <1>7, <1>8 DEF Publish

LEMMA FailuresKeepKeptInv ==
  ASSUME PublishInv, KeptInv, Failures
  PROVE  KeptInv'
<1> USE DEF KeptInv, dirs, client, history
<1>1. /\ faults \in Nat
      /\ cuts \in Nat
      /\ faults' = faults + 1
  BY DEF PublishInv, TypeOK, Failures, ExportFails, SwapRaises, MoveInFails,
     Crash, Fault
<1>2. faults' <= 1 => cuts = 0
  BY <1>1
<1>3. CASE ExportFails
  BY <1>1, <1>3 DEF ExportFails
<1>4. CASE SwapRaises
  BY <1>1, <1>2, <1>4 DEF SwapRaises
<1>5. CASE MoveInFails
  BY <1>1, <1>2, <1>5 DEF MoveInFails
<1>6. CASE Crash
  BY <1>1, <1>2, <1>6 DEF Crash
<1> QED
  BY <1>3, <1>4, <1>5, <1>6 DEF Failures

LEMMA OthersKeepKeptInv ==
  ASSUME KeptInv, Writers \/ Client \/ UNCHANGED vars
  PROVE  KeptInv'
<1> USE DEF KeptInv, dirs, publisher, history
<1>1. CASE Writers
  BY <1>1 DEF Writers, AddItem, PurgeItem
<1>2. CASE Client
  BY <1>2 DEF Client, FetchManifest, FetchShard, ImportSpine
<1>3. CASE UNCHANGED vars
  BY <1>3 DEF vars
<1> QED
  BY <1>1, <1>2, <1>3

THEOREM KeptInvHolds == Spec => [](PublishInv /\ KeptInv)
<1>1. Init => KeptInv
  BY DEF Init, KeptInv
<1>2. ASSUME PublishInv, KeptInv, [Next]_vars
      PROVE  KeptInv'
  BY <1>2, PublishKeepsKeptInv, FailuresKeepKeptInv, OthersKeepKeptInv
     DEF Next
<1> QED
  BY <1>1, <1>2, PublishInvHolds, PTL DEF Spec

\* Once a map has been served one is served, save during the swap and after a
\* death in that window (export.py:606-620), for every value of the constants.
THEOREM AMapStaysServed == Spec => []StaysServed
<1>1. KeptInv => StaysServed
  BY DEF KeptInv, StaysServed
<1> QED
  BY <1>1, KeptInvHolds, PTL

\* Whatever the one fault of the host, a whole map is left in one of the three
\* directories (export.py:606-620), for every value of the constants.
THEOREM OneFaultLosesNoMap == Spec => []OneFaultIsRecoverable
<1>1. ASSUME PublishInv, KeptInv, released # {}, faults <= 1
      PROVE  \E map \in {published, previous, staging} :
               map # NoMap /\ map.files = map.manifest
  <2>1. CASE published # NoMap
    BY <1>1, <2>1 DEF PublishInv, DirsInv, Whole
  <2>2. CASE previous # NoMap
    BY <1>1, <2>2 DEF PublishInv, DirsInv, Whole
  <2>3. CASE phase \in {"cleared", "aside"}
    BY <1>1, <2>3 DEF PublishInv, TypeOK, StagedInv, Whole
  <2> QED
    BY <1>1, <2>1, <2>2, <2>3 DEF KeptInv
<1>2. PublishInv /\ KeptInv => OneFaultIsRecoverable
  BY <1>1 DEF OneFaultIsRecoverable
<1> QED
  BY <1>2, KeptInvHolds, PTL
-----------------------------------------------------------------------------
(* The promise to those who read the served directory.                      *)

(* The place of the served map and that of the previous one are free when   *)
(* the next rename needs them.                                              *)
SwapInv ==
  /\ phase = "cleared" => previous = NoMap
  /\ phase = "aside" => published = NoMap

LEMMA StepsKeepSwapInv ==
  ASSUME SwapInv, [Next]_vars
  PROVE  SwapInv'
<1> USE DEF SwapInv, dirs, publisher, client, history
<1>1. CASE Writers
  BY <1>1 DEF Writers, AddItem, PurgeItem
<1>2. CASE Publish
  BY <1>2 DEF Publish, StartPublish, ExportTable, WriteManifest, VerifyStaged,
     RemovePrevious, MoveAside, MoveIn, CleanUp
<1>3. CASE Failures
  BY <1>3 DEF Failures, ExportFails, SwapRaises, MoveInFails, Crash
<1>4. CASE Client
  BY <1>4 DEF Client, FetchManifest, FetchShard, ImportSpine
<1>5. CASE UNCHANGED vars
  BY <1>5 DEF vars
<1> QED
  BY <1>1, <1>2, <1>3, <1>4, <1>5 DEF Next

\* The publisher's steps are the promise's or stutter.
LEMMA PublishMaps ==
  ASSUME PublishInv, SwapInv, Publish
  PROVE  [Promise!Next]_Promise!maps
<1> USE DEF Promise!Next, Promise!maps, client, history
<1>1. CASE StartPublish
  BY <1>1 DEF StartPublish
<1>2. ASSUME NEW t \in Tables, ExportTable(t)
      PROVE  UNCHANGED Promise!maps
  BY <1>2 DEF ExportTable
<1>3. CASE WriteManifest
  BY <1>3 DEF WriteManifest
<1>4. CASE VerifyStaged
  BY <1>4 DEF VerifyStaged
<1>5. CASE RemovePrevious
  BY <1>5 DEF RemovePrevious
<1>6. CASE MoveAside
  <2>1. CASE published # NoMap
    BY <1>6, <2>1 DEF MoveAside, Promise!Withdraw
  <2>2. CASE published = NoMap
    BY <1>6, <2>2 DEF MoveAside, SwapInv
  <2> QED
    BY <2>1, <2>2
<1>7. CASE MoveIn
  <2>1. staging # NoMap /\ staging.files = staging.manifest
    BY <1>7 DEF MoveIn, PublishInv, StagedInv, TypeOK, Whole
  <2> QED
    BY <1>7, <2>1 DEF MoveIn, SwapInv, Promise!Release
<1>8. CASE CleanUp
  BY <1>8 DEF CleanUp
<1> QED
  BY <1>1, <1>2, <1>3, <1>4, <1>5, <1>6, <1>7, <1>8 DEF Publish

\* So are its failures: one in the swap puts the map back, a death there loses
\* it, and none other is seen.
LEMMA FailuresMap ==
  ASSUME SwapInv, Failures
  PROVE  [Promise!Next]_Promise!maps
<1> USE DEF Promise!Next, Promise!maps, dirs, client, history
<1>1. CASE ExportFails
  BY <1>1 DEF ExportFails
<1>2. CASE SwapRaises
  BY <1>2 DEF SwapRaises
<1>3. CASE MoveInFails
  BY <1>3 DEF MoveInFails, SwapInv, Promise!PutBack
<1>4. CASE Crash
  BY <1>4 DEF Crash, SwapInv, Promise!Lose
<1> QED
  BY <1>1, <1>2, <1>3, <1>4 DEF Failures

\* An import that changes anything adds the rows of a released map.
LEMMA OthersMap ==
  ASSUME PublishInv, CopyInv, Writers \/ Client \/ UNCHANGED vars
  PROVE  [Promise!Next]_Promise!maps
<1> USE DEF Promise!Next, Promise!maps, dirs, publisher, client, history
<1>1. CASE Writers
  BY <1>1 DEF Writers, AddItem, PurgeItem
<1>2. CASE Client
  <2>1. CASE FetchManifest
    BY <2>1 DEF FetchManifest
  <2>2. ASSUME NEW t \in Tables, FetchShard(t)
        PROVE  UNCHANGED Promise!maps
    BY <2>2 DEF FetchShard
  <2>3. CASE ImportSpine
    <3>1. CASE loaded' = loaded
      BY <2>3, <3>1 DEF ImportSpine
    <3>2. CASE loaded' # loaded
      <4>1. copy.files \in released
        BY <1>2, <3>2, ImportsReleased DEF Next
      <4> QED
        BY <2>3, <4>1 DEF ImportSpine, Promise!Import
    <3> QED
      BY <3>1, <3>2
  <2> QED
    BY <1>2, <2>1, <2>2, <2>3 DEF Client
<1>3. CASE UNCHANGED vars
  BY <1>3 DEF vars
<1> QED
  BY <1>1, <1>2, <1>3

\* Publishing and importing implement the promise, whatever kills the publisher
\* and however often: maps are served whole and untouched, and a client that
\* downloads into an empty directory takes in released maps only
\* (export.py:577-621 and 1523-1701), for every value of the constants.
THEOREM ImplementsServedMap ==
  ASSUME ~ReuseDir
  PROVE  Spec => KeepsPromise
<1>1. Init => CopyInv /\ SwapInv /\ Promise!Init
  BY DEF Init, CopyInv, NewMap, NoRows, SwapInv, Promise!Init
<1>2. ASSUME PublishInv, CopyInv, [Next]_vars
      PROVE  CopyInv'
  BY <1>2, ClientKeepsCopyInv, OthersKeepCopyInv DEF Next
<1>3. ASSUME PublishInv, CopyInv, SwapInv, [Next]_vars
      PROVE  [Promise!Next]_Promise!maps
  BY <1>3, PublishMaps, FailuresMap, OthersMap DEF Next
<1> QED
  BY <1>1, <1>2, <1>3, StepsKeepSwapInv, PublishInvHolds, PTL
     DEF Spec, KeepsPromise, Promise!Spec
=============================================================================
