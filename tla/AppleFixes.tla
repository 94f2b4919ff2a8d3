----------------------------- MODULE AppleFixes -----------------------------
(***************************************************************************)
(* The fix map of Apple's advisories: which version of a product fixed a   *)
(* CVE.  posture/sources/apple_ingest.py over the map builders of          *)
(* posture/sources/apple_advisory.py, and the observer's decision.         *)
(*                                                                         *)
(* Apple's index lists the recent advisories; the Wayback Machine's copies *)
(* of the older indexes name the others, whatever product they are for.    *)
(* An advisory page may fail to load, which only leaves it out.            *)
(***************************************************************************)
EXTENDS Naturals, FiniteSets

CONSTANTS
  Cves, Products,
  Advisories,
  Product,    \* [Advisories -> Products], by the page's title
  Branch,     \* [Advisories -> Nat], the major version it fixes
  Version,    \* [Advisories -> Nat], the full version, ordered
  Fixes,      \* [Advisories -> SUBSET Cves]
  Old,        \* the advisories only the archived indexes name
  NoAdvisory, NoProduct

ASSUME AppleAssumption ==
  /\ IsFiniteSet(Advisories)
  /\ Product \in [Advisories -> Products]
  /\ Branch \in [Advisories -> Nat]
  /\ Version \in [Advisories -> Nat]
  /\ Fixes \in [Advisories -> SUBSET Cves]
  /\ Old \subseteq Advisories
  /\ \A a, b \in Advisories :
       Product[a] = Product[b] /\ Version[a] = Version[b] => a = b
  /\ NoAdvisory \notin Advisories
  /\ NoProduct \notin Products

VARIABLES
  apple,     \* apple_fixes: the advisory recorded for a product and a CVE
  replaced,  \* the command's open transaction: [Products -> Written]
  product,   \* tick: the product it builds a map for, or NoProduct
  history,   \* tick: the older advisories are wanted as well
  todo,      \* tick: advisories of this pass it has yet to read
  fixed,     \* tick: the map so far, [Cves -> Advisories or NoAdvisory]
  read,      \* history: the product's advisories the tick has read
  basis      \* history: [Products -> the advisories its map was built from]

appleTick == <<product, history, todo, fixed, read>>
appleVars == <<apple, replaced, appleTick, basis>>

Maps == [Cves -> Advisories \cup {NoAdvisory}]
Blank == [c \in Cves |-> NoAdvisory]

\* What the transaction holds of a product.
Written == [map : Maps, basis : SUBSET Advisories] \cup {NoProduct}
NothingWritten == [p \in Products |-> NoProduct]

\* parse_index: the rows of the live index that are the product's.
Indexed(p) == {a \in Advisories \ Old : Product[a] = p}

AppleStart(p, past) ==
  /\ product = NoProduct
  /\ product' = p
  /\ history' = past
  /\ todo' = Indexed(p)
  /\ fixed' = Blank
  /\ read' = {}
  /\ UNCHANGED <<apple, replaced, basis>>

\* The index pass reads the oldest version first.
NextRow(a) ==
  /\ a \in todo \ Old
  /\ \A b \in todo \ Old : Version[a] <= Version[b]

Reads(a) ==
  /\ todo' = todo \ {a}
  /\ read' = IF Product[a] = product THEN read \cup {a} ELSE read
  /\ UNCHANGED <<apple, replaced, product, history, basis>>

\* Mutant: the last sighting wins.
LastSightingWins(a) ==
  /\ NextRow(a)
  /\ fixed' = [c \in Cves |-> IF c \in Fixes[a] THEN a ELSE fixed[c]]
  /\ Reads(a)

\* build_fix_map: the first sighting of a CVE is kept.
ReadIndexed(a) ==
  /\ NextRow(a)
  /\ fixed' = [c \in Cves |->
                 IF c \in Fixes[a] /\ fixed[c] = NoAdvisory
                 THEN a ELSE fixed[c]]
  /\ Reads(a)

\* The page does not load: the advisory is left out.
PageFails(a) ==
  /\ a \in todo
  /\ todo' = todo \ {a}
  /\ UNCHANGED <<apple, replaced, product, history, fixed, read, basis>>

\* The index pass is over; what the archived indexes name is read as well,
\* for whichever product it turns out to be.
AppleHistory ==
  /\ product # NoProduct
  /\ history
  /\ todo = {}
  /\ todo' = Old
  /\ history' = FALSE
  /\ UNCHANGED <<apple, replaced, product, fixed, read, basis>>

\* The archived indexes do not load, or name none.
HistoryFails ==
  /\ product # NoProduct
  /\ history
  /\ todo = {}
  /\ history' = FALSE
  /\ UNCHANGED <<apple, replaced, product, todo, fixed, read, basis>>

\* backfill_fix_map: an earlier version replaces the recorded one; an
\* advisory of another product is skipped.
ReadOld(a) ==
  /\ a \in todo \cap Old
  /\ fixed' = [c \in Cves |->
                 IF /\ Product[a] = product
                    /\ c \in Fixes[a]
                    /\ fixed[c] = NoAdvisory \/ Version[a] < Version[fixed[c]]
                 THEN a ELSE fixed[c]]
  /\ Reads(a)

\* replace_apple_fixes: the product's rows are deleted, the map inserted, and
\* the command goes on with its next product.
AppleReplace ==
  /\ product # NoProduct
  /\ todo = {} /\ ~history
  /\ replaced' = [replaced EXCEPT ![product] =
                    [map |-> fixed, basis |-> read]]
  /\ product' = NoProduct
  /\ fixed' = Blank
  /\ read' = {}
  /\ UNCHANGED <<apple, history, todo, basis>>

\* The one commit of _cmd_ingest_apple.
AppleCommit ==
  /\ product = NoProduct
  /\ replaced # NothingWritten
  /\ apple' = [p \in Products |-> IF replaced[p] = NoProduct
                                  THEN apple[p] ELSE replaced[p].map]
  /\ basis' = [p \in Products |-> IF replaced[p] = NoProduct
                                  THEN basis[p] ELSE replaced[p].basis]
  /\ replaced' = NothingWritten
  /\ UNCHANGED appleTick

\* The command dies: every product of its transaction is rolled back.
AppleDies ==
  /\ product # NoProduct
  /\ product' = NoProduct
  /\ history' = FALSE
  /\ todo' = {}
  /\ fixed' = Blank
  /\ read' = {}
  /\ replaced' = NothingWritten
  /\ UNCHANGED <<apple, basis>>

-----------------------------------------------------------------------------

AppleInit ==
  /\ apple = [p \in Products |-> Blank]
  /\ replaced = NothingWritten
  /\ product = NoProduct
  /\ history = FALSE
  /\ todo = {}
  /\ fixed = Blank
  /\ read = {}
  /\ basis = [p \in Products |-> {}]

AppleNext ==
  \/ \E p \in Products, past \in BOOLEAN : AppleStart(p, past)
  \/ \E a \in Advisories : ReadIndexed(a) \/ ReadOld(a) \/ PageFails(a)
  \/ AppleHistory
  \/ HistoryFails
  \/ AppleReplace
  \/ AppleCommit
  \/ AppleDies

-----------------------------------------------------------------------------
(* The observer's decision.                                                *)

\* _decide: nothing to say without a recorded fix; else the device is patched
\* if its version is at or above the fix.
AppleDecide(p, c, version) ==
  CASE apple[p][c] = NoAdvisory -> "silent"
    [] apple[p][c] # NoAdvisory /\ version >= Version[apple[p][c]] -> "patched"
    [] OTHER -> "unpatched"

\* What Apple itself says: the release of an advisory holds its fixes, and so
\* does every later one of its branch, and of a branch begun after the fix
\* was in the newest branch of all.
Holds(p, c, branch, version) ==
  \E a \in Advisories :
    /\ Product[a] = p /\ c \in Fixes[a] /\ version >= Version[a]
    /\ \/ branch = Branch[a]
       \/ \A b \in Advisories :
            Product[b] = p /\ c \in Fixes[b] => Branch[b] <= Branch[a]

-----------------------------------------------------------------------------
(* Properties.                                                             *)

\* Types; without a tick there is no map in the making
\* (apple_ingest.py:81-147).
AppleTypeOK ==
  /\ apple \in [Products -> Maps]
  /\ replaced \in [Products -> Written]
  /\ product \in Products \cup {NoProduct}
  /\ history \in BOOLEAN
  /\ todo \subseteq Advisories
  /\ fixed \in Maps
  /\ read \subseteq Advisories
  /\ basis \in [Products -> SUBSET Advisories]
  /\ product = NoProduct => todo = {} /\ fixed = Blank /\ read = {}

\* Two passes in two different orders and with two merge rules agree on one
\* answer, whatever failed to load in either: the recorded fix is an advisory
\* of the product itself that lists the CVE (apple_advisory.py:426-428, "one
\* product's backfill never contaminates the other's"), and of those that
\* loaded it is the one of the earliest version (apple_advisory.py:417-421).
EarliestFixWins ==
  \A p \in Products, c \in Cves :
    /\ apple[p][c] # NoAdvisory
         => Product[apple[p][c]] = p /\ c \in Fixes[apple[p][c]]
    /\ \A a \in basis[p] :
         c \in Fixes[a]
           => apple[p][c] # NoAdvisory /\ Version[apple[p][c]] <= Version[a]

(* What the documentation says and the code does not do.                   *)

\* apple_advisory.py:605-606: where Apple covers a CVE the status is
\* authoritative: a device called patched has the fix.
PatchedIsPatched ==
  \A a \in Advisories : \A c \in Cves :
    AppleDecide(Product[a], c, Version[a]) = "patched"
      => Holds(Product[a], c, Branch[a], Version[a])
=============================================================================
