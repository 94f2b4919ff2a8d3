------------------------------ MODULE ServedMap ------------------------------
(***************************************************************************)
(* What publishing the map promises those who read it, whatever the        *)
(* exporter does in between:                                               *)
(*   - Withdraw: the served map is taken away as it is and kept aside;     *)
(*   - Release: where none is served, a whole map is, at once;             *)
(*   - PutBack: the map kept aside is served again, as it was;             *)
(*   - Lose: the publisher dies with nothing served;                       *)
(*   - Import: the rows of one released map are added to a client's.       *)
(* A served map is never touched, so its readers see all of it or none.    *)
(* SpinePublish is shown to implement it.                                  *)
(***************************************************************************)
EXTENDS Naturals

CONSTANTS Tables, NoMap

VARIABLES
  served,   \* the map that is served, its files and its manifest, or NoMap
  aside,    \* the map it is to replace, or NoMap
  released, \* the rows of every map released so far
  lost,     \* how often the publisher died with nothing served
  loaded    \* the client's rows, [Tables -> set of items]

maps == <<served, aside, released, lost, loaded>>

Init ==
  /\ served = NoMap
  /\ aside = NoMap
  /\ released = {}
  /\ lost = 0
  /\ loaded = [t \in Tables |-> {}]

Withdraw ==
  /\ served # NoMap
  /\ aside' = served
  /\ served' = NoMap
  /\ UNCHANGED <<released, lost, loaded>>

Release ==
  /\ served = NoMap
  /\ served' # NoMap
  /\ served'.files = served'.manifest
  /\ released' = released \cup {served'.manifest}
  /\ aside' = NoMap
  /\ UNCHANGED <<lost, loaded>>

PutBack ==
  /\ aside # NoMap
  /\ served' = aside
  /\ aside' = NoMap
  /\ UNCHANGED <<released, lost, loaded>>

Lose ==
  /\ served = NoMap
  /\ aside' = NoMap
  /\ lost' = lost + 1
  /\ UNCHANGED <<served, released, loaded>>

Import ==
  /\ \E rows \in released :
       loaded' = [t \in Tables |-> loaded[t] \cup rows[t]]
  /\ UNCHANGED <<served, aside, released, lost>>

Next == Withdraw \/ Release \/ PutBack \/ Lose \/ Import

Spec == Init /\ [][Next]_maps
=============================================================================
