-------------------------- MODULE MCUbuntuIngest --------------------------
(* Instances of UbuntuIngest for TLC: a package with a feed of up to three *)
(* CVEs and one with two, fetched in this order.                            *)
EXTENDS UbuntuIngest

CONSTANTS linux, nvidia, c1, c2, c3

MCTurn == [p \in Packages |-> CASE p = linux -> 1 [] p = nvidia -> 2]
MCNewer == [c \in Cves |-> CASE c = c1 -> 1 [] c = c2 -> 2 [] c = c3 -> 3]
MCAffects == [p \in Packages |-> CASE p = linux -> Cves [] p = nvidia -> {c1, c2}]
=============================================================================
