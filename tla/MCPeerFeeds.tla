---------------------------- MODULE MCPeerFeeds ----------------------------
(* Instances of PeerFeeds for TLC.                                          *)
EXTENDS PeerFeeds

CONSTANTS a, b, c, d, npm, pypi

MCPlace == [i \in Ids |-> CASE i = a -> 1 [] i = b -> 2 [] i = c -> 3 [] i = d -> 4]
MCEcoOf == [i \in Ids |-> IF i = b THEN pypi ELSE npm]
MCListed == [e \in Ecosystems |-> IF e = npm THEN 1 ELSE 2]

\* a is published from the start; the others may be.
MCInit == Init /\ a \in early
MCSpec == MCInit /\ [][Next]_vars
=============================================================================
