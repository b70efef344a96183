------------------------- MODULE MCGatewaySessions -------------------------
EXTENDS GatewaySessions, TLC

\* Slugs in lower case but for "A".
Lower == [s \in Slugs |-> IF s = "A" THEN "a" ELSE s]

Symmetric == Permutations(Tunnels)

=============================================================================
