-------------------------- MODULE MCTunnelSockets --------------------------
EXTENDS TunnelSockets, TLC

Symmetric == Permutations(Requests)

\* A request whose answer nobody takes any more, and whose call has begun or never will.
Settled(r) ==
  /\ pc[r] = "done"
  /\ \/ call[r] # "none"
     \/ /\ \A i \in Ids : pending[i] = None \/ pending[i].meta # r
        /\ \A s \in Conns : \A k \in 1..Len(toCli[s]) : toCli[s][k].type # "open"

\* When all of them are settled, nothing that can still happen changes what the
\* invariants read.
Unsettled == \E r \in Requests : ~Settled(r)

\* Identifiers are interchangeable here: the first to be drawn may as well be 2.
TwoFirst == \E r \in Requests : sid[r] = 2 \/ \A q \in Requests : sid[q] = 0

=============================================================================
