---------------------------- MODULE MCMultiplex ----------------------------
EXTENDS Multiplex

\* Requests are interchangeable: of two behaviours that differ in which of them
\* comes first, one is enough.
InTurn == \A q, r \in Requests : q < r /\ pc[q] = "idle" => pc[r] = "idle"

=============================================================================
