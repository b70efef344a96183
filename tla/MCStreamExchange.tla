-------------------------- MODULE MCStreamExchange --------------------------
EXTENDS StreamExchange, TLC

\* A frame of a response is named by its request and its place in it: the HEAD
\* is 0, the chunks follow, and one more is the end.
ExBodies == Requests \X (0..2)

\* The body of NoFrame, the one choice from ExBodies, is never looked at: a first
\* frame is read before anything is done with rframe.
Symmetric == Permutations(Requests)

=============================================================================
