---------------------------- MODULE StreamIdPool ----------------------------
(***************************************************************************)
(* What AllocStream and ReleaseStream promise, each in one step: a caller  *)
(* is given the nearest free identifier, or is refused when none is free,  *)
(* or is never answered at all.                                            *)
(***************************************************************************)
EXTENDS StreamIdSpace

NoReply == 0
Refused == 1      \* an odd number: never an identifier

VARIABLES
  next,           \* the identifier the next search starts from
  used,           \* the identifiers with an open stream
  reply           \* NoReply, Refused, or the identifier just handed out

poolVars == <<next, used, reply>>

PoolInit == next = 2 /\ used = {} /\ reply = NoReply

Take ==
  /\ reply = NoReply
  /\ \E i \in Ids : /\ NearestFree(next, used, i)
                    /\ used' = used \cup {i}
                    /\ next' = NextId(i)
                    /\ reply' = i

\* Refusals are only given when nothing is free.
Refuse ==
  /\ reply = NoReply
  /\ used = Ids
  /\ reply' = Refused
  /\ UNCHANGED <<next, used>>

Collect == reply # NoReply /\ reply' = NoReply /\ UNCHANGED <<next, used>>

Give ==
  /\ reply = NoReply
  /\ \E i \in used : used' = used \ {i}
  /\ UNCHANGED <<next, reply>>

PoolNext == Take \/ Refuse \/ Collect \/ Give

PoolSpec == PoolInit /\ [][PoolNext]_poolVars

=============================================================================
