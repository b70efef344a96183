--------------------------- MODULE StreamIdSpace ---------------------------
(***************************************************************************)
(* The stream identifiers of one tunnel and their cyclic order             *)
(* (gateway/internal/edge/multiplex.go).  A stream identifier is a uint16; *)
(* the gateway hands out the even ones, 2 .. 0xFFFE, in increasing order   *)
(* and starts again at 2.                                                  *)
(***************************************************************************)
EXTENDS Integers

CONSTANT IdMod   \* number of values of the identifier type: 65536 for uint16

ASSUME IdModAssumption == IdMod \in Nat /\ IdMod >= 4 /\ IdMod % 2 = 0

MaxId == IdMod - 2

Ids == {i \in 2..MaxId : i % 2 = 0}

\* A slip of the increment: without the width of the type.
PlusTwoUnbounded(i) == i + 2

\* Addition of two to an identifier, in the width of the type.
PlusTwo(i) == IF i + 2 >= IdMod THEN i + 2 - IdMod ELSE i + 2

\* The zero value of nextID stands for the first identifier.
Normalise(n) == IF n = 0 THEN 2 ELSE n

\* The identifier the search tries after i.
NextId(i) == Normalise(PlusTwo(i))

\* How far i lies ahead of n when the identifiers are visited in order.
Ahead(n, i) == IF i >= n THEN i - n ELSE i - n + MaxId

\* i is the first identifier, from n on, that is not in the set u.
NearestFree(n, u, i) ==
  /\ i \in Ids \ u
  /\ \A j \in Ids : Ahead(n, j) < Ahead(n, i) => j \in u

=============================================================================
