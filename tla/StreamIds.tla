----------------------------- MODULE StreamIds -----------------------------
(***************************************************************************)
(* The search loop of AllocStream, one iteration per step                  *)
(* (gateway/internal/edge/multiplex.go, lines 13-49), and the removal of   *)
(* an identifier by ReleaseStream.  The loop runs with streamsMu held, so  *)
(* no other operation on the table happens while it searches.  The         *)
(* identifier found goes to the CLI, and comes back, in frames.            *)
(***************************************************************************)
EXTENDS StreamIdSpace, FrameCodec

\* A stream identifier is two bytes.
ASSUME WidthAssumption == IdMod = Base * Base

NoReply == 0
Refused == 1

VARIABLES
  nextID,     \* t.nextID
  used,       \* DOMAIN of t.streams
  pc,         \* "idle", "probe" inside the loop, "return" after it
  start,      \* the local variable start
  reply       \* what AllocStream returns: an identifier or Refused

vars == <<nextID, used, pc, start, reply>>

TypeOK ==
  /\ nextID \in Ids \cup {0}
  /\ used \subseteq Ids
  /\ pc \in {"idle", "probe", "return"}
  /\ start \in Ids
  /\ reply \in Ids \cup {NoReply, Refused}

\* HandleTunnelUpgrade creates the tunnel with nextID = 2.
Init ==
  /\ nextID = 2
  /\ used = {}
  /\ pc = "idle"
  /\ start = 2
  /\ reply = NoReply

Enter ==
  /\ pc = "idle"
  /\ nextID' = Normalise(nextID)
  /\ start' = Normalise(nextID)
  /\ pc' = "probe"
  /\ UNCHANGED <<used, reply>>

\* A slip of the test below: held at the end of the range instead of wrapped.
CandidateClamped(n) == IF n = 0 THEN MaxId ELSE n

\* The identifier an iteration looks at: made even, and brought back into range.
Candidate(n) ==
  LET even == IF n % 2 # 0 THEN n + 1 ELSE n
  IN  IF even = 0 \/ even > MaxId THEN 2 ELSE even

\* A slip of the branch below: the next search starts at the identifier just taken.
ProbeFreeNoAdvance ==
  /\ pc = "probe"
  /\ Candidate(nextID) \notin used
  /\ used' = used \cup {Candidate(nextID)}
  /\ reply' = Candidate(nextID)
  /\ pc' = "return"
  /\ UNCHANGED <<nextID, start>>

ProbeFree ==
  /\ pc = "probe"
  /\ Candidate(nextID) \notin used
  /\ used' = used \cup {Candidate(nextID)}
  /\ nextID' = PlusTwo(Candidate(nextID))
  /\ reply' = Candidate(nextID)
  /\ pc' = "return"
  /\ UNCHANGED start

\* A slip of the test below: it looks one identifier too far.
BackAtStartEarly(n) == NextId(n) = start

\* The test that ends a search of a full table.
BackAtStart(n) == n = start

ProbeTaken ==
  /\ pc = "probe"
  /\ Candidate(nextID) \in used
  /\ nextID' = PlusTwo(Candidate(nextID))
  /\ IF BackAtStart(nextID')
       THEN pc' = "return" /\ reply' = Refused
       ELSE pc' = "probe"  /\ reply' = reply
  /\ UNCHANGED <<used, start>>

Return ==
  /\ pc = "return"
  /\ pc' = "idle"
  /\ reply' = NoReply
  /\ UNCHANGED <<nextID, used, start>>

Release ==
  /\ pc = "idle"
  /\ \E i \in used : used' = used \ {i}
  /\ UNCHANGED <<nextID, pc, start, reply>>

Next == Enter \/ ProbeFree \/ ProbeTaken \/ Return \/ Release

\* The loop never blocks: a goroutine that may run keeps iterating.
Fairness == WF_vars(ProbeFree \/ ProbeTaken) /\ WF_vars(Return)

Spec == Init /\ [][Next]_vars

FairSpec == Spec /\ Fairness

-----------------------------------------------------------------------------
\* A caller is refused only when every identifier has an open stream; a search
\* that stops one identifier early would refuse a request it could serve.
RefusedOnlyWhenFull == (reply = Refused) => (used = Ids)

(* Every call of AllocStream returns, however full the table is, unless a full
   table is searched from the first identifier on.  (That search has no end:
   nextID wraps from the last identifier to 0, which is not the start it is
   compared with, and the lock is never given back.) *)
SearchEnds == (pc = "probe" /\ ~(start = 2 /\ used = Ids)) ~> (pc = "return")

\* Both ends read the frame back as it was written, the gateway no cut of it.
ReadBack(frame, buf) ==
  /\ GoAccepts(buf) /\ GoDecode(buf) = frame
  /\ TsAccepts(buf) /\ TsDecode(buf) = frame
  /\ \A n \in 0..Len(buf) - 1 : ~GoAccepts(SubSeq(buf, 1, n))

Payloads == {<<>>, <<1>>, [i \in 1..Base |-> 0]}

DataFrame(i, data) == [type |-> 1, flags |-> 0, streamId |-> i, payload |-> data]

(* An identifier handed out means the same stream on both sides: with any payload
   the CLI reads back the frame the gateway wrote, and the gateway the CLI's; of a
   message that has lost its end the gateway takes nothing. *)
IdSurvives ==
  reply \in Ids =>
    \A data \in Payloads :
      ReadBack(DataFrame(reply, data), Encode(DataFrame(reply, data)))

\* The loop implements the one-step pool: each call hands out the nearest free
\* identifier or refuses when none is free, whatever iterations it took.
Pool == INSTANCE StreamIdPool
          WITH next <- IF pc = "probe" THEN start ELSE Normalise(nextID)

ImplementsPool == Pool!PoolSpec

=============================================================================
