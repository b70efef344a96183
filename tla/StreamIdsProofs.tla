-------------------------- MODULE StreamIdsProofs --------------------------
(***************************************************************************)
(* For bytes of any size: a frame that one side encodes the other decodes. *)
(* For every width of the identifier type: the search loop of AllocStream  *)
(* implements the one-step pool of identifiers, and what it hands out      *)
(* means the same stream on both sides.                                    *)
(***************************************************************************)
EXTENDS StreamIds, SequenceTheorems, TLAPS

Double == Base * Base

LEMMA DoubleType == Double \in Nat /\ Double > 0
BY BaseAssumption, SMT DEF Double

LEMMA Division ==
  ASSUME NEW b \in Nat, b > 0, NEW n \in Nat
  PROVE  n \div b \in Nat /\ (n % b) \in 0..b - 1 /\ n = b * (n \div b) + (n % b)
BY SMT

\* Quotient and remainder are the only numbers that are such.
LEMMA DivisionUnique ==
  ASSUME NEW b \in Nat, b > 0, NEW q \in Nat, NEW r \in 0..b - 1,
         NEW n \in Nat, n = b * q + r
  PROVE  n \div b = q /\ (n % b) = r
<1> DEFINE p == n \div b
           t == n % b
<1>1. p \in Nat /\ t \in 0..b - 1 /\ b * p + t = b * q + r
  BY Division
<1> HIDE DEF p, t
<1>2. b * (p - q) = r - t
  BY <1>1, SMT
<1>3. p - q < 1
  <2> SUFFICES ASSUME p - q >= 1 PROVE FALSE
    BY <1>1
  <2>1. b * (p - q) >= b
    BY <1>1, SMT
  <2> QED
    BY <1>1, <1>2, <2>1
<1>4. q - p < 1
  <2> SUFFICES ASSUME q - p >= 1 PROVE FALSE
    BY <1>1
  <2>1. b * (q - p) >= b
    BY <1>1, SMT
  <2> QED
    BY <1>1, <1>2, <2>1, SMT
<1>5. p = q
  BY <1>1, <1>3, <1>4
<1>6. t = r
  BY <1>1, <1>2, <1>5, SMT
<1> QED
  BY <1>5, <1>6 DEF p, t

\* Two bytes hold what is left of a number modulo the number of their values.
LEMMA TwoBytes ==
  ASSUME NEW n \in Nat
  PROVE  Hi(n) \in Byte /\ Lo(n) \in Byte /\ Num(Hi(n), Lo(n)) = (n % Double)
<1> DEFINE q == n \div Double
           m == n % Double
           a == m \div Base
           c == m % Base
<1>0. Base \in Nat /\ Base > 0 /\ Base * Base = Double
  BY BaseAssumption DEF Double
<1>1. q \in Nat /\ m \in 0..Double - 1 /\ n = Double * q + m
  BY DoubleType, Division
<1>2. a \in Nat /\ c \in 0..Base - 1 /\ m = Base * a + c
  BY <1>0, <1>1, DoubleType, Division
<1> HIDE DEF q, m, a, c
<1>3. a \in 0..Base - 1
  <2> SUFFICES ASSUME a >= Base PROVE FALSE
    BY <1>0, <1>2
  <2>1. Base * a >= Base * Base
    BY <1>0, <1>2, SMT
  <2>2. Base * a \in Nat /\ Double \in Nat
    BY <1>0, <1>2, DoubleType, SMT
  <2> QED
    BY <1>0, <1>1, <1>2, <2>1, <2>2
<1>4. Base * q + a \in Nat /\ n = Base * (Base * q + a) + c
  BY <1>0, <1>1, <1>2, SMT
<1>5. n \div Base = Base * q + a /\ (n % Base) = c
  BY <1>0, <1>2, <1>4, DivisionUnique
<1>6. ((n \div Base) % Base) = a
  <2> DEFINE s == Base * q + a
  <2>1. s \in Nat /\ s = Base * q + a /\ n \div Base = s
    BY <1>4, <1>5
  <2> HIDE DEF s
  <2>2. Base \in Nat /\ Base > 0 /\ q \in Nat /\ a \in 0..Base - 1
    BY <1>0, <1>1, <1>3
  <2>3. s \in Nat /\ s = Base * q + a
    BY <2>1
  <2>4. s \div Base = q /\ (s % Base) = a
    BY <2>2, <2>3, DivisionUnique
  <2> QED
    BY <2>1, <2>4
<1>7. a * Base + c = m
  BY <1>0, <1>2, SMT
<1> QED
  BY <1>2, <1>3, <1>5, <1>6, <1>7 DEF Hi, Lo, Num, Byte, m

\* Four bytes hold a number of four bytes.
LEMMA FourBytes ==
  ASSUME NEW n \in Nat, n < Double * Double
  PROVE  LET top == n \div Double
         IN  /\ {Hi(top), Lo(top), Hi(n), Lo(n)} \subseteq Byte
             /\ Num(Hi(top), Lo(top)) * Double + Num(Hi(n), Lo(n)) = n
<1> DEFINE top == n \div Double
           low == n % Double
<1>1. top \in Nat /\ low \in 0..Double - 1 /\ n = Double * top + low
  BY DoubleType, Division
<1>2. /\ {Hi(top), Lo(top), Hi(n), Lo(n)} \subseteq Byte
      /\ Num(Hi(top), Lo(top)) = (top % Double)
      /\ Num(Hi(n), Lo(n)) = low
  BY <1>1, TwoBytes
<1> HIDE DEF top, low
<1>3. top < Double
  <2> SUFFICES ASSUME top >= Double PROVE FALSE
    BY <1>1, DoubleType
  <2>1. Double * top >= Double * Double
    BY <1>1, DoubleType, SMT
  <2>2. Double * top \in Nat /\ Double * Double \in Nat
    BY <1>1, DoubleType, SMT
  <2> QED
    BY <1>1, <2>1, <2>2
<1>4. Double * 0 + top = top
  BY <1>1, DoubleType, SMT
<1>5. (top % Double) = top
  BY <1>1, <1>3, <1>4, DoubleType, DivisionUnique
<1>6. top * Double + low = n
  BY <1>1, DoubleType, SMT
<1> QED
  BY <1>2, <1>5, <1>6 DEF top

-----------------------------------------------------------------------------
\* The longest payload whose length four bytes can tell.
Fits(f) == Len(f.payload) < Double * Double

Header(f) ==
  LET len == Len(f.payload)
      top == len \div Double
  IN  <<f.type, f.flags, Hi(f.streamId), Lo(f.streamId), Hi(top), Lo(top), Hi(len), Lo(len)>>

\* What is where in a message.
LEMMA Layout ==
  ASSUME NEW f \in Frame, Fits(f)
  PROVE  /\ Encode(f) \in Seq(Byte)
         /\ Len(Encode(f)) = 8 + Len(f.payload)
         /\ \A i \in 1..8 : Encode(f)[i] = Header(f)[i]
         /\ \A i \in 1..Len(f.payload) : Encode(f)[8 + i] = f.payload[i]
<1> DEFINE p == f.payload
           h == Header(f)
<1>1. p \in Seq(Byte) /\ Len(p) \in Nat /\ f.streamId \in Nat /\ f.type \in Byte /\ f.flags \in Byte
  BY BaseAssumption, SMT DEF Frame
<1>2. h \in Seq(Byte) /\ Len(h) = 8
  <2>1. {Hi(f.streamId), Lo(f.streamId)} \subseteq Byte
    BY <1>1, TwoBytes
  <2>2. {Hi(Len(p) \div Double), Lo(Len(p) \div Double), Hi(Len(p)), Lo(Len(p))} \subseteq Byte
    BY <1>1, FourBytes DEF Fits
  <2> QED
    BY <1>1, <2>1, <2>2 DEF Header
<1>3. Encode(f) = h \o p
  BY DEF Encode, Header, Double
<1> HIDE DEF h, p
<1>4. /\ h \o p \in Seq(Byte) /\ Len(h \o p) = 8 + Len(p)
      /\ \A i \in 1..8 + Len(p) : (h \o p)[i] = IF i <= 8 THEN h[i] ELSE p[i - 8]
  <2>1. /\ h \o p \in Seq(Byte) /\ Len(h \o p) = Len(h) + Len(p)
        /\ \A i \in 1..Len(h) + Len(p) :
             (h \o p)[i] = IF i <= Len(h) THEN h[i] ELSE p[i - Len(h)]
    BY <1>1, <1>2, ConcatProperties, Zenon
  <2> QED
    BY <1>2, <2>1
<1>5. \A i \in 1..8 : (h \o p)[i] = h[i]
  BY <1>1, <1>4
<1>6. \A i \in 1..Len(p) : (h \o p)[8 + i] = p[i]
  BY <1>1, <1>4
<1> QED
  BY <1>3, <1>4, <1>5, <1>6 DEF h, p

LEMMA NumbersBack ==
  ASSUME NEW f \in Frame, Fits(f)
  PROVE  /\ Encode(f)[1] = f.type /\ Encode(f)[2] = f.flags
         /\ StreamId(Encode(f)) = f.streamId
         /\ PayloadLength(Encode(f)) = Len(f.payload)
<1>1. \A i \in 1..8 : Encode(f)[i] = Header(f)[i]
  BY Layout
<1>2. Len(f.payload) \in Nat /\ f.streamId \in 0..Double - 1
  BY DEF Frame, Double
<1>3. (f.streamId % Double) = f.streamId
  <2>1. Double * 0 + f.streamId = f.streamId /\ f.streamId \in Nat
    BY <1>2, DoubleType, SMT
  <2> QED
    BY <1>2, <2>1, DoubleType, DivisionUnique
<1>4. StreamId(Encode(f)) = f.streamId
  <2>1. Encode(f)[3] = Hi(f.streamId) /\ Encode(f)[4] = Lo(f.streamId)
    BY <1>1 DEF Header
  <2>2. f.streamId \in Nat
    BY <1>2, DoubleType
  <2>3. Num(Hi(f.streamId), Lo(f.streamId)) = f.streamId
    BY <1>3, <2>2, TwoBytes
  <2> QED
    BY <2>1, <2>3 DEF StreamId
<1>5. PayloadLength(Encode(f)) = Len(f.payload)
  BY <1>1, <1>2, FourBytes DEF PayloadLength, Header, Fits, Double
<1> QED
  BY <1>1, <1>4, <1>5 DEF Header

\* Whatever a frame holds, each side reads back what the other one wrote.
THEOREM RoundTrip ==
  ASSUME NEW f \in Frame, Fits(f)
  PROVE  /\ GoAccepts(Encode(f)) /\ GoDecode(Encode(f)) = f
         /\ TsAccepts(Encode(f)) /\ TsDecode(Encode(f)) = f
<1> DEFINE buf == Encode(f)
           n == Len(f.payload)
<1>1. n \in Nat /\ f.payload \in Seq(Byte)
  BY DEF Frame
<1>2. Len(buf) = 8 + n /\ \A i \in 1..n : buf[8 + i] = f.payload[i]
  BY Layout
<1>3. /\ buf[1] = f.type /\ buf[2] = f.flags
      /\ StreamId(buf) = f.streamId /\ PayloadLength(buf) = n
  BY NumbersBack
<1> HIDE DEF buf
<1>4. SubSeq(buf, 9, 8 + n) = f.payload
  <2>1. \A i \in 9..8 + n : buf[i] \in Byte
    <3> SUFFICES ASSUME NEW i \in 9..8 + n PROVE buf[i] \in Byte
      OBVIOUS
    <3>1. i - 8 \in 1..n /\ 8 + (i - 8) = i
      BY <1>1
    <3>2. f.payload[i - 8] \in Byte
      BY <1>1, <3>1, ElementOfSeq
    <3> QED
      BY <1>2, <3>1, <3>2
  <2>2. /\ SubSeq(buf, 9, 8 + n) \in Seq(Byte)
        /\ Len(SubSeq(buf, 9, 8 + n)) = n
        /\ \A i \in 1..n : SubSeq(buf, 9, 8 + n)[i] = buf[8 + i]
    BY <1>1, <2>1, SubSeqProperties
  <2> QED
    BY <1>1, <1>2, <2>2, SeqEqual
<1>5. Decoded(buf, 8 + n) = f
  BY <1>3, <1>4 DEF Decoded, HeaderLength, Frame
<1> QED
  BY <1>1, <1>2, <1>3, <1>5 DEF GoAccepts, GoDecode, TsAccepts, TsDecode, HeaderLength, buf

\* The gateway takes nothing that has lost its end.
THEOREM CutIsRefused ==
  ASSUME NEW f \in Frame, Fits(f), NEW n \in 0..Len(Encode(f)) - 1
  PROVE  ~GoAccepts(SubSeq(Encode(f), 1, n))
<1> DEFINE buf == Encode(f)
           cut == SubSeq(buf, 1, n)
<1>1. buf \in Seq(Byte) /\ Len(buf) = 8 + Len(f.payload) /\ Len(f.payload) \in Nat
  BY Layout DEF Frame
<1>2. PayloadLength(buf) = Len(f.payload) /\ n \in 0..Len(buf) - 1
  BY NumbersBack
<1> HIDE DEF buf
<1>3. Len(cut) = n /\ \A i \in 1..n : cut[i] = buf[i]
  <2>1. \A i \in 1..n : buf[i] \in Byte
    BY <1>1, <1>2, ElementOfSeq
  <2> QED
    BY <1>1, <1>2, <2>1, SubSeqProperties
<1> HIDE DEF cut
<1>4. CASE n < 8
  BY <1>1, <1>3, <1>4 DEF GoAccepts, HeaderLength, cut, buf
<1>5. CASE n >= 8
  <2>1. PayloadLength(cut) = Len(f.payload)
    BY <1>1, <1>2, <1>3, <1>5 DEF PayloadLength
  <2>2. ~GoAccepts(cut)
    BY <1>1, <1>3, <2>1 DEF GoAccepts, HeaderLength, buf
  <2> QED
    BY <2>2 DEF cut, buf
<1> QED
  BY <1>1, <1>4, <1>5

-----------------------------------------------------------------------------

LEMMA TwoIsAnId == 2 \in Ids
BY IdModAssumption DEF Ids, MaxId

LEMMA NormaliseType ==
  ASSUME NEW n \in Ids \cup {0}
  PROVE  Normalise(n) \in Ids
BY TwoIsAnId DEF Normalise

LEMMA PlusTwoType ==
  ASSUME NEW i \in Ids
  PROVE  PlusTwo(i) \in Ids \cup {0}
BY IdModAssumption DEF PlusTwo, Ids, MaxId

LEMMA CandidateIsNormalised ==
  ASSUME NEW n \in Ids \cup {0}
  PROVE  Candidate(n) = Normalise(n)
BY IdModAssumption DEF Candidate, Normalise, Ids, MaxId

\* Nothing lies behind the point a search starts from.
LEMMA NothingBehindStart ==
  ASSUME NEW s \in Ids, NEW j \in Ids
  PROVE  ~(Ahead(s, j) < Ahead(s, s))
BY IdModAssumption DEF Ahead, Ids, MaxId

\* After an identifier has been looked at, what lies behind the next one is
\* what lay behind it, and the identifier itself.
LEMMA StepAhead ==
  ASSUME NEW s \in Ids, NEW i \in Ids, NEW j \in Ids,
         Ahead(s, j) < Ahead(s, NextId(i))
  PROVE  j = i \/ Ahead(s, j) < Ahead(s, i)
BY IdModAssumption DEF NextId, Normalise, PlusTwo, Ahead, Ids, MaxId

\* The last identifier of a search is the one just before its start.
LEMMA LastAhead ==
  ASSUME NEW s \in Ids, NEW i \in Ids, NEW j \in Ids, PlusTwo(i) = s
  PROVE  j = i \/ Ahead(s, j) < Ahead(s, i)
BY IdModAssumption DEF PlusTwo, Ahead, Ids, MaxId

\* The variables keep their types, in particular nextID never leaves the even
\* numbers although it wraps around.
THEOREM TypeCorrect == Spec => []TypeOK
<1>1. Init => TypeOK
  BY TwoIsAnId DEF Init, TypeOK
<1>2. TypeOK /\ [Next]_vars => TypeOK'
  <2> SUFFICES ASSUME TypeOK, [Next]_vars PROVE TypeOK'
    OBVIOUS
  <2> USE DEF TypeOK
  <2>0. Candidate(nextID) \in Ids
    BY CandidateIsNormalised, NormaliseType
  <2>1. CASE Enter
    BY <2>1, NormaliseType DEF Enter
  <2>2. CASE ProbeFree
    BY <2>0, <2>2, PlusTwoType DEF ProbeFree
  <2>3. CASE ProbeTaken
    BY <2>0, <2>3, PlusTwoType DEF ProbeTaken
  <2>4. CASE Return
    BY <2>4 DEF Return
  <2>5. CASE Release
    BY <2>5 DEF Release
  <2>6. CASE UNCHANGED vars
    BY <2>6 DEF vars
  <2> QED
    BY <2>1, <2>2, <2>3, <2>4, <2>5, <2>6 DEF Next
<1> QED
  BY <1>1, <1>2, PTL DEF Spec

\* The loop has already seen, and found taken, every identifier between its
\* starting point and the one it looks at now: the loop invariant that makes
\* "nearest free" and "none free" true of its two ways out.
Scanned ==
  pc = "probe" =>
    \A j \in Ids : Ahead(start, j) < Ahead(start, Candidate(nextID)) => j \in used

\* The inductive invariant: besides the loop invariant, a refusal that has been
\* computed was computed on a full table.
IInv ==
  /\ TypeOK
  /\ Scanned
  /\ RefusedOnlyWhenFull
  /\ pc # "return" => reply = NoReply

LEMMA IInvInit == Init => IInv
BY TwoIsAnId DEF Init, IInv, TypeOK, Scanned, RefusedOnlyWhenFull, NoReply, Refused

LEMMA IInvStep == IInv /\ TypeOK' /\ [Next]_vars => IInv'
<1> SUFFICES ASSUME IInv, TypeOK', [Next]_vars PROVE IInv'
  OBVIOUS
<1> USE DEF IInv, NoReply, Refused
<1>0. Candidate(nextID) \in Ids /\ Candidate(nextID) = Normalise(nextID)
  BY CandidateIsNormalised, NormaliseType DEF TypeOK
<1>1. CASE Enter
  <2>1. Scanned'
    <3> SUFFICES ASSUME NEW j \in Ids,
                        Ahead(start', j) < Ahead(start', Candidate(nextID'))
                 PROVE  FALSE
      BY DEF Scanned
    <3>1. start' \in Ids /\ Candidate(nextID') = start'
      BY <1>1, CandidateIsNormalised DEF Enter, TypeOK, Normalise
    <3> QED
      BY <3>1, NothingBehindStart
  <2> QED
    BY <1>1, <2>1 DEF Enter, RefusedOnlyWhenFull
<1>2. CASE ProbeFree
  BY <1>0, <1>2 DEF ProbeFree, Scanned, RefusedOnlyWhenFull, Ids
<1>3. CASE ProbeTaken
  <2> DEFINE id == Candidate(nextID)
  <2>1. id \in used /\ nextID' = PlusTwo(id) /\ used' = used /\ start' = start
    BY <1>3 DEF ProbeTaken
  <2>2. \A j \in Ids : Ahead(start, j) < Ahead(start, id) => j \in used
    BY <1>3 DEF ProbeTaken, Scanned
  <2>3. CASE BackAtStart(nextID')
    <3>1. used = Ids
      BY <1>0, <2>1, <2>2, <2>3, LastAhead DEF BackAtStart, TypeOK
    <3> QED
      BY <1>3, <2>1, <2>3, <3>1 DEF ProbeTaken, Scanned, RefusedOnlyWhenFull
  <2>4. CASE ~BackAtStart(nextID')
    <3>1. Candidate(nextID') = NextId(id)
      BY <1>0, <2>1, PlusTwoType, CandidateIsNormalised DEF NextId
    <3>2. \A j \in Ids : Ahead(start, j) < Ahead(start, NextId(id)) => j \in used
      BY <1>0, <2>1, <2>2, StepAhead DEF TypeOK
    <3> QED
      BY <1>3, <2>1, <2>4, <3>1, <3>2 DEF ProbeTaken, Scanned, RefusedOnlyWhenFull
  <2> QED
    BY <2>3, <2>4
<1>4. CASE Return
  BY <1>4 DEF Return, Scanned, RefusedOnlyWhenFull
<1>5. CASE Release
  BY <1>5 DEF Release, Scanned, RefusedOnlyWhenFull
<1>6. CASE UNCHANGED vars
  BY <1>6 DEF vars, Scanned, RefusedOnlyWhenFull
<1> QED
  BY <1>1, <1>2, <1>3, <1>4, <1>5, <1>6 DEF Next

THEOREM Invariance == Spec => []IInv
<1>1. Spec => []TypeOK
  BY TypeCorrect
<1> QED
  BY <1>1, IInvInit, IInvStep, PTL DEF Spec

\* A request is refused a stream only when every identifier is taken.
THEOREM RefusalsAreJustified == Spec => []RefusedOnlyWhenFull
BY Invariance, PTL DEF IInv

\* An identifier handed out is read back by the other side, with every payload the
\* property names (RoundTrip says it of every payload).
THEOREM IdsSurvive == Spec => []IdSurvives
<1>1. TypeOK => IdSurvives
  <2> SUFFICES ASSUME TypeOK, reply \in Ids,
                      NEW data \in Payloads
               PROVE  ReadBack(DataFrame(reply, data), Encode(DataFrame(reply, data)))
    BY DEF IdSurvives
  <2> DEFINE frame == DataFrame(reply, data)
  <2>1. data \in Seq(Byte) /\ Len(data) \in 0..Base
    <3>1. 0 \in Byte /\ 1 \in Byte /\ Base \in Nat /\ Base >= 2
      BY BaseAssumption DEF Byte
    <3>2. CASE data = <<>>
      BY <3>1, <3>2
    <3>3. CASE data = <<1>>
      BY <3>1, <3>3
    <3>4. CASE data = [i \in 1..Base |-> 0]
      BY <3>1, <3>4
    <3> QED
      BY <3>2, <3>3, <3>4 DEF Payloads
  <2>2. frame \in Frame
    <3>1. 0 \in Byte /\ 1 \in Byte
      BY BaseAssumption DEF Byte
    <3>2. reply \in 0..Base * Base - 1
      BY IdModAssumption, WidthAssumption DEF Ids, MaxId
    <3> QED
      BY <2>1, <3>1, <3>2 DEF Frame, DataFrame
  <2>3. Fits(frame)
    <3>1. Base < Double
      BY BaseAssumption, SMT DEF Double
    <3>2. Double \in Nat /\ Double <= Double * Double /\ Double * Double \in Nat
      BY DoubleType, SMT
    <3> QED
      BY <2>1, <3>1, <3>2, BaseAssumption DEF Fits, DataFrame
  <2> HIDE DEF frame
  <2>4. /\ GoAccepts(Encode(frame)) /\ GoDecode(Encode(frame)) = frame
        /\ TsAccepts(Encode(frame)) /\ TsDecode(Encode(frame)) = frame
        /\ \A n \in 0..Len(Encode(frame)) - 1 : ~GoAccepts(SubSeq(Encode(frame), 1, n))
    BY <2>2, <2>3, RoundTrip, CutIsRefused
  <2> QED
    BY <2>4 DEF frame, ReadBack
<1> QED
  BY <1>1, TypeCorrect, PTL

\* Every search hands out the nearest free identifier or refuses on a full
\* table: the loop maps to the one-step pool, its other steps to stutters.
THEOREM LoopImplementsPool == Spec => ImplementsPool
<1> DEFINE mapped == IF pc = "probe" THEN start ELSE Normalise(nextID)
<1>1. Init => Pool!PoolInit
  BY DEF Init, Pool!PoolInit, Normalise, NoReply, Pool!NoReply
<1>2. IInv /\ IInv' /\ [Next]_vars => [Pool!PoolNext]_(Pool!poolVars)
  <2> SUFFICES ASSUME IInv, IInv', [Next]_vars
               PROVE  [Pool!PoolNext]_(Pool!poolVars)
    OBVIOUS
  <2> USE DEF IInv, NoReply, Refused, Pool!NoReply, Pool!Refused
  <2>0. Candidate(nextID) \in Ids
    BY CandidateIsNormalised, NormaliseType DEF TypeOK
  <2>1. CASE Enter
    BY <2>1 DEF Enter, Pool!poolVars, Normalise
  <2>2. CASE ProbeFree
    <3> DEFINE id == Candidate(nextID)
    <3>1. Pool!NearestFree(mapped, used, id)
      BY <2>0, <2>2 DEF ProbeFree, Scanned, Pool!NearestFree, Pool!Ids, Ids,
         MaxId, Pool!MaxId, Ahead, Pool!Ahead
    <3>2. mapped' = Pool!NextId(id)
      BY <2>2 DEF ProbeFree, Pool!NextId, Normalise, Pool!Normalise,
         PlusTwo, Pool!PlusTwo
    <3>3. id \in Pool!Ids
      BY <2>0 DEF Ids, Pool!Ids, MaxId, Pool!MaxId
    <3> QED
      BY <2>2, <3>1, <3>2, <3>3 DEF ProbeFree, Pool!Take, Pool!PoolNext
  <2>3. CASE ProbeTaken
    <3>1. CASE BackAtStart(nextID')
      <4>1. mapped' = mapped
        BY <2>3, <3>1, TwoIsAnId DEF ProbeTaken, BackAtStart, Normalise, TypeOK, Ids
      <4>2. used = Pool!Ids
        BY <2>3, <3>1 DEF ProbeTaken, RefusedOnlyWhenFull, Ids, Pool!Ids,
           MaxId, Pool!MaxId
      <4> QED
        BY <2>3, <3>1, <4>1, <4>2 DEF ProbeTaken, Pool!Refuse, Pool!PoolNext
    <3>2. CASE ~BackAtStart(nextID')
      BY <2>3, <3>2 DEF ProbeTaken, Pool!poolVars
    <3> QED
      BY <3>1, <3>2
  <2>4. CASE Return
    <3>1. CASE reply = NoReply
      BY <2>4, <3>1 DEF Return, Pool!poolVars
    <3>2. CASE reply # NoReply
      BY <2>4, <3>2 DEF Return, Pool!Collect, Pool!PoolNext
    <3> QED
      BY <3>1, <3>2
  <2>5. CASE Release
    BY <2>5 DEF Release, Pool!Give, Pool!PoolNext
  <2>6. CASE UNCHANGED vars
    BY <2>6 DEF vars, Pool!poolVars
  <2> QED
    BY <2>1, <2>2, <2>3, <2>4, <2>5, <2>6 DEF Next
<1> QED
  BY <1>1, <1>2, Invariance, PTL DEF Spec, ImplementsPool, Pool!PoolSpec

=============================================================================
