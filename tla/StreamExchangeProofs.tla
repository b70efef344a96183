------------------------- MODULE StreamExchangeProofs -------------------------
(***************************************************************************)
(* For any number of requests, identifiers and chunks, and every capacity  *)
(* of the response channels.  First the gateway's end with any behaviour   *)
(* of the other: the types, the discipline by which streams are opened and *)
(* closed, and what a request is given of the frames that come in.         *)
(*                                                                         *)
(* Then what the gateway and the CLI make of each other's frames.  The way *)
(* there (UploadInv): the frames of a request are in the tunnel in the     *)
(* order they were sent, and pendingStreams holds what has been sent       *)
(* before them.  The way back (Answering, Clean, NoGap): the frames of a   *)
(* response come in order, and a request that took over its identifier     *)
(* cleanly gets every one of its own and no other.                         *)
(***************************************************************************)
EXTENDS StreamExchange, SequenceTheorems, TLAPS

-----------------------------------------------------------------------------
\* The gateway's end.

\* A step of the gateway or of the other end, whichever frames are in flight.
Step == GwNext \/ (crash = "none" /\ Peer)

LEMMA NextIsStep == [Next]_vars => [Step]_vars
BY DEF Next, Step

LEMMA NextIdType ==
  ASSUME NEW i \in Ids
  PROVE  NextId(i) \in Ids
BY IdModAssumption DEF NextId, Normalise, PlusTwo, Ids, MaxId

LEMMA IdsAreNumbers ==
  ASSUME NEW i \in Ids
  PROVE  i \in Nat /\ i # 0
BY IdModAssumption DEF Ids, MaxId

LEMMA HeadTailType ==
  ASSUME NEW S, NEW q \in Seq(S), q # <<>>
  PROVE  Head(q) \in S /\ Tail(q) \in Seq(S) /\ Len(Tail(q)) = Len(q) - 1
OBVIOUS

LEMMA AppendType ==
  ASSUME NEW S, NEW q \in Seq(S), NEW e \in S
  PROVE  Append(q, e) \in Seq(S) /\ Len(Append(q, e)) = Len(q) + 1
OBVIOUS

\* What the gateway writes is one of its frames.
LEMMA GwFrameType ==
  ASSUME sid \in [Requests -> Ids \cup {0}],
         NEW t \in FrameTypes, NEW r \in Requests, NEW n \in Nat
  PROVE  GwFrame(t, sid[r], r, n) \in GwFrames
<1>1. sid[r] \in Nat
  BY IdsAreNumbers
<1>2. <<r, n>> \in Requests \X Nat
  OBVIOUS
<1> QED
  BY <1>1, <1>2 DEF GwFrame, GwFrames

LEMMA WriteType ==
  ASSUME WireType, NEW f \in GwFrames, Write(f)
  PROVE  WireType'
BY AppendType DEF WireType, Write

LEMMA InitTypeOK == Init => TypeOK
<1> SUFFICES ASSUME Init PROVE TypeOK
  OBVIOUS
<1> USE DEF Init, GwInit
<1>1. TableType
  BY ConstantsAssumption DEF TableType
<1>2. ChanType
  BY ConstantsAssumption DEF ChanType
<1>3. ReqType
  BY ConstantsAssumption DEF ReqType, Live
<1>4. ReadType
  BY ConstantsAssumption DEF ReadType, NoFrame, PeerFrame, PeerFrames, FrameTypes
<1>5. CloseType
  BY DEF CloseType
<1>6. WireType
  BY ConstantsAssumption DEF WireType
<1> QED
  BY <1>1, <1>2, <1>3, <1>4, <1>5, <1>6 DEF TypeOK

LEMMA TableStep == TypeOK /\ [Step]_vars => TableType'
<1> SUFFICES ASSUME TypeOK, [Step]_vars PROVE TableType'
  OBVIOUS
<1> USE DEF TypeOK, TableType, tableVars
<1>0. CASE UNCHANGED tableVars
  BY <1>0
<1>1. ASSUME NEW r \in Requests, AllocStream(r) PROVE TableType'
  BY <1>1, NextIdType DEF AllocStream
<1>2. ASSUME NEW r \in Requests, ReleaseEntry(r) PROVE TableType'
  BY <1>2 DEF ReleaseEntry
<1>3. CASE TakeAllStreams
  BY <1>3 DEF TakeAllStreams
<1> QED
  BY <1>0, <1>1, <1>2, <1>3
  DEF Step, GwNext, Arrival, Proxy, Reader, Closer, Peer, AllocStream, AllocFull,
     SendOpen, SendData, BodyFails, SendEnd, Receive, ReceiveClosed,
     Timeout, ReleaseEntry, ReleaseDone, ReleaseResp, ReadFrame, ReadError, GetStream,
     SelectDone, SelectSend, SelectPanic, SelectPark, ReaderCloses, ReaderGone,
     BeginClose, TakeAllStreams, CloseOneDone, CloseOneResp, CloseSocket,
     CloseFinished, LinkDown, PeerSend, PeerReceive, vars, gwVars, tableVars,
     chanVars, reqVars, readVars, closeVars, connVars, wireVars

LEMMA ChanStep == TypeOK /\ [Step]_vars => ChanType'
<1> SUFFICES ASSUME TypeOK, [Step]_vars PROVE ChanType'
  OBVIOUS
<1> USE DEF TypeOK, ChanType, chanVars
<1>0. CASE UNCHANGED chanVars
  BY <1>0
<1>1. ASSUME NEW r \in Requests, Receive(r) PROVE ChanType'
  <2> DEFINE handOver == rpc = "parked" /\ rstream = r
  <2>1. /\ Tail(queue[r]) \in Seq(PeerFrames)
        /\ Len(Tail(queue[r])) = Len(queue[r]) - 1
    BY <1>1, HeadTailType DEF Receive
  <2>2. /\ Append(Tail(queue[r]), rframe) \in Seq(PeerFrames)
        /\ Len(Append(Tail(queue[r]), rframe)) = Len(queue[r])
    BY <2>1, AppendType DEF ReadType
  <2>3. doneClosed' = doneClosed /\ respClosed' = respClosed
    BY <1>1 DEF Receive
  <2>4. queue' = [queue EXCEPT ![r] = IF handOver THEN Append(Tail(queue[r]), rframe)
                                               ELSE Tail(queue[r])]
    BY <1>1 DEF Receive
  <2>5. Len(queue[r]) \in Nat /\ QCap \in Nat
    BY ConstantsAssumption
  <2> QED
    BY <2>1, <2>2, <2>3, <2>4, <2>5
<1>2. ASSUME NEW r \in Requests, ReleaseDone(r) PROVE ChanType'
  BY <1>2 DEF ReleaseDone, CloseDone, ReqType
<1>3. ASSUME NEW r \in Requests, ReleaseResp(r) PROVE ChanType'
  BY <1>3 DEF ReleaseResp, CloseResp, ReqType
<1>4. CASE SelectSend
  <2>1. rstream \in Requests /\ Len(queue[rstream]) \in Nat /\ QCap \in Nat
    BY <1>4, ConstantsAssumption DEF SelectSend, ReadType
  <2>2. /\ Append(queue[rstream], rframe) \in Seq(PeerFrames)
        /\ Len(Append(queue[rstream], rframe)) = Len(queue[rstream]) + 1
    BY <2>1, AppendType DEF ReadType
  <2>3. /\ queue' = [queue EXCEPT ![rstream] = Append(queue[rstream], rframe)]
        /\ doneClosed' = doneClosed /\ respClosed' = respClosed
        /\ Len(queue[rstream]) < QCap
    BY <1>4 DEF SelectSend
  <2> QED
    BY <2>1, <2>2, <2>3
<1>5. ASSUME NEW r \in Requests, CloseOneDone(r) PROVE ChanType'
  BY <1>5 DEF CloseOneDone, CloseDone
<1>6. ASSUME NEW r \in Requests, CloseOneResp(r) PROVE ChanType'
  BY <1>6 DEF CloseOneResp, CloseResp
<1> QED
  BY <1>0, <1>1, <1>2, <1>3, <1>4, <1>5, <1>6
  DEF Step, GwNext, Arrival, Proxy, Reader, Closer, Peer, AllocStream, AllocFull,
     SendOpen, SendData, BodyFails, SendEnd, Receive, ReceiveClosed,
     Timeout, ReleaseEntry, ReleaseDone, ReleaseResp, ReadFrame, ReadError, GetStream,
     SelectDone, SelectSend, SelectPanic, SelectPark, ReaderCloses, ReaderGone,
     BeginClose, TakeAllStreams, CloseOneDone, CloseOneResp, CloseSocket,
     CloseFinished, LinkDown, PeerSend, PeerReceive, vars, gwVars, tableVars,
     chanVars, reqVars, readVars, closeVars, connVars, wireVars

LEMMA ReqStep == TypeOK /\ [Step]_vars => ReqType'
<1> SUFFICES ASSUME TypeOK, [Step]_vars PROVE ReqType'
  OBVIOUS
<1> USE DEF TypeOK, ReqType, reqVars, Live
<1>0. CASE UNCHANGED reqVars
  BY <1>0
<1>1. ASSUME NEW r \in Requests, AllocStream(r) PROVE ReqType'
  BY <1>1, IdsAreNumbers DEF AllocStream
<1>2. ASSUME NEW r \in Requests, AllocFull(r) PROVE ReqType'
  <2>1. CASE nextID = 2
    BY <1>2, <2>1 DEF AllocFull
  <2>2. CASE nextID # 2
    BY <1>2, <2>2 DEF AllocFull
  <2> QED
    BY <2>1, <2>2
<1>4. ASSUME NEW r \in Requests, SendOpen(r) PROVE ReqType'
  BY <1>4 DEF SendOpen, Fail
<1>5. ASSUME NEW r \in Requests, SendData(r) PROVE ReqType'
  <2>1. /\ sid' = sid /\ got' = got /\ victim' = victim /\ pc[r] = "body"
        /\ sent[r] < MaxBody
        /\ \/ sent' = [sent EXCEPT ![r] = sent[r] + 1] /\ pc' = pc /\ resp' = resp
           \/ Fail(r) /\ sent' = sent
    BY <1>5 DEF SendData
  <2>2. sent[r] + 1 \in 0..MaxBody
    BY <2>1, ConstantsAssumption
  <2>3. sent' \in [Requests -> 0..MaxBody]
    BY <2>1, <2>2
  <2> QED
    BY <2>1, <2>3 DEF Fail, Live
<1>6. ASSUME NEW r \in Requests, BodyFails(r) PROVE ReqType'
  BY <1>6 DEF BodyFails, Fail
<1>7. ASSUME NEW r \in Requests, SendEnd(r) PROVE ReqType'
  BY <1>7 DEF SendEnd, Fail
<1>8. ASSUME NEW r \in Requests, Receive(r) PROVE ReqType'
  <2>1. Head(queue[r]) \in PeerFrames
    BY <1>8, HeadTailType DEF Receive, ChanType
  <2>2. /\ got' = [got EXCEPT ![r] = Append(got[r], Head(queue[r]))]
        /\ sid' = sid /\ sent' = sent /\ victim' = victim /\ pc[r] = "pipe"
        /\ Answer(r, Head(queue[r]))
    BY <1>8 DEF Receive
  <2>3. got' \in [Requests -> Seq(PeerFrames)]
    BY <2>1, <2>2, AppendType
  <2> HIDE DEF reqVars
  <2> QED
    BY <2>2, <2>3 DEF Answer, Fail, Live
<1>9. ASSUME NEW r \in Requests, ReceiveClosed(r) PROVE ReqType'
  BY <1>9 DEF ReceiveClosed, Fail
<1>10. ASSUME NEW r \in Requests, Timeout(r) PROVE ReqType'
  BY <1>10 DEF Timeout, Fail
<1>11. ASSUME NEW r \in Requests, ReleaseEntry(r) PROVE ReqType'
  BY <1>11 DEF ReleaseEntry, TableType
<1>12. ASSUME NEW r \in Requests, ReleaseDone(r) PROVE ReqType'
  BY <1>12 DEF ReleaseDone
<1>13. ASSUME NEW r \in Requests, ReleaseResp(r) PROVE ReqType'
  BY <1>13 DEF ReleaseResp
<1> QED
  BY <1>0, <1>1, <1>2, <1>4, <1>5, <1>6, <1>7, <1>8, <1>9, <1>10, <1>11, <1>12, <1>13
  DEF Step, GwNext, Arrival, Proxy, Reader, Closer, Peer, AllocStream, AllocFull,
     SendOpen, SendData, BodyFails, SendEnd, Receive, ReceiveClosed,
     Timeout, ReleaseEntry, ReleaseDone, ReleaseResp, ReadFrame, ReadError, GetStream,
     SelectDone, SelectSend, SelectPanic, SelectPark, ReaderCloses, ReaderGone,
     BeginClose, TakeAllStreams, CloseOneDone, CloseOneResp, CloseSocket,
     CloseFinished, LinkDown, PeerSend, PeerReceive, vars, gwVars, tableVars,
     chanVars, reqVars, readVars, closeVars, connVars, wireVars

LEMMA ReadStep == TypeOK /\ [Step]_vars => ReadType'
<1> SUFFICES ASSUME TypeOK, [Step]_vars PROVE ReadType'
  OBVIOUS
<1> USE DEF TypeOK, ReadType, readVars
<1>0. CASE UNCHANGED readVars
  BY <1>0
<1>1. ASSUME NEW r \in Requests, Receive(r) PROVE ReadType'
  BY <1>1 DEF Receive, Resumed
<1>2. CASE ReadFrame
  BY <1>2, HeadTailType DEF ReadFrame, WireType
<1>3. CASE ReadError
  BY <1>3 DEF ReadError
<1>4. CASE GetStream
  BY <1>4 DEF GetStream, Lookup, TableType
<1>5. CASE SelectDone
  BY <1>5 DEF SelectDone
<1>6. CASE SelectSend
  BY <1>6 DEF SelectSend
<1>7. CASE SelectPark
  BY <1>7 DEF SelectPark
<1>8. CASE ReaderGone
  BY <1>8 DEF ReaderGone
<1>9. ASSUME NEW r \in Requests, ReleaseDone(r) PROVE ReadType'
  BY <1>9 DEF ReleaseDone, CloseDone
<1>10. ASSUME NEW r \in Requests, CloseOneDone(r) PROVE ReadType'
  BY <1>10 DEF CloseOneDone, CloseDone
<1> QED
  BY <1>0, <1>1, <1>2, <1>3, <1>4, <1>5, <1>6, <1>7, <1>8, <1>9, <1>10
  DEF Step, GwNext, Arrival, Proxy, Reader, Closer, Peer, AllocStream, AllocFull,
     SendOpen, SendData, BodyFails, SendEnd, Receive, ReceiveClosed,
     Timeout, ReleaseEntry, ReleaseDone, ReleaseResp, ReadFrame, ReadError, GetStream,
     SelectDone, SelectSend, SelectPanic, SelectPark, ReaderCloses, ReaderGone,
     BeginClose, TakeAllStreams, CloseOneDone, CloseOneResp, CloseSocket,
     CloseFinished, LinkDown, PeerSend, PeerReceive, vars, gwVars, tableVars,
     chanVars, reqVars, readVars, closeVars, connVars, wireVars

LEMMA CloseStep == TypeOK /\ [Step]_vars => CloseType'
<1> SUFFICES ASSUME TypeOK, [Step]_vars PROVE CloseType'
  OBVIOUS
<1> USE DEF TypeOK, CloseType, closeVars, connVars
<1>0. CASE UNCHANGED <<closeVars, connVars, crash>>
  BY <1>0
<1>1. CASE SelectPanic
  BY <1>1 DEF SelectPanic
<1>2. CASE BeginClose
  BY <1>2 DEF BeginClose
<1>3. CASE TakeAllStreams
  BY <1>3 DEF TakeAllStreams, TableType, Taken
<1>4. ASSUME NEW r \in Requests, ReleaseDone(r) PROVE CloseType'
  BY <1>4 DEF ReleaseDone, CloseDone
<1>5. ASSUME NEW r \in Requests, ReleaseResp(r) PROVE CloseType'
  BY <1>5 DEF ReleaseResp, CloseResp
<1>6. ASSUME NEW r \in Requests, CloseOneDone(r) PROVE CloseType'
  BY <1>6 DEF CloseOneDone, CloseDone
<1>7. ASSUME NEW r \in Requests, CloseOneResp(r) PROVE CloseType'
  BY <1>7 DEF CloseOneResp, CloseResp
<1>8. CASE CloseSocket
  BY <1>8 DEF CloseSocket
<1>9. CASE CloseFinished
  BY <1>9 DEF CloseFinished
<1>10. CASE LinkDown
  BY <1>10 DEF LinkDown
<1> QED
  BY <1>0, <1>1, <1>2, <1>3, <1>4, <1>5, <1>6, <1>7, <1>8, <1>9, <1>10
  DEF Step, GwNext, Arrival, Proxy, Reader, Closer, Peer, AllocStream, AllocFull,
     SendOpen, SendData, BodyFails, SendEnd, Receive, ReceiveClosed,
     Timeout, ReleaseEntry, ReleaseDone, ReleaseResp, ReadFrame, ReadError, GetStream,
     SelectDone, SelectSend, SelectPanic, SelectPark, ReaderCloses, ReaderGone,
     BeginClose, TakeAllStreams, CloseOneDone, CloseOneResp, CloseSocket,
     CloseFinished, LinkDown, PeerSend, PeerReceive, vars, gwVars, tableVars,
     chanVars, reqVars, readVars, closeVars, connVars, wireVars

LEMMA WireStep == TypeOK /\ [Step]_vars => WireType'
<1> SUFFICES ASSUME TypeOK, [Step]_vars PROVE WireType'
  OBVIOUS
<1> USE DEF TypeOK, WireType, wireVars
<1>0. CASE UNCHANGED wireVars
  BY <1>0
<1>1. ASSUME NEW r \in Requests, SendOpen(r) PROVE WireType'
  BY <1>1, GwFrameType, WriteType DEF SendOpen, FrameTypes, ResponseTypes, WriteFails, ReqType, wireVars
<1>2. ASSUME NEW r \in Requests, SendData(r) PROVE WireType'
  BY <1>2, GwFrameType, WriteType DEF SendData, FrameTypes, ResponseTypes, WriteFails, ReqType, wireVars
<1>3. ASSUME NEW r \in Requests, SendEnd(r) PROVE WireType'
  BY <1>3, GwFrameType, WriteType DEF SendEnd, FrameTypes, ResponseTypes, WriteFails, ReqType, wireVars
<1>4. CASE ReadFrame
  BY <1>4, HeadTailType DEF ReadFrame
<1>5. CASE CloseSocket
  BY <1>5 DEF CloseSocket
<1>6. CASE PeerReceive
  BY <1>6, HeadTailType DEF PeerReceive
<1>7. ASSUME NEW t \in PeerTypes, NEW i \in Ids, PeerSend(t, i) PROVE WireType'
  <2>1. peerSent + 1 \in 0..MaxPeerFrames /\ peerSent + 1 \in Bodies
    BY <1>7, ConstantsAssumption DEF PeerSend
  <2>2. PeerFrame(t, i, peerSent + 1) \in PeerFrames
    BY <2>1, ConstantsAssumption, IdsAreNumbers
    DEF PeerFrame, PeerFrames, FrameTypes, ResponseTypes
  <2> QED
    BY <1>7, <2>1, <2>2, AppendType DEF PeerSend
<1> QED
  BY <1>0, <1>1, <1>2, <1>3, <1>4, <1>5, <1>6, <1>7
  DEF Step, GwNext, Arrival, Proxy, Reader, Closer, Peer, AllocStream, AllocFull,
     SendOpen, SendData, BodyFails, SendEnd, Receive, ReceiveClosed,
     Timeout, ReleaseEntry, ReleaseDone, ReleaseResp, ReadFrame, ReadError, GetStream,
     SelectDone, SelectSend, SelectPanic, SelectPark, ReaderCloses, ReaderGone,
     BeginClose, TakeAllStreams, CloseOneDone, CloseOneResp, CloseSocket,
     CloseFinished, LinkDown, PeerSend, PeerReceive, vars, gwVars, tableVars,
     chanVars, reqVars, readVars, closeVars, connVars, wireVars

LEMMA TypeStep == TypeOK /\ [Step]_vars => TypeOK'
BY TableStep, ChanStep, ReqStep, ReadStep, CloseStep, WireStep DEF TypeOK

\* The variables keep their types: response channels never hold more than their
\* capacity, and the reader never works on a stream it did not find.
THEOREM TypeCorrect == Spec => []TypeOK
<1>1. TypeOK /\ [Next]_vars => TypeOK'
  BY TypeStep, NextIsStep
<1> QED
  BY <1>1, InitTypeOK, PTL DEF Spec

-----------------------------------------------------------------------------
\* The inductive invariant: who owns an entry of the table, that entries are
\* open, and who alone may close a stream that has left the table.
Discipline == EntryHasOwner /\ EntriesAreOpen /\ ClosedByOne /\ NeverClosedTwice

LEMMA InitDiscipline == Init => Discipline
BY DEF Init, GwInit, Discipline, EntryHasOwner, EntriesAreOpen, ClosedByOne,
       NeverClosedTwice, Closing

\* Steps that neither touch the table nor close a channel nor end a request.
Quiet ==
  /\ streams' = streams /\ sid' = sid /\ victim' = victim /\ toClose' = toClose
  /\ doneClosed' = doneClosed /\ respClosed' = respClosed
  /\ crash' \in {crash, "send on closed channel"}
  /\ \A r \in Requests : \/ pc'[r] = pc[r]
                         \/ pc[r] \in Live /\ pc'[r] \in Live
                         \/ pc[r] = "idle" /\ pc'[r] \in {"spin", "done"}

LEMMA QuietStep == TypeOK /\ Discipline /\ Quiet => Discipline'
<1> SUFFICES ASSUME TypeOK, Discipline, Quiet PROVE Discipline'
  OBVIOUS
<1> USE DEF Discipline, Quiet
<1>1. EntryHasOwner'
  <2> SUFFICES ASSUME NEW i \in Ids, streams[i] # None
               PROVE  sid[streams[i]] = i /\ pc'[streams[i]] \in Live
    BY DEF EntryHasOwner
  <2>1. streams[i] \in Requests /\ sid[streams[i]] = i /\ pc[streams[i]] \in Live
    BY DEF EntryHasOwner, TypeOK, TableType
  <2> QED
    BY <2>1 DEF Live
<1>2. EntriesAreOpen'
  BY DEF EntriesAreOpen
<1>3. \A r \in Requests : /\ pc'[r] \in Closing => pc'[r] = pc[r]
                          /\ pc'[r] \in {"idle", "spin"} => pc[r] \in {"idle", "spin"}
  BY DEF Closing, Live
<1>4. ClosedByOne'
  BY <1>3 DEF ClosedByOne
<1>5. NeverClosedTwice'
  BY DEF NeverClosedTwice
<1> QED
  BY <1>1, <1>2, <1>4, <1>5

Functions ==
  /\ streams \in [Ids -> Requests \cup {None}]
  /\ sid \in [Requests -> Ids \cup {0}]
  /\ victim \in [Requests -> Requests \cup {None}]
  /\ pc \in [Requests -> {"idle", "spin", "open", "body", "pipe", "release",
                          "closeDone", "closeResp", "done"}]

LEMMA TheyAreFunctions == TypeOK => Functions
BY DEF TypeOK, TableType, ReqType, Functions

\* What the invariant says of an entry of the table, in one place.
LEMMA OfAnEntry ==
  ASSUME TypeOK, Discipline, NEW i \in Ids, streams[i] # None
  PROVE  /\ streams[i] \in Requests
         /\ sid[streams[i]] = i
         /\ pc[streams[i]] \in {"open", "body", "pipe", "release"}
         /\ streams[i] \notin doneClosed /\ streams[i] \notin respClosed
         /\ streams[i] \notin toClose
         /\ \A q \in Requests : pc[q] \in Closing => victim[q] # streams[i]
<1>1. streams[i] \in Requests
  BY DEF TypeOK, TableType
<1>2. sid[streams[i]] = i /\ pc[streams[i]] \in Live
  BY DEF Discipline, EntryHasOwner
<1>3. streams[i] \notin doneClosed /\ streams[i] \notin respClosed
  BY DEF Discipline, EntriesAreOpen
<1>4. streams[i] \notin toClose
  BY DEF Discipline, ClosedByOne
<1>5. \A q \in Requests : pc[q] \in Closing => victim[q] # streams[i]
  BY DEF Discipline, ClosedByOne
<1> QED
  BY <1>1, <1>2, <1>3, <1>4, <1>5 DEF Live

\* What it says of a stream that ReleaseStream is about to close.
LEMMA OfAVictim ==
  ASSUME TypeOK, Discipline, NEW r \in Requests, pc[r] \in Closing
  PROVE  /\ victim[r] \in Requests
         /\ victim[r] \notin respClosed /\ victim[r] \notin toClose
         /\ victim[r] \in doneClosed <=> pc[r] = "closeResp"
         /\ \A i \in Ids : streams[i] # victim[r]
         /\ \A q \in Requests \ {r} : pc[q] \in Closing => victim[q] # victim[r]
         /\ pc[victim[r]] \notin {"idle", "spin"}
<1>1. victim[r] \in Requests
  BY DEF TypeOK, ReqType, Closing
<1> QED
  BY <1>1 DEF Discipline, ClosedByOne

\* A stream enters the table: its request had none, and nobody closes it yet.
LEMMA AllocDiscipline ==
  ASSUME TypeOK, Discipline, NEW r \in Requests, AllocStream(r)
  PROVE  Discipline'
<1>0. Functions
  BY TheyAreFunctions
<1>1. PICK i \in Ids : /\ streams[i] = None
                       /\ streams' = [streams EXCEPT ![i] = r]
                       /\ sid' = [sid EXCEPT ![r] = i]
  BY DEF AllocStream, NearestFree, Taken
<1>2. /\ pc[r] = "idle" /\ pc' = [pc EXCEPT ![r] = "open"]
      /\ UNCHANGED <<doneClosed, respClosed, toClose, victim, crash>>
  BY DEF AllocStream, chanVars, closeVars
<1>3. /\ r \notin doneClosed /\ r \notin toClose /\ r \notin respClosed
      /\ \A q \in Requests : pc[q] \in Closing => victim[q] # r
  BY <1>2 DEF Discipline, ClosedByOne, EntriesAreOpen
<1>4. \A j \in Ids : streams'[j] # None =>
        \/ j = i /\ streams'[j] = r
        \/ j # i /\ streams'[j] = streams[j] /\ streams[j] # r
  <2> SUFFICES ASSUME NEW j \in Ids, streams[j] # None PROVE streams[j] # r
    BY <1>0, <1>1 DEF Functions
  <2> QED
    BY <1>2, OfAnEntry
<1>5. EntryHasOwner'
  <2> SUFFICES ASSUME NEW j \in Ids, streams'[j] # None
               PROVE  sid'[streams'[j]] = j /\ pc'[streams'[j]] \in Live
    BY DEF EntryHasOwner
  <2>1. CASE streams'[j] = r /\ j = i
    BY <1>0, <1>1, <1>2, <2>1 DEF Functions, Live
  <2>2. CASE streams'[j] = streams[j] /\ streams[j] # r
    BY <1>0, <1>1, <1>2, <2>2, OfAnEntry DEF Functions, Live
  <2> QED
    BY <1>4, <2>1, <2>2
<1>6. EntriesAreOpen'
  BY <1>0, <1>1, <1>2, <1>3 DEF Discipline, EntriesAreOpen, Functions
<1>7. ClosedByOne'
  <2>1. \A q \in Requests : /\ pc'[q] \in Closing => pc[q] \in Closing /\ pc'[q] = pc[q]
                            /\ pc'[q] \in {"idle", "spin"} => pc[q] \in {"idle", "spin"}
    BY <1>0, <1>2 DEF Functions, Closing
  <2>2. \A j \in Ids : streams'[j] \in {streams[j], r}
    BY <1>0, <1>1 DEF Functions
  <2> QED
    BY <1>2, <1>3, <2>1, <2>2 DEF Discipline, ClosedByOne
<1> QED
  BY <1>2, <1>5, <1>6, <1>7 DEF Discipline, NeverClosedTwice

\* A stream leaves the table by its identifier: whoever owns it, the request that
\* takes it out is the only one that has it.
LEMMA ReleaseEntryDiscipline ==
  ASSUME TypeOK, Discipline, NEW r \in Requests, ReleaseEntry(r)
  PROVE  Discipline'
<1> DEFINE i == sid[r]
           v == streams[i]
<1>0. Functions
  BY TheyAreFunctions
<1>1. /\ pc[r] = "release" /\ i \in Ids
      /\ streams' = [streams EXCEPT ![i] = None]
      /\ victim' = [victim EXCEPT ![r] = v]
      /\ pc' = [pc EXCEPT ![r] = IF v = None THEN "done" ELSE "closeDone"]
      /\ UNCHANGED <<sid, doneClosed, respClosed, toClose, crash>>
  BY <1>0 DEF ReleaseEntry, chanVars, closeVars, Live, TypeOK, ReqType, Functions
<1>2. \A j \in Ids : streams'[j] # None => j # i /\ streams'[j] = streams[j]
  BY <1>0, <1>1 DEF Functions
<1>3. EntryHasOwner'
  <2> SUFFICES ASSUME NEW j \in Ids, streams'[j] # None
               PROVE  sid'[streams'[j]] = j /\ pc'[streams'[j]] \in Live
    BY DEF EntryHasOwner
  <2>1. streams'[j] = streams[j] /\ j # i /\ streams[j] # None
    BY <1>2
  <2>2. streams[j] # r
    BY <2>1, OfAnEntry
  <2> QED
    BY <1>0, <1>1, <2>1, <2>2, OfAnEntry DEF Functions, Live
<1>4. EntriesAreOpen'
  <2>1. None \notin doneClosed \cup respClosed
    BY ConstantsAssumption DEF TypeOK, ChanType
  <2> QED
    BY <1>1, <1>2, <2>1 DEF Discipline, EntriesAreOpen
<1>5. \A j \in Ids : streams'[j] \in {streams[j], None}
  BY <1>0, <1>1 DEF Functions
<1>6. \A q \in Requests : pc'[q] \in {"idle", "spin"} => pc[q] \in {"idle", "spin"}
  BY <1>0, <1>1 DEF Functions
<1>7. None \notin toClose /\ None \notin Requests
  BY ConstantsAssumption DEF TypeOK, CloseType
<1>8. CASE v = None
  <2>1. \A q \in Requests : pc'[q] \in Closing =>
          /\ q # r /\ pc[q] \in Closing /\ pc'[q] = pc[q]
          /\ victim'[q] = victim[q] /\ victim[q] \in Requests
    BY <1>0, <1>1, <1>8, OfAVictim DEF Functions, Closing
  <2> HIDE DEF v
  <2>2. ClosedByOne'
    BY <1>1, <1>5, <1>6, <1>7, <2>1 DEF Discipline, ClosedByOne
  <2> QED
    BY <1>1, <1>3, <1>4, <2>2 DEF Discipline, NeverClosedTwice
<1>9. CASE v # None
  <2>1. /\ v \in Requests /\ v \notin doneClosed /\ v \notin respClosed
        /\ v \notin toClose /\ pc[v] \notin {"idle", "spin"}
        /\ \A q \in Requests : pc[q] \in Closing => victim[q] # v
    BY <1>1, <1>9, OfAnEntry
  <2>2. \A j \in Ids : streams'[j] # v
    BY <1>1, <1>2, <1>7, <1>9, <2>1, OfAnEntry
  <2>3. \A q \in Requests : pc'[q] \in Closing =>
          \/ q = r /\ victim'[q] = v /\ pc'[q] = "closeDone"
          \/ /\ q # r /\ pc[q] \in Closing /\ pc'[q] = pc[q]
             /\ victim'[q] = victim[q] /\ victim[q] \in Requests
    BY <1>0, <1>1, <1>9, OfAVictim DEF Functions, Closing
  <2> HIDE DEF v
  <2>4. ASSUME NEW q \in Requests, pc'[q] \in Closing
        PROVE  /\ victim'[q] \notin respClosed' \cup toClose'
               /\ victim'[q] \in doneClosed' <=> pc'[q] = "closeResp"
               /\ \A j \in Ids : streams'[j] # victim'[q]
               /\ \A p \in Requests \ {q} : pc'[p] \in Closing => victim'[p] # victim'[q]
    <3>1. CASE q = r /\ victim'[q] = v /\ pc'[q] = "closeDone"
      BY <1>1, <2>1, <2>2, <2>3, <3>1
    <3>2. CASE /\ q # r /\ pc[q] \in Closing /\ pc'[q] = pc[q]
               /\ victim'[q] = victim[q] /\ victim[q] \in Requests
      BY <1>1, <1>5, <1>7, <2>1, <2>3, <3>2, OfAVictim
    <3> QED
      BY <2>3, <2>4, <3>1, <3>2
  <2>5. \A s \in toClose' : s \notin respClosed' /\ \A j \in Ids : streams'[j] # s
    BY <1>1, <1>5, <1>7 DEF Discipline, ClosedByOne
  <2>6. \A q \in Requests : pc'[q] \in {"idle", "spin"} =>
          /\ q \notin doneClosed' \cup toClose'
          /\ \A p \in Requests : pc'[p] \in Closing => victim'[p] # q
    BY <1>1, <1>6, <2>1, <2>3 DEF Discipline, ClosedByOne
  <2>7. ClosedByOne'
    BY <2>4, <2>5, <2>6 DEF ClosedByOne
  <2> QED
    BY <1>1, <1>3, <1>4, <2>7 DEF Discipline, NeverClosedTwice
<1> QED
  BY <1>8, <1>9

\* close(done), by the only one that has the stream: it was open.
LEMMA ReleaseDoneDiscipline ==
  ASSUME TypeOK, Discipline, NEW r \in Requests, ReleaseDone(r)
  PROVE  Discipline'
<1> USE DEF Discipline, TypeOK, TableType, ChanType, ReqType, CloseType
<1> DEFINE v == victim[r]
<1>1. /\ pc[r] = "closeDone" /\ v \in Requests /\ v \notin doneClosed
      /\ \A i \in Ids : streams[i] # v
      /\ \A q \in Requests : pc[q] \in {"idle", "spin"} => q # v
  BY DEF ReleaseDone, ClosedByOne, Closing
<1>2. /\ doneClosed' = doneClosed \cup {v}
      /\ pc' = [pc EXCEPT ![r] = "closeResp"]
      /\ UNCHANGED <<streams, sid, respClosed, toClose, victim, crash>>
  BY <1>1 DEF ReleaseDone, CloseDone, tableVars, closeVars
<1>3. EntryHasOwner'
  <2> SUFFICES ASSUME NEW j \in Ids, streams[j] # None
               PROVE  sid[streams[j]] = j /\ pc'[streams[j]] \in Live
    BY <1>2 DEF EntryHasOwner
  <2> QED
    BY <1>1, <1>2, OfAnEntry DEF Live
<1>4. EntriesAreOpen'
  BY <1>1, <1>2 DEF EntriesAreOpen
<1>5. ClosedByOne'
  BY <1>1, <1>2 DEF ClosedByOne, Closing
<1> QED
  BY <1>2, <1>3, <1>4, <1>5 DEF NeverClosedTwice

\* close(respCh), by the same.
LEMMA ReleaseRespDiscipline ==
  ASSUME TypeOK, Discipline, NEW r \in Requests, ReleaseResp(r)
  PROVE  Discipline'
<1> USE DEF Discipline, TypeOK, TableType, ChanType, ReqType, CloseType
<1> DEFINE v == victim[r]
<1>1. /\ pc[r] = "closeResp" /\ v \in Requests
      /\ v \in doneClosed /\ v \notin respClosed /\ v \notin toClose
      /\ \A i \in Ids : streams[i] # v
      /\ \A q \in Requests \ {r} : pc[q] \in Closing => victim[q] # v
  BY DEF ReleaseResp, ClosedByOne, Closing
<1>2. /\ respClosed' = respClosed \cup {v}
      /\ pc' = [pc EXCEPT ![r] = "done"]
      /\ UNCHANGED <<streams, sid, doneClosed, toClose, victim, crash>>
  BY <1>1 DEF ReleaseResp, CloseResp, tableVars, closeVars
<1>3. EntryHasOwner'
  <2> SUFFICES ASSUME NEW j \in Ids, streams[j] # None
               PROVE  sid[streams[j]] = j /\ pc'[streams[j]] \in Live
    BY <1>2 DEF EntryHasOwner
  <2> QED
    BY <1>1, <1>2, OfAnEntry DEF Live
<1>4. EntriesAreOpen'
  BY <1>1, <1>2 DEF EntriesAreOpen
<1>5. ClosedByOne'
  BY <1>1, <1>2 DEF ClosedByOne, Closing
<1> QED
  BY <1>2, <1>3, <1>4, <1>5 DEF NeverClosedTwice

\* CloseAllStreams takes what is in the table, and no more.
LEMMA TakeAllDiscipline ==
  ASSUME TypeOK, Discipline, TakeAllStreams
  PROVE  Discipline'
<1>1. /\ streams' = [i \in Ids |-> None]
      /\ toClose' = {streams[i] : i \in Taken}
      /\ UNCHANGED <<sid, pc, doneClosed, respClosed, victim, crash>>
  BY DEF TakeAllStreams, chanVars, reqVars
<1>2. \A s \in toClose' : \E i \in Ids : streams[i] = s /\ s # None
  BY <1>1 DEF Taken
<1>3. EntryHasOwner' /\ EntriesAreOpen'
  <2>1. None \notin doneClosed /\ None \notin respClosed
    BY ConstantsAssumption DEF TypeOK, ChanType
  <2> QED
    BY <1>1, <2>1 DEF Discipline, EntryHasOwner, EntriesAreOpen
<1>4. \A s \in toClose' : /\ s \in Requests
                          /\ s \notin doneClosed /\ s \notin respClosed
                          /\ pc[s] \notin {"idle", "spin"}
                          /\ \A q \in Requests : pc[q] \in Closing => victim[q] # s
  BY <1>2, OfAnEntry
<1>5. \A r \in Requests : pc[r] \in Closing => victim[r] \in Requests
  BY OfAVictim
<1>6. \A i \in Ids : streams'[i] = None /\ None \notin Requests
  BY <1>1, ConstantsAssumption
<1>7. /\ UNCHANGED <<pc, victim, doneClosed, respClosed>>
  BY <1>1
<1>8. ClosedByOne'
  BY <1>4, <1>5, <1>6, <1>7 DEF Discipline, ClosedByOne
<1> QED
  BY <1>1, <1>3, <1>8 DEF Discipline, NeverClosedTwice

LEMMA CloseOneDiscipline ==
  ASSUME TypeOK, Discipline, NEW s \in Requests, CloseOneDone(s) \/ CloseOneResp(s)
  PROVE  Discipline'
<1>0. /\ UNCHANGED <<streams, sid, pc, victim>> /\ s \in toClose
      /\ s \notin respClosed /\ \A i \in Ids : streams[i] # s
      /\ \A q \in Requests : pc[q] \in Closing => victim[q] # s
      /\ \A q \in Requests : pc[q] \in {"idle", "spin"} => q # s
  BY DEF CloseOneDone, CloseOneResp, tableVars, reqVars, ClosedByOne, Discipline
<1>1. CASE CloseOneDone(s)
  <2>1. /\ doneClosed' = doneClosed \cup {s}
        /\ UNCHANGED <<respClosed, toClose, crash>>
    BY <1>1 DEF CloseOneDone, CloseDone, closeVars
  <2> QED
    BY <1>0, <2>1 DEF Discipline, EntryHasOwner, EntriesAreOpen, ClosedByOne,
       NeverClosedTwice
<1>2. CASE CloseOneResp(s)
  <2>1. /\ respClosed' = respClosed \cup {s} /\ toClose' = toClose \ {s}
        /\ s \in doneClosed
        /\ UNCHANGED <<doneClosed, crash>>
    BY <1>0, <1>2 DEF CloseOneResp, CloseResp
  <2>2. EntryHasOwner' /\ EntriesAreOpen' /\ NeverClosedTwice'
    BY <1>0, <2>1 DEF Discipline, EntryHasOwner, EntriesAreOpen, NeverClosedTwice
  <2>3. ClosedByOne'
    BY <1>0, <2>1 DEF Discipline, ClosedByOne
  <2> QED
    BY <2>2, <2>3 DEF Discipline
<1> QED
  BY <1>1, <1>2

LEMMA StepDiscipline == TypeOK /\ Discipline /\ [Step]_vars => Discipline'
<1> SUFFICES ASSUME TypeOK, Discipline, [Step]_vars PROVE Discipline'
  OBVIOUS
<1> USE DEF tableVars, chanVars, reqVars, readVars, closeVars, connVars, TypeOK, ReqType
<1>1. ASSUME NEW r \in Requests, Arrival(r) \/ Proxy(r) PROVE Discipline'
  <2>1. CASE AllocStream(r)
    BY <2>1, AllocDiscipline
  <2>2. CASE ReleaseEntry(r)
    BY <2>2, ReleaseEntryDiscipline
  <2>3. CASE ReleaseDone(r)
    BY <2>3, ReleaseDoneDiscipline
  <2>4. CASE ReleaseResp(r)
    BY <2>4, ReleaseRespDiscipline
  <2>5. CASE AllocFull(r)
    BY <2>5, QuietStep DEF AllocFull, Quiet, Live
  <2>7. CASE SendOpen(r)
    BY <2>7, QuietStep DEF SendOpen, Quiet, Live, Fail
  <2>8. CASE SendData(r)
    BY <2>8, QuietStep DEF SendData, Quiet, Live, Fail
  <2>9. CASE BodyFails(r)
    BY <2>9, QuietStep DEF BodyFails, Quiet, Live, Fail
  <2>10. CASE SendEnd(r)
    BY <2>10, QuietStep DEF SendEnd, Quiet, Live, Fail
  <2>11. CASE Receive(r)
    BY <2>11, QuietStep DEF Receive, Quiet, Live, Answer, Fail
  <2>12. CASE ReceiveClosed(r)
    BY <2>12, QuietStep DEF ReceiveClosed, Quiet, Live, Fail
  <2>13. CASE Timeout(r)
    BY <2>13, QuietStep DEF Timeout, Quiet, Live, Fail
  <2> QED
    BY <1>1, <2>1, <2>2, <2>3, <2>4, <2>5, <2>7, <2>8, <2>9, <2>10, <2>11, <2>12, <2>13
    DEF Arrival, Proxy
<1>2. CASE Reader
  BY <1>2, QuietStep DEF Quiet, Reader, ReadFrame, ReadError, GetStream, SelectDone,
     SelectSend, SelectPanic, SelectPark, ReaderCloses, BeginClose, ReaderGone
<1>3. CASE TakeAllStreams
  BY <1>3, TakeAllDiscipline
<1>4. ASSUME NEW s \in Requests, CloseOneDone(s) \/ CloseOneResp(s) PROVE Discipline'
  BY <1>4, CloseOneDiscipline
<1>5. CASE BeginClose \/ CloseSocket \/ CloseFinished \/ LinkDown \/ Peer
  BY <1>5, QuietStep DEF Quiet, BeginClose, CloseSocket, CloseFinished, LinkDown,
     Peer, PeerSend, PeerReceive, gwVars
<1>6. CASE UNCHANGED vars
  BY <1>6, QuietStep DEF Quiet, vars, gwVars
<1> QED
  BY <1>1, <1>2, <1>3, <1>4, <1>5, <1>6 DEF Step, GwNext, Closer

\* Whatever the requests, the reader, the callers of Close and the other end do:
\* entries have live owners and open channels, a stream out of the table has one
\* goroutine to close it, and no channel is ever closed twice.
THEOREM StreamDiscipline ==
  Spec => [](EntryHasOwner /\ EntriesAreOpen /\ ClosedByOne /\ NeverClosedTwice)
<1>1. Spec => []TypeOK
  BY TypeCorrect
<1>2. Spec => []Discipline
  BY <1>1, InitDiscipline, StepDiscipline, NextIsStep, PTL DEF Spec
<1> QED
  BY <1>2, PTL DEF Discipline

\* ReleaseStream and CloseAllStreams never close a channel that is closed already.
THEOREM NoDoubleClose == Spec => []NeverClosedTwice
<1>1. Spec => [](EntryHasOwner /\ EntriesAreOpen /\ ClosedByOne /\ NeverClosedTwice)
  BY StreamDiscipline
<1> QED
  BY <1>1, PTL

-----------------------------------------------------------------------------
\* The frames that have come for a request: those its handler has taken, and those
\* that are buffered for it.
Frames(r) == got[r] \o queue[r]

\* Taking a buffered frame changes nothing in them, and a frame that is buffered
\* comes at their end.
LEMMA TakenFromQueue ==
  ASSUME NEW S, NEW g \in Seq(S), NEW q \in Seq(S), q # <<>>
  PROVE  Append(g, Head(q)) \o Tail(q) = g \o q
<1> DEFINE s == Append(g, Head(q)) \o Tail(q)
           t == g \o q
<1>1. /\ Head(q) \in S /\ Head(q) = q[1]
      /\ Tail(q) \in Seq(S) /\ Len(Tail(q)) = Len(q) - 1
      /\ \A i \in 1..Len(Tail(q)) : Tail(q)[i] = q[i + 1]
      /\ Len(q) \in Nat /\ Len(q) > 0 /\ Len(g) \in Nat
  BY HeadTailProperties, LenProperties, EmptySeq
<1>2. /\ Append(g, Head(q)) \in Seq(S) /\ Len(Append(g, Head(q))) = Len(g) + 1
      /\ \A i \in 1..Len(g) : Append(g, Head(q))[i] = g[i]
      /\ Append(g, Head(q))[Len(g) + 1] = q[1]
  BY <1>1, AppendProperties
<1>3. /\ s \in Seq(S) /\ Len(s) = Len(g) + Len(q)
      /\ \A i \in 1..Len(g) + Len(q) :
           s[i] = IF i <= Len(g) + 1 THEN Append(g, Head(q))[i] ELSE Tail(q)[i - (Len(g) + 1)]
  BY <1>1, <1>2, ConcatProperties
<1>4. /\ t \in Seq(S) /\ Len(t) = Len(g) + Len(q)
      /\ \A i \in 1..Len(g) + Len(q) :
           t[i] = IF i <= Len(g) THEN g[i] ELSE q[i - Len(g)]
  BY ConcatProperties
<1>5. \A i \in 1..Len(s) : s[i] = t[i]
  <2> SUFFICES ASSUME NEW i \in 1..Len(g) + Len(q) PROVE s[i] = t[i]
    BY <1>3
  <2> HIDE DEF s, t
  <2>1. CASE i <= Len(g)
    <3>1. i \in 1..Len(g) /\ i <= Len(g) + 1
      BY <1>1, <2>1
    <3>2. s[i] = Append(g, Head(q))[i] /\ t[i] = g[i]
      BY <1>3, <1>4, <3>1, <2>1
    <3> QED
      BY <1>2, <3>1, <3>2
  <2>2. CASE i = Len(g) + 1
    <3>1. i <= Len(g) + 1 /\ ~(i <= Len(g)) /\ i - Len(g) = 1
      BY <1>1, <2>2
    <3>2. s[i] = Append(g, Head(q))[i] /\ t[i] = q[1]
      BY <1>3, <1>4, <3>1
    <3> QED
      BY <1>2, <2>2, <3>2
  <2>3. CASE i > Len(g) + 1
    <3>1. /\ i - (Len(g) + 1) \in 1..Len(Tail(q))
          /\ (i - (Len(g) + 1)) + 1 = i - Len(g)
      BY <1>1, <2>3
    <3>2. s[i] = Tail(q)[i - (Len(g) + 1)] /\ t[i] = q[i - Len(g)]
      BY <1>1, <1>3, <1>4, <2>3
    <3> QED
      BY <1>1, <3>1, <3>2
  <2> QED
    BY <1>1, <2>1, <2>2, <2>3
<1> HIDE DEF s, t
<1>6. s = t
  BY <1>3, <1>4, <1>5, SeqEqual
<1> QED
  BY <1>6 DEF s, t

LEMMA PutInQueue ==
  ASSUME NEW S, NEW g \in Seq(S), NEW q \in Seq(S), NEW e \in S
  PROVE  g \o Append(q, e) = Append(g \o q, e)
<1> DEFINE s == g \o Append(q, e)
           t == Append(g \o q, e)
<1>1. /\ Append(q, e) \in Seq(S) /\ Len(Append(q, e)) = Len(q) + 1
      /\ \A i \in 1..Len(q) : Append(q, e)[i] = q[i]
      /\ Append(q, e)[Len(q) + 1] = e
      /\ Len(q) \in Nat /\ Len(g) \in Nat
  BY AppendProperties, LenProperties
<1>2. /\ g \o q \in Seq(S) /\ Len(g \o q) = Len(g) + Len(q)
      /\ \A i \in 1..Len(g) + Len(q) :
           (g \o q)[i] = IF i <= Len(g) THEN g[i] ELSE q[i - Len(g)]
  BY ConcatProperties
<1>3. /\ s \in Seq(S) /\ Len(s) = Len(g) + (Len(q) + 1)
      /\ \A i \in 1..Len(g) + (Len(q) + 1) :
           s[i] = IF i <= Len(g) THEN g[i] ELSE Append(q, e)[i - Len(g)]
  BY <1>1, ConcatProperties
<1>4. /\ t \in Seq(S) /\ Len(t) = Len(g) + Len(q) + 1
      /\ \A i \in 1..Len(g) + Len(q) : t[i] = (g \o q)[i]
      /\ t[Len(g) + Len(q) + 1] = e
  BY <1>2, AppendProperties
<1>5. \A i \in 1..Len(s) : s[i] = t[i]
  <2> SUFFICES ASSUME NEW i \in 1..Len(g) + Len(q) + 1 PROVE s[i] = t[i]
    BY <1>1, <1>3
  <2> HIDE DEF s, t
  <2>a. i \in 1..Len(g) + (Len(q) + 1)
    BY <1>1
  <2>1. CASE i <= Len(g)
    <3>1. i \in 1..Len(g) + Len(q)
      BY <1>1, <2>1
    <3>2. s[i] = g[i]
      BY <1>3, <2>a, <2>1
    <3>3. t[i] = g[i]
      BY <1>2, <1>4, <2>1, <3>1
    <3> QED
      BY <3>2, <3>3
  <2>2. CASE ~(i <= Len(g)) /\ i <= Len(g) + Len(q)
    <3>1. i - Len(g) \in 1..Len(q) /\ i \in 1..Len(g) + Len(q)
      BY <1>1, <2>2
    <3>2. s[i] = Append(q, e)[i - Len(g)]
      BY <1>3, <2>a, <2>2
    <3>3. t[i] = q[i - Len(g)]
      BY <1>2, <1>4, <2>2, <3>1
    <3> QED
      BY <1>1, <3>1, <3>2, <3>3
  <2>3. CASE i = Len(g) + Len(q) + 1
    <3>1. i - Len(g) = Len(q) + 1
      BY <1>1, <2>3
    <3>2. ~(i <= Len(g))
      BY <1>1, <2>3
    <3>3. s[i] = Append(q, e)[i - Len(g)]
      BY <1>3, <2>a, <3>2
    <3>4. t[i] = e
      BY <1>4, <2>3
    <3> QED
      BY <1>1, <3>1, <3>3, <3>4
  <2> QED
    BY <1>1, <2>1, <2>2, <2>3
<1> HIDE DEF s, t
<1>6. s = t
  BY <1>1, <1>3, <1>4, <1>5, SeqEqual
<1> QED
  BY <1>6 DEF s, t

LEMMA FramesType ==
  ASSUME TypeOK, NEW r \in Requests
  PROVE  /\ got[r] \in Seq(PeerFrames) /\ queue[r] \in Seq(PeerFrames)
         /\ Frames(r) \in Seq(PeerFrames)
         /\ Len(Frames(r)) = Len(got[r]) + Len(queue[r])
         /\ Len(got[r]) \in Nat /\ Len(queue[r]) \in Nat
         /\ \A k \in 1..Len(got[r]) : Frames(r)[k] = got[r][k]
<1>1. got[r] \in Seq(PeerFrames) /\ queue[r] \in Seq(PeerFrames)
  BY DEF TypeOK, ReqType, ChanType
<1>2. /\ Frames(r) \in Seq(PeerFrames)
      /\ Len(Frames(r)) = Len(got[r]) + Len(queue[r])
      /\ Len(got[r]) \in Nat /\ Len(queue[r]) \in Nat
      /\ \A k \in 1..Len(got[r]) + Len(queue[r]) : Frames(r)[k] =
           IF k <= Len(got[r]) THEN got[r][k] ELSE queue[r][k - Len(got[r])]
  BY <1>1, ConcatProperties, LenProperties DEF Frames
<1>3. \A m, n \in Nat : \A k \in 1..m : k \in 1..m + n /\ k <= m
  OBVIOUS
<1> HIDE DEF Frames
<1> QED
  BY <1>1, <1>2, <1>3

\* The reader's frame comes to the stream it has been looked up for.
HandedOver ==
  /\ rpc \in {"select", "parked"} /\ rpc' = "read" /\ rstream' = rstream
  /\ \A r \in Requests :
       Frames(r)' = IF r = rstream THEN Append(Frames(r), rframe) ELSE Frames(r)

LEMMA FramesStep ==
  ASSUME TypeOK, [Step]_vars
  PROVE  /\ (\A r \in Requests : Frames(r)' = Frames(r)) \/ HandedOver
         /\ SelectSend \/ (rpc = "parked" /\ Receive(rstream)) => HandedOver
<1>1. ASSUME NEW r \in Requests, Receive(r)
      PROVE  /\ (\A q \in Requests : Frames(q)' = Frames(q)) \/ HandedOver
             /\ rpc = "parked" /\ rstream = r => HandedOver
  <2>1. /\ got' = [got EXCEPT ![r] = Append(got[r], Head(queue[r]))]
        /\ queue[r] # <<>>
        /\ got \in [Requests -> Seq(PeerFrames)] /\ queue \in [Requests -> Seq(PeerFrames)]
        /\ rframe \in PeerFrames
    BY <1>1 DEF Receive, TypeOK, ReqType, ChanType, ReadType
  <2>2. Append(got[r], Head(queue[r])) \o Tail(queue[r]) = Frames(r)
    BY <2>1, TakenFromQueue DEF Frames
  <2>3. \A q \in Requests \ {r} : got'[q] = got[q] /\ queue'[q] = queue[q]
    BY <1>1, <2>1 DEF Receive
  <2>4. CASE rpc = "parked" /\ rstream = r
    <3>1. /\ queue' = [queue EXCEPT ![r] = Append(Tail(queue[r]), rframe)]
          /\ rpc' = "read" /\ rstream' = rstream
      BY <1>1, <2>4 DEF Receive, Resumed
    <3>2. /\ Tail(queue[r]) \in Seq(PeerFrames)
          /\ Append(got[r], Head(queue[r])) \in Seq(PeerFrames)
      BY <2>1, HeadTailType, AppendType
    <3>3. Frames(r)' = Append(Frames(r), rframe)
      BY <2>1, <2>2, <3>1, <3>2, PutInQueue DEF Frames
    <3>4. \A q \in Requests \ {r} : Frames(q)' = Frames(q)
      BY <2>3 DEF Frames
    <3> QED
      BY <2>3, <2>4, <3>1, <3>3, <3>4 DEF HandedOver
  <2>5. CASE ~(rpc = "parked" /\ rstream = r)
    <3>1. queue' = [queue EXCEPT ![r] = Tail(queue[r])]
      BY <1>1, <2>5 DEF Receive
    <3>2. Frames(r)' = Frames(r)
      BY <2>1, <2>2, <3>1 DEF Frames
    <3>3. \A q \in Requests : Frames(q)' = Frames(q)
      BY <2>3, <3>2 DEF Frames
    <3> QED
      BY <2>5, <3>3
  <2> QED
    BY <2>4, <2>5
<1>2. ASSUME SelectSend PROVE HandedOver
  <2>1. /\ rpc = "select" /\ rpc' = "read" /\ rstream \in Requests /\ got' = got
        /\ rstream' = rstream
        /\ queue' = [queue EXCEPT ![rstream] = Append(queue[rstream], rframe)]
        /\ queue \in [Requests -> Seq(PeerFrames)] /\ got \in [Requests -> Seq(PeerFrames)]
        /\ rframe \in PeerFrames
    BY <1>2 DEF SelectSend, TypeOK, ReqType, ChanType, ReadType, reqVars
  <2>2. Frames(rstream)' = Append(Frames(rstream), rframe)
    BY <2>1, PutInQueue DEF Frames
  <2>3. \A q \in Requests \ {rstream} : Frames(q)' = Frames(q)
    BY <2>1 DEF Frames
  <2> QED
    BY <2>1, <2>2, <2>3 DEF HandedOver
<1>3. ASSUME UNCHANGED <<got, queue>> PROVE \A r \in Requests : Frames(r)' = Frames(r)
  BY <1>3 DEF Frames
<1>4. rpc = "parked" /\ Receive(rstream) => HandedOver
  <2>1. rpc = "parked" => rstream \in Requests
    BY DEF TypeOK, ReadType
  <2> QED
    BY <1>1, <2>1
<1>5. (\A r \in Requests : Frames(r)' = Frames(r)) \/ HandedOver
  BY <1>1, <1>2, <1>3
  DEF Step, GwNext, Arrival, Proxy, Reader, Closer, Peer, AllocStream, AllocFull,
     SendOpen, SendData, BodyFails, SendEnd, ReceiveClosed,
     Timeout, ReleaseEntry, ReleaseDone, ReleaseResp, ReadFrame, ReadError, GetStream,
     SelectDone, SelectPanic, SelectPark, ReaderCloses, ReaderGone,
     BeginClose, TakeAllStreams, CloseOneDone, CloseOneResp, CloseSocket,
     CloseFinished, LinkDown, PeerSend, PeerReceive, vars, gwVars, tableVars,
     chanVars, reqVars, readVars, closeVars, connVars, wireVars
<1> QED
  BY <1>2, <1>4, <1>5

\* Where the reader has a frame.
Holding == {"lookup", "select", "parked"}

\* What a step does to the reader and its frame.
LEMMA ReaderStep ==
  ASSUME [Step]_vars
  PROVE  \/ rpc' \notin Holding
         \/ /\ UNCHANGED <<rframe, rstream>>
            /\ rpc' = rpc \/ (rpc = "select" /\ rpc' = "parked")
         \/ ReadFrame /\ rpc' = "lookup"
         \/ GetStream /\ rpc' = "select"
<1>1. ASSUME NEW r \in Requests, Receive(r)
      PROVE  UNCHANGED <<rframe, rstream>> /\ (rpc' = rpc \/ rpc' \notin Holding)
  BY <1>1 DEF Receive, Resumed, Holding
<1>2. ASSUME NEW r \in Requests, ReleaseDone(r) \/ CloseOneDone(r)
      PROVE  UNCHANGED <<rframe, rstream>> /\ (rpc' = rpc \/ rpc' \notin Holding)
  BY <1>2 DEF ReleaseDone, CloseOneDone, CloseDone, Holding
<1>3. CASE ReadFrame
  BY <1>3 DEF ReadFrame, Holding
<1>4. CASE GetStream
  BY <1>4 DEF GetStream, Holding
<1>5. CASE SelectPark
  BY <1>5 DEF SelectPark
<1>6. CASE SelectDone \/ SelectSend \/ ReadError \/ ReaderGone
  BY <1>6 DEF SelectDone, SelectSend, ReadError, ReaderGone, Holding
<1>7. CASE UNCHANGED readVars
  BY <1>7 DEF readVars
<1> QED
  BY <1>1, <1>2, <1>3, <1>4, <1>5, <1>6, <1>7
  DEF Step, GwNext, Arrival, Proxy, Reader, Closer, Peer, AllocStream, AllocFull,
     SendOpen, SendData, BodyFails, SendEnd, ReceiveClosed, Timeout, ReleaseEntry,
     ReleaseResp, SelectPanic, ReaderCloses, BeginClose, TakeAllStreams, CloseOneResp,
     CloseSocket, CloseFinished, LinkDown, PeerSend, PeerReceive, vars, gwVars, readVars

\* What a step does to the frames in flight to the gateway.
LEMMA InFlightStep ==
  ASSUME [Step]_vars
  PROVE  \/ UNCHANGED <<toGw, peerSent>>
         \/ UNCHANGED peerSent /\ toGw' = <<>>
         \/ UNCHANGED peerSent /\ ReadFrame
         \/ \E t \in PeerTypes, i \in Ids : PeerSend(t, i)
<1>1. ASSUME NEW r \in Requests, SendOpen(r) \/ SendData(r) \/ SendEnd(r)
      PROVE  UNCHANGED <<toGw, peerSent>>
  BY <1>1 DEF SendOpen, SendData, SendEnd, Write, WriteFails, wireVars
<1>2. CASE CloseSocket
  BY <1>2 DEF CloseSocket
<1>3. CASE ReadFrame
  BY <1>3 DEF ReadFrame
<1>4. CASE PeerReceive
  BY <1>4 DEF PeerReceive
<1>5. CASE UNCHANGED wireVars
  BY <1>5 DEF wireVars
<1> QED
  BY <1>1, <1>2, <1>3, <1>4, <1>5
  DEF Step, GwNext, Arrival, Proxy, Reader, Closer, Peer, AllocStream, AllocFull,
     BodyFails, Receive, ReceiveClosed, Timeout, ReleaseEntry, ReleaseDone, ReleaseResp,
     ReadError, GetStream, SelectDone, SelectSend, SelectPanic, SelectPark, ReaderCloses,
     ReaderGone, BeginClose, TakeAllStreams, CloseOneDone, CloseOneResp,
     CloseFinished, LinkDown, vars, gwVars

\* A request without a stream is one that has not allocated one yet, and an
\* identifier is given once.
Waiting == {"idle", "spin"}

LEMMA RequestStep ==
  ASSUME TypeOK, [Step]_vars, NEW r \in Requests
  PROVE  /\ pc'[r] \in Waiting => pc[r] \in Waiting
         /\ sid'[r] = sid[r] \/ (pc[r] = "idle" /\ pc'[r] = "open" /\ AllocStream(r))
<1> USE DEF TypeOK, ReqType, Waiting
<1>1. CASE UNCHANGED <<pc, sid>>
  BY <1>1
<1>2. ASSUME NEW q \in Requests, AllocStream(q)
      PROVE  /\ pc'[r] \in Waiting => pc[r] \in Waiting
             /\ sid'[r] = sid[r] \/ (pc[r] = "idle" /\ pc'[r] = "open" /\ AllocStream(r))
  BY <1>2 DEF AllocStream
<1>3. ASSUME NEW q \in Requests, AllocFull(q)
      PROVE  (pc'[r] \in Waiting => pc[r] \in Waiting) /\ sid'[r] = sid[r]
  BY <1>3 DEF AllocFull
<1>4. ASSUME NEW q \in Requests, SendOpen(q) \/ SendData(q) \/ SendEnd(q) \/ BodyFails(q)
      PROVE  (pc'[r] \in Waiting => pc[r] \in Waiting) /\ sid'[r] = sid[r]
  BY <1>4 DEF SendOpen, SendData, SendEnd, BodyFails, Fail
<1>5. ASSUME NEW q \in Requests, Receive(q) \/ ReceiveClosed(q) \/ Timeout(q)
      PROVE  (pc'[r] \in Waiting => pc[r] \in Waiting) /\ sid'[r] = sid[r]
  BY <1>5 DEF Receive, Answer, ReceiveClosed, Timeout, Fail
<1>6. ASSUME NEW q \in Requests, ReleaseEntry(q) \/ ReleaseDone(q) \/ ReleaseResp(q)
      PROVE  (pc'[r] \in Waiting => pc[r] \in Waiting) /\ sid'[r] = sid[r]
  BY <1>6 DEF ReleaseEntry, ReleaseDone, ReleaseResp
<1> QED
  BY <1>1, <1>2, <1>3, <1>4, <1>5, <1>6
  DEF Step, GwNext, Arrival, Proxy, Reader, Closer, Peer, ReadFrame, ReadError, GetStream,
     SelectDone, SelectSend, SelectPanic, SelectPark, ReaderCloses, ReaderGone,
     BeginClose, TakeAllStreams, CloseOneDone, CloseOneResp, CloseSocket,
     CloseFinished, LinkDown, PeerSend, PeerReceive, vars, gwVars, reqVars

-----------------------------------------------------------------------------
\* Frames under one identifier, each with a larger body than those before it.
Ordered(s, i) ==
  \A j \in 1..Len(s) : s[j].id = i /\ \A k \in 1..(j - 1) : s[k].body < s[j].body

\* The bodies of the other end's frames are their numbers: everything that has come
\* is older than the frame the reader has, and that older than the one in flight.
OldAndNew ==
  /\ \A r \in Requests : \A j \in 1..Len(Frames(r)) :
       /\ Frames(r)[j].body \in 1..peerSent
       /\ rpc \in Holding => Frames(r)[j].body < rframe.body
       /\ toGw # <<>> => Frames(r)[j].body < peerSent
  /\ rpc \in Holding =>
       rframe.body \in 1..peerSent /\ (toGw # <<>> => rframe.body < peerSent)
  /\ toGw # <<>> => Len(toGw) = 1 /\ toGw[1].body = peerSent /\ peerSent # 0

\* A stream that has been found in the table is that of the frame's identifier.
FoundById ==
  rpc \in {"select", "parked"} => rframe.id = sid[rstream] /\ pc[rstream] \notin Waiting

Order ==
  /\ \A r \in Requests : Ordered(Frames(r), sid[r])
  /\ \A r \in Requests : pc[r] \in Waiting => Frames(r) = <<>>
  /\ FoundById
  /\ OldAndNew

LEMMA OrderedAppend ==
  ASSUME NEW s \in Seq(PeerFrames), NEW f \in PeerFrames, NEW i, Ordered(s, i), f.id = i,
         \A j \in 1..Len(s) : s[j].body < f.body
  PROVE  Ordered(Append(s, f), i)
<1>1. /\ Len(Append(s, f)) = Len(s) + 1 /\ Len(s) \in Nat
      /\ \A j \in 1..Len(s) : Append(s, f)[j] = s[j]
      /\ Append(s, f)[Len(s) + 1] = f
  BY AppendProperties, LenProperties
<1> SUFFICES ASSUME NEW j \in 1..Len(s) + 1
             PROVE  /\ Append(s, f)[j].id = i
                    /\ \A k \in 1..(j - 1) : Append(s, f)[k].body < Append(s, f)[j].body
  BY <1>1 DEF Ordered
<1>2. CASE j \in 1..Len(s)
  BY <1>1, <1>2 DEF Ordered
<1>3. CASE j = Len(s) + 1
  BY <1>1, <1>3
<1> QED
  BY <1>1, <1>2, <1>3

LEMMA EmptyFrames ==
  ASSUME NEW s, s = <<>>, NEW i
  PROVE  Ordered(s, i)
BY DEF Ordered

\* What has come for the requests, before and after a step.
LEMMA AppendedFrames ==
  ASSUME TypeOK, [Step]_vars, NEW r \in Requests, NEW j \in 1..Len(Frames(r)')
  PROVE  \/ j \in 1..Len(Frames(r)) /\ Frames(r)'[j] = Frames(r)[j]
         \/ HandedOver /\ rstream = r /\ Frames(r)'[j] = rframe
<1>1. CASE Frames(r)' = Frames(r)
  BY <1>1
<1>2. CASE HandedOver /\ rstream = r
  <2>1. Frames(r)' = Append(Frames(r), rframe) /\ rframe \in PeerFrames
    BY <1>2 DEF HandedOver, TypeOK, ReadType
  <2>2. Frames(r) \in Seq(PeerFrames) /\ Len(Frames(r)) \in Nat
    BY FramesType, LenProperties
  <2> HIDE DEF Frames
  <2>3. /\ Len(Append(Frames(r), rframe)) = Len(Frames(r)) + 1
        /\ \A k \in 1..Len(Frames(r)) : Append(Frames(r), rframe)[k] = Frames(r)[k]
        /\ Append(Frames(r), rframe)[Len(Frames(r)) + 1] = rframe
    BY <2>1, <2>2, AppendProperties
  <2>4. j \in 1..Len(Frames(r)) \/ j = Len(Frames(r)) + 1
    BY <2>1, <2>2, <2>3
  <2> QED
    BY <1>2, <2>1, <2>3, <2>4
<1> QED
  BY <1>1, <1>2, FramesStep DEF HandedOver

LEMMA OldAndNewStep ==
  ASSUME TypeOK, OldAndNew, [Step]_vars
  PROVE  OldAndNew'
<1> HIDE DEF Frames
<1>0. peerSent \in Nat /\ toGw \in Seq(PeerFrames)
  BY DEF TypeOK, WireType
<1>1. CASE UNCHANGED peerSent /\ ReadFrame
  <2>1. /\ toGw # <<>> /\ toGw' = Tail(toGw) /\ rpc = "read" /\ rpc' \in {"lookup", "exit"}
        /\ rpc' = "lookup" => rframe' = Head(toGw)
        /\ UNCHANGED <<got, queue>>
    BY <1>1 DEF ReadFrame, chanVars, reqVars
  <2>2. Len(toGw) = 1 /\ Head(toGw) = toGw[1] /\ toGw' = <<>>
    <3>1. Len(toGw) = 1 /\ Head(toGw) = toGw[1]
      BY <2>1 DEF OldAndNew
    <3>2. Len(toGw') = 0 /\ toGw' \in Seq(PeerFrames)
      BY <1>0, <2>1, <3>1, HeadTailProperties
    <3> QED
      BY <3>1, <3>2, EmptySeq
  <2>3. \A r \in Requests : Frames(r)' = Frames(r)
    BY <2>1 DEF Frames
  <2> QED
    BY <1>0, <1>1, <2>1, <2>2, <2>3 DEF OldAndNew, Holding
<1>2. CASE \E t \in PeerTypes, i \in Ids : PeerSend(t, i)
  <2>1. /\ toGw = <<>> /\ peerSent' = peerSent + 1
        /\ UNCHANGED <<rpc, rframe, got, queue>>
        /\ \E f : toGw' = Append(toGw, f) /\ f.body = peerSent + 1
    BY <1>2 DEF PeerSend, PeerFrame, gwVars, readVars, chanVars, reqVars
  <2>2. Len(toGw') = 1 /\ toGw'[1].body = peerSent + 1
    BY <2>1
  <2>3. \A r \in Requests : Frames(r)' = Frames(r)
    BY <2>1 DEF Frames
  <2> QED
    BY <1>0, <2>1, <2>2, <2>3 DEF OldAndNew
<1>3. CASE UNCHANGED peerSent /\ (toGw' = toGw \/ toGw' = <<>>) /\ ~ReadFrame
  <2>1. rpc' \in Holding => rpc \in Holding /\ rframe' = rframe
    BY <1>3, ReaderStep DEF Holding, GetStream
  <2>2. ASSUME NEW r \in Requests, NEW j \in 1..Len(Frames(r)')
        PROVE  /\ Frames(r)'[j].body \in 1..peerSent
               /\ rpc' \in Holding => Frames(r)'[j].body < rframe.body
               /\ toGw # <<>> => Frames(r)'[j].body < peerSent
    <3>1. CASE j \in 1..Len(Frames(r)) /\ Frames(r)'[j] = Frames(r)[j]
      BY <2>1, <3>1 DEF OldAndNew
    <3>2. CASE HandedOver /\ Frames(r)'[j] = rframe
      BY <3>2 DEF OldAndNew, HandedOver, Holding
    <3> QED
      BY <3>1, <3>2, AppendedFrames
  <2> QED
    BY <1>3, <2>1, <2>2 DEF OldAndNew
<1> QED
  BY <1>1, <1>2, <1>3, InFlightStep

LEMMA OrderInit == Init => Order
BY EmptyFrames, ConcatEmptySeq DEF Init, GwInit, Order, Frames, FoundById, OldAndNew, Holding, Ordered

LEMMA FoundByIdStep ==
  ASSUME TypeOK, Discipline, FoundById, [Step]_vars
  PROVE  FoundById'
<1> SUFFICES ASSUME rpc' \in {"select", "parked"}
             PROVE  rframe'.id = sid'[rstream'] /\ pc'[rstream'] \notin Waiting
  BY DEF FoundById
<1>1. CASE GetStream
  <2>1. /\ rstream' = Lookup(rframe.id) /\ rstream' # None
        /\ UNCHANGED <<rframe, sid, pc>>
    BY <1>1 DEF GetStream, reqVars
  <2>2. rframe.id \in Ids /\ rstream' = streams[rframe.id]
    BY <2>1 DEF Lookup
  <2> QED
    BY <2>1, <2>2, OfAnEntry DEF Waiting
<1>2. CASE UNCHANGED <<rframe, rstream>> /\ rpc \in {"select", "parked"}
  <2>1. rstream \in Requests /\ rframe.id = sid[rstream] /\ pc[rstream] \notin Waiting
    BY <1>2 DEF FoundById, TypeOK, ReadType
  <2> QED
    BY <1>2, <2>1, RequestStep DEF Waiting
<1> QED
  BY <1>1, <1>2, ReaderStep DEF Holding

LEMMA OrderStep == TypeOK /\ Discipline /\ Order /\ [Step]_vars => Order'
<1> SUFFICES ASSUME TypeOK, Discipline, Order, [Step]_vars PROVE Order'
  OBVIOUS
<1> HIDE DEF Frames
<1>1. OldAndNew' /\ FoundById'
  BY OldAndNewStep, FoundByIdStep DEF Order
<1>2. ASSUME NEW r \in Requests
      PROVE  Ordered(Frames(r)', sid'[r]) /\ (pc'[r] \in Waiting => Frames(r)' = <<>>)
  <2>1. CASE HandedOver /\ rstream = r
    <3>1. /\ Frames(r)' = Append(Frames(r), rframe) /\ rframe \in PeerFrames
          /\ Frames(r) \in Seq(PeerFrames)
      BY <2>1, FramesType DEF HandedOver, TypeOK, ReadType
    <3>2. rframe.id = sid[r] /\ pc[r] \notin Waiting
      BY <2>1 DEF Order, FoundById, HandedOver
    <3>3. \A j \in 1..Len(Frames(r)) : Frames(r)[j].body < rframe.body
      BY <2>1 DEF Order, OldAndNew, HandedOver, Holding
    <3>4. sid'[r] = sid[r] /\ pc'[r] \notin Waiting
      BY <3>2, RequestStep DEF Waiting
    <3> QED
      BY <3>1, <3>2, <3>3, <3>4, OrderedAppend DEF Order
  <2>2. CASE Frames(r)' = Frames(r)
    BY <2>2, RequestStep, EmptyFrames DEF Order, Waiting
  <2> QED
    BY <2>1, <2>2, FramesStep DEF HandedOver
<1> QED
  BY <1>1, <1>2 DEF Order

\* Nothing is lost, repeated or given to another on the way from the reader to the
\* handler of a request: what a request has been given, and what waits for it, carries
\* its identifier and is in the order in which the other end sent it, through parking,
\* hand-over and reuse of identifiers.
THEOREM FramesInOrder == Spec => []DeliveredInOrder
<1>1. Spec => []TypeOK
  BY TypeCorrect
<1>2. Spec => []Discipline
  BY StreamDiscipline, PTL DEF Discipline
<1>3. Order => DeliveredInOrder
  BY DEF Order, Ordered, Frames, DeliveredInOrder
<1> QED
  BY <1>1, <1>2, <1>3, OrderInit, OrderStep, NextIsStep, PTL DEF Spec

-----------------------------------------------------------------------------
\* Until its handler has taken the end of a response, or given up.
Unanswered == {"idle", "spin", "open", "body", "pipe"}

AnswerStarts == {"init", "data"}

Whole(r) ==
  /\ got[r] # <<>> /\ got[r][Len(got[r])].type = "end"
  /\ \A k \in 1..(Len(got[r]) - 1) : got[r][k].type \in AnswerStarts

\* A request that is still being answered has been given nothing that ends a
\* response, and its client no end of one.
Answers ==
  \A r \in Requests :
    /\ resp[r] \in {"complete", "empty"} => Whole(r)
    /\ pc[r] \in Unanswered =>
         /\ resp[r] \in {"none", "started"}
         /\ \A k \in 1..Len(got[r]) : got[r][k].type \in AnswerStarts

\* Only Receive gives a request a frame or completes its response.
LEMMA AnswerStep ==
  ASSUME TypeOK, [Step]_vars, NEW r \in Requests
  PROVE  \/ Receive(r)
         \/ /\ got'[r] = got[r]
            /\ pc'[r] \in Unanswered => pc[r] \in Unanswered /\ resp'[r] = resp[r]
            /\ resp'[r] \in {"complete", "empty"} => resp'[r] = resp[r]
<1> USE DEF TypeOK, ReqType, Unanswered
<1> DEFINE Kept == /\ got'[r] = got[r]
                   /\ pc'[r] \in Unanswered => pc[r] \in Unanswered /\ resp'[r] = resp[r]
                   /\ resp'[r] \in {"complete", "empty"} => resp'[r] = resp[r]
<1>1. CASE UNCHANGED <<pc, resp, got>>
  BY <1>1
<1>2. ASSUME NEW q \in Requests, AllocStream(q) \/ AllocFull(q) PROVE Kept
  BY <1>2 DEF AllocStream, AllocFull
<1>3. ASSUME NEW q \in Requests, SendOpen(q) \/ SendData(q) \/ SendEnd(q) \/ BodyFails(q)
      PROVE  Kept
  BY <1>3 DEF SendOpen, SendData, SendEnd, BodyFails, Fail
<1>4. ASSUME NEW q \in Requests, ReceiveClosed(q) \/ Timeout(q) PROVE Kept
  BY <1>4 DEF ReceiveClosed, Timeout, Fail, chanVars
<1>5. ASSUME NEW q \in Requests, q # r, Receive(q) PROVE Kept
  BY <1>5 DEF Receive, Answer, Fail
<1>6. ASSUME NEW q \in Requests, ReleaseEntry(q) \/ ReleaseDone(q) \/ ReleaseResp(q)
      PROVE  Kept
  BY <1>6 DEF ReleaseEntry, ReleaseDone, ReleaseResp
<1> QED
  BY <1>1, <1>2, <1>3, <1>4, <1>5, <1>6
  DEF Step, GwNext, Arrival, Proxy, Reader, Closer, Peer, ReadFrame, ReadError, GetStream,
     SelectDone, SelectSend, SelectPanic, SelectPark, ReaderCloses, ReaderGone,
     BeginClose, TakeAllStreams, CloseOneDone, CloseOneResp, CloseSocket,
     CloseFinished, LinkDown, PeerSend, PeerReceive, vars, gwVars, reqVars

LEMMA AnswersStep == TypeOK /\ Answers /\ [Step]_vars => Answers'
<1> SUFFICES ASSUME TypeOK, Answers, [Step]_vars, NEW r \in Requests
             PROVE  /\ resp'[r] \in {"complete", "empty"} => Whole(r)'
                    /\ pc'[r] \in Unanswered =>
                         /\ resp'[r] \in {"none", "started"}
                         /\ \A k \in 1..Len(got'[r]) : got'[r][k].type \in AnswerStarts
  BY DEF Answers
<1>1. CASE Receive(r)
  <2> DEFINE f == Head(queue[r])
  <2>1. /\ got'[r] = Append(got[r], f) /\ got[r] \in Seq(PeerFrames) /\ f \in PeerFrames
        /\ Answer(r, f) /\ pc[r] = "pipe" /\ resp[r] \in {"none", "started"}
    BY <1>1, HeadTailType DEF Receive, TypeOK, ReqType, ChanType, Answers, Unanswered
  <2>2. \A k \in 1..Len(got[r]) : got[r][k].type \in AnswerStarts
    BY <1>1 DEF Receive, Answers, Unanswered
  <2> HIDE DEF f
  <2>3. /\ Len(got'[r]) = Len(got[r]) + 1 /\ Len(got[r]) \in Nat /\ got'[r] # <<>>
        /\ \A k \in 1..Len(got[r]) : got'[r][k] = got[r][k]
        /\ got'[r][Len(got[r]) + 1] = f
    BY <2>1, AppendProperties, LenProperties
  <2>4. CASE f.type = "end"
    <3>1. pc'[r] = "release"
      BY <2>1, <2>4 DEF Answer, Fail, TypeOK, ReqType
    <3>2. Whole(r)'
      BY <2>2, <2>3, <2>4 DEF Whole
    <3> QED
      BY <3>1, <3>2 DEF Unanswered
  <2>5. CASE f.type # "end"
    <3>1. /\ resp'[r] \in {"started", "spoiled", "cut", "failed"}
          /\ pc'[r] \in Unanswered => f.type \in AnswerStarts /\ resp'[r] = "started"
      BY <2>1, <2>5 DEF Answer, Fail, TypeOK, ReqType, Unanswered, AnswerStarts
    <3>2. f.type \in AnswerStarts => \A k \in 1..Len(got'[r]) : got'[r][k].type \in AnswerStarts
      BY <2>2, <2>3
    <3> QED
      BY <3>1, <3>2
  <2> QED
    BY <2>4, <2>5
<1>2. CASE ~Receive(r)
  BY <1>2, AnswerStep DEF Answers, Whole
<1> QED
  BY <1>1, <1>2

\* A response counts as complete only on the END of it: whichever way a request
\* ends otherwise, its client is told so.
THEOREM CompleteByEnd == Spec => []CompleteMeansEnd
<1>1. Init => Answers
  BY DEF Init, GwInit, Answers, Whole
<1>2. Answers => CompleteMeansEnd
  BY DEF Answers, Whole, AnswerStarts, CompleteMeansEnd
<1> QED
  BY <1>1, <1>2, AnswersStep, TypeCorrect, NextIsStep, PTL DEF Spec

-----------------------------------------------------------------------------
\* Both ends.

Owner(f)  == f.body[1]
Number(f) == f.body[2]

\* Where a request has not sent its OPEN yet, or not the END of its body.
Unsent    == Waiting \cup {"open"}
Uploading == Unsent \cup {"body"}

\* The tunnel stays up, and a panic leaves everything as it is.
Up ==
  /\ close = "open" /\ link = "up" /\ wsOpen = TRUE /\ rpc \notin {"exit", "gone"}
  /\ crash # "none" => crash = "send on closed channel" /\ rpc = "select"

\* A request that is being served has its entry in the table, and what the CLI does for
\* a request begins when the request has been sent.
Served ==
  \A r \in Requests :
    /\ pc[r] \in Live => streams[sid[r]] = r
    /\ pc[r] \in Waiting => sid[r] = 0 /\ Frames(r) = <<>>
    /\ pc[r] \in Unsent => sent[r] = 0
    /\ call[r] # "none" => pc[r] \notin Uploading /\ callId[r] = sid[r] /\ sid[r] \in Ids
    /\ call[r] \in {"none", "request"} => chunks[r] = 0

\* What has come of a request that is not complete.
Partial == [meta : Requests, chunks : Seq(Requests \X Nat)]

CliType ==
  /\ pending \in [Ids -> {None} \cup Partial]
  /\ call \in [Requests -> {"none", "request", "stream", "over"}]
  /\ callId \in [Requests -> Ids \cup {0}]
  /\ body \in [Requests -> Seq(Requests \X Nat)]
  /\ chunks \in [Requests -> 0..MaxChunks]

ExTypeOK == TypeOK /\ CliType /\ tainted \subseteq Requests

LEMMA GatewayIsStep ==
  GatewayStep => [Step]_vars /\ UNCHANGED <<proxyVars, close, link>> /\ crash = "none"
BY DEF GatewayStep, Step, GwNext

\* What the CLI makes of the first frame in flight.
Handled(f) ==
  /\ toCli # <<>> /\ f = Head(toCli) /\ toCli' = Tail(toCli) /\ toGw' = toGw
  /\ Cli!OnStreamFrame(f)

LEMMA CliCases ==
  ASSUME CliStep
  PROVE  /\ UNCHANGED <<gwVars, peerSent, tainted>> /\ crash = "none"
         /\ \/ Handled(Head(toCli))
            \/ \E r \in Requests, t \in Cli!AnswerTypes :
                 /\ Cli!HandleStream(r, t) /\ toCli' = toCli
                 /\ toGw' = Append(toGw, Cli!AnswerFrame(r, t))
BY DEF CliStep, HandleFrame, HandleStream, Handled

LEMMA AnswerFrameType ==
  ASSUME ExTypeOK, NEW r \in Requests, NEW t \in Cli!AnswerTypes, Cli!HandleStream(r, t)
  PROVE  Cli!AnswerFrame(r, t) \in PeerFrames
<1>1. chunks[r] \in 0..MaxChunks /\ callId[r] \in Ids \cup {0} /\ MaxChunks \in Nat
  BY ExchangeAssumption DEF ExTypeOK, CliType
<1>2. callId[r] \in Nat
  BY <1>1, IdsAreNumbers
<1>3. 0 \in 0..MaxChunks + 1 /\ chunks[r] + 1 \in 0..MaxChunks + 1
  BY <1>1
<1>4. <<r, 0>> \in Bodies /\ <<r, chunks[r] + 1>> \in Bodies
  BY <1>3, ExchangeAssumption
<1>5. t \in FrameTypes
  BY DEF Cli!AnswerTypes, FrameTypes, ResponseTypes
<1> QED
  BY <1>2, <1>4, <1>5 DEF Cli!AnswerFrame, Cli!Frame, PeerFrames

LEMMA HandledType ==
  ASSUME ExTypeOK, NEW f \in GwFrames, f.id \in Ids, Cli!OnStreamFrame(f)
  PROVE  CliType'
<1> USE DEF ExTypeOK, CliType, Cli!callVars
<1> DEFINE i == f.id
           p == pending[i]
<1>1. f.body \in Requests \X Nat /\ f.body[1] \in Requests
  BY DEF GwFrames
<1>2. CASE Cli!OnOpen(f)
  <2>1. [meta |-> f.body[1], chunks |-> <<>>] \in Partial
    BY <1>1 DEF Partial
  <2> QED
    BY <1>2, <2>1 DEF Cli!OnOpen
<1>3. CASE Cli!OnData(f)
  <2>1. p # None => p \in Partial
    OBVIOUS
  <2>2. p # None => Cli!AddChunk(p, f.body) \in Partial
    <3> SUFFICES ASSUME p # None PROVE Cli!AddChunk(p, f.body) \in Partial
      OBVIOUS
    <3>1. Append(p.chunks, f.body) \in Seq(Requests \X Nat)
      BY <1>1, <2>1, AppendType DEF Partial
    <3> HIDE DEF p
    <3> QED
      BY <2>1, <3>1 DEF Cli!AddChunk, Partial
  <2>3. pending' \in [Ids -> {None} \cup Partial]
    BY <1>3, <2>2 DEF Cli!OnData
  <2> QED
    BY <1>3, <2>3 DEF Cli!OnData
<1>4. CASE Cli!OnEnd(f)
  <2>1. pending' = [pending EXCEPT ![i] = None]
    BY <1>4 DEF Cli!OnEnd
  <2>2. CASE p = None
    BY <1>4, <2>1, <2>2 DEF Cli!OnEnd
  <2>3. CASE p # None
    <3>0. p \in Partial
      BY <2>3
    <3>1. p.meta \in Requests /\ p.chunks \in Seq(Requests \X Nat)
      BY <3>0 DEF Partial
    <3>2. /\ call' = [call EXCEPT ![p.meta] = "request"]
          /\ callId' = [callId EXCEPT ![p.meta] = i]
          /\ body' = [body EXCEPT ![p.meta] = p.chunks]
          /\ UNCHANGED chunks
      BY <1>4, <2>3 DEF Cli!OnEnd
    <3> HIDE DEF p
    <3> QED
      BY <2>1, <3>1, <3>2
  <2> QED
    BY <2>2, <2>3
<1>5. CASE Cli!OnRst(f)
  BY <1>5 DEF Cli!OnRst
<1> QED
  BY <1>2, <1>3, <1>4, <1>5 DEF Cli!OnStreamFrame

LEMMA AnsweringType ==
  ASSUME ExTypeOK, NEW r \in Requests, NEW t \in Cli!AnswerTypes, Cli!HandleStream(r, t)
  PROVE  CliType'
<1> USE DEF ExTypeOK, CliType
<1>1. CASE Cli!Chunk(r)
  <2>1. chunks[r] + 1 \in 0..MaxChunks
    BY <1>1, ExchangeAssumption DEF Cli!Chunk
  <2> QED
    BY <1>1, <2>1 DEF Cli!Chunk
<1>2. CASE Cli!Answered(r) \/ Cli!Finished(r) \/ Cli!Failed(r)
  BY <1>2 DEF Cli!Answered, Cli!Finished, Cli!Failed
<1> QED
  BY <1>1, <1>2 DEF Cli!HandleStream

LEMMA ExTypeStep ==
  ASSUME ExTypeOK, ExNext, toCli # <<>> => Head(toCli).id \in Ids
  PROVE  ExTypeOK'
<1>1. CASE GatewayStep
  <2>1. TypeOK'
    BY <1>1, GatewayIsStep, TypeStep DEF ExTypeOK
  <2>2. CliType' /\ tainted' \subseteq Requests
    BY <1>1 DEF GatewayStep, ExTypeOK, CliType, proxyVars
  <2> QED
    BY <2>1, <2>2 DEF ExTypeOK
<1>2. CASE CliStep
  <2>1. UNCHANGED <<gwVars, peerSent, tainted>>
    BY <1>2, CliCases
  <2>2. WireType' => TypeOK'
    BY <2>1 DEF ExTypeOK, TypeOK, gwVars, tableVars, chanVars, reqVars, readVars, closeVars,
       connVars, TableType, ChanType, ReqType, ReadType, CloseType
  <2>3. CASE Handled(Head(toCli))
    <3>1. Head(toCli) \in GwFrames /\ Tail(toCli) \in Seq(GwFrames)
      BY <2>3, HeadTailType DEF Handled, ExTypeOK, TypeOK, WireType
    <3>2. WireType'
      BY <2>1, <2>3, <3>1 DEF Handled, ExTypeOK, TypeOK, WireType
    <3>3. CliType'
      BY <2>3, <3>1, HandledType DEF Handled
    <3> QED
      BY <2>1, <2>2, <3>2, <3>3 DEF ExTypeOK
  <2>4. ASSUME NEW r \in Requests, NEW t \in Cli!AnswerTypes, Cli!HandleStream(r, t),
               toCli' = toCli, toGw' = Append(toGw, Cli!AnswerFrame(r, t))
        PROVE  ExTypeOK'
    <3>1. Cli!AnswerFrame(r, t) \in PeerFrames
      BY <2>4, AnswerFrameType
    <3>2. WireType'
      BY <2>1, <2>4, <3>1, AppendType DEF ExTypeOK, TypeOK, WireType
    <3> QED
      BY <2>1, <2>2, <2>4, <3>2, AnsweringType DEF ExTypeOK
  <2> QED
    BY <1>2, <2>3, <2>4, CliCases
<1> QED
  BY <1>1, <1>2 DEF ExNext

-----------------------------------------------------------------------------
\* How far a request comes in a step.
LEMMA PcStep ==
  ASSUME TypeOK, [Step]_vars, NEW r \in Requests
  PROVE  /\ \/ pc'[r] = pc[r] \/ pc'[r] \notin Uploading
            \/ pc[r] = "idle" /\ pc'[r] \in {"spin", "open"}
            \/ pc[r] = "open" /\ pc'[r] = "body" /\ SendOpen(r)
         /\ pc'[r] \in Live => pc[r] \in Live \/ AllocStream(r)
<1> USE DEF TypeOK, ReqType, Waiting, Unsent, Uploading, Live
<1> DEFINE Goal == /\ \/ pc'[r] = pc[r] \/ pc'[r] \notin Uploading
                      \/ pc[r] = "idle" /\ pc'[r] \in {"spin", "open"}
                      \/ pc[r] = "open" /\ pc'[r] = "body" /\ SendOpen(r)
                   /\ pc'[r] \in Live => pc[r] \in Live \/ AllocStream(r)
<1>1. CASE UNCHANGED pc
  BY <1>1
<1>2. ASSUME NEW q \in Requests, AllocStream(q) PROVE Goal
  BY <1>2 DEF AllocStream
<1>3. ASSUME NEW q \in Requests, AllocFull(q) PROVE Goal
  BY <1>3 DEF AllocFull
<1>4. ASSUME NEW q \in Requests, SendOpen(q) PROVE Goal
  BY <1>4 DEF SendOpen, Fail
<1>5. ASSUME NEW q \in Requests, SendData(q) \/ SendEnd(q) \/ BodyFails(q)
      PROVE  Goal
  BY <1>5 DEF SendData, SendEnd, BodyFails, Fail
<1>6. ASSUME NEW q \in Requests, Receive(q) \/ ReceiveClosed(q) \/ Timeout(q)
      PROVE  Goal
  BY <1>6 DEF Receive, Answer, ReceiveClosed, Timeout, Fail
<1>7. ASSUME NEW q \in Requests, ReleaseEntry(q) \/ ReleaseDone(q) \/ ReleaseResp(q)
      PROVE  Goal
  BY <1>7 DEF ReleaseEntry, ReleaseDone, ReleaseResp
<1> QED
  BY <1>1, <1>2, <1>3, <1>4, <1>5, <1>6, <1>7
  DEF Step, GwNext, Arrival, Proxy, Reader, Closer, Peer, ReadFrame, ReadError, GetStream,
     SelectDone, SelectSend, SelectPanic, SelectPark, ReaderCloses, ReaderGone,
     BeginClose, TakeAllStreams, CloseOneDone, CloseOneResp, CloseSocket,
     CloseFinished, LinkDown, PeerSend, PeerReceive, vars, gwVars, reqVars

\* A frame of request r goes to the CLI, and how many of its body have gone then.
Writes(r, t, n, p) ==
  /\ toCli' = Append(toCli, GwFrame(t, sid[r], r, n))
  /\ sid' = sid /\ streams' = streams
  /\ pc' = [pc EXCEPT ![r] = p] /\ sent' = [sent EXCEPT ![r] = IF t = "data" THEN n ELSE @]

Written(r) ==
  \/ pc[r] = "open" /\ Writes(r, "open", 0, "body")
  \/ pc[r] = "body" /\ Writes(r, "data", sent[r] + 1, "body")
  \/ pc[r] = "body" /\ Writes(r, "end", sent[r] + 1, "pipe")

Silent ==
  /\ UNCHANGED <<toCli, sent>>
  /\ \A r \in Requests : pc'[r] = "body" => pc[r] = "body"

LEMMA WriteCases ==
  ASSUME TypeOK, Up, GatewayStep
  PROVE  Silent \/ \E r \in Requests : Written(r)
<1> USE DEF TypeOK, ReqType, tableVars, Up
<1>0. crash = "none" /\ [Step]_vars
  BY GatewayIsStep
<1>1. ASSUME NEW r \in Requests, SendOpen(r) PROVE Written(r)
  <2>1. Write(GwFrame("open", sid[r], r, 0)) /\ pc' = [pc EXCEPT ![r] = "body"] /\ pc[r] = "open"
        /\ UNCHANGED <<sid, streams, sent>>
    BY <1>1 DEF SendOpen, WriteFails
  <2> QED
    BY <2>1 DEF Write, Written, Writes
<1>2. ASSUME NEW r \in Requests, SendData(r) PROVE Written(r)
  <2>1. Write(GwFrame("data", sid[r], r, sent[r] + 1)) /\ pc' = pc /\ pc[r] = "body"
        /\ UNCHANGED <<sid, streams>> /\ sent' = [sent EXCEPT ![r] = sent[r] + 1]
    BY <1>2 DEF SendData, WriteFails
  <2> QED
    BY <2>1 DEF Write, Written, Writes
<1>3. ASSUME NEW r \in Requests, SendEnd(r) PROVE Written(r)
  <2>1. Write(GwFrame("end", sid[r], r, sent[r] + 1)) /\ pc' = [pc EXCEPT ![r] = "pipe"] /\ pc[r] = "body"
        /\ UNCHANGED <<sid, streams, sent>>
    BY <1>3 DEF SendEnd, WriteFails
  <2> QED
    BY <2>1 DEF Write, Written, Writes
<1>4. CASE UNCHANGED <<toCli, sent>> /\ \A r \in Requests : ~SendOpen(r)
  <2>1. \A r \in Requests : pc'[r] = "body" => pc[r] = "body"
    BY <1>0, <1>4, PcStep DEF Uploading, Unsent, Waiting
  <2> QED
    BY <1>4, <2>1 DEF Silent
<1> QED
  BY <1>1, <1>2, <1>3, <1>4
  DEF GatewayStep, GwNext, Arrival, Proxy, Reader, Closer, AllocStream, AllocFull,
     BodyFails, Receive, ReceiveClosed, Timeout, ReleaseEntry, ReleaseDone, ReleaseResp,
     ReadFrame, ReadError, GetStream, SelectDone, SelectSend, SelectPanic, SelectPark,
     ReaderCloses, ReaderGone, BeginClose, TakeAllStreams, CloseOneDone, CloseOneResp,
     CloseSocket, CloseFinished, LinkDown, wireVars, reqVars

\* While the tunnel is up the table changes only for a request that comes or goes.
LEMMA EntryCases ==
  ASSUME Up, GatewayStep
  PROVE  \/ UNCHANGED <<streams, sid>>
         \/ \E r \in Requests : AllocStream(r) \/ (ReleaseEntry(r) /\ UNCHANGED sid)
<1>1. ASSUME NEW r \in Requests, ReleaseEntry(r) PROVE UNCHANGED sid
  BY <1>1 DEF ReleaseEntry
<1> QED
  BY <1>1
  DEF Up, GatewayStep, GwNext, Arrival, Proxy, Reader, Closer, AllocFull, SendOpen, SendData, SendEnd,
     BodyFails, Receive, ReceiveClosed, Timeout, ReleaseDone, ReleaseResp,
     ReadFrame, ReadError, GetStream, SelectDone, SelectSend, SelectPanic, SelectPark,
     ReaderCloses, ReaderGone, BeginClose, TakeAllStreams, CloseOneDone, CloseOneResp,
     CloseSocket, CloseFinished, LinkDown, tableVars, reqVars

LEMMA UpStep ==
  ASSUME Up, NeverClosedTwice', ExNext, CloseType',
         toGw # <<>> => Head(toGw).type \in ResponseTypes
  PROVE  Up'
<1>1. CASE CliStep
  BY <1>1, CliCases DEF Up, gwVars, closeVars, connVars, readVars
<1>2. CASE GatewayStep
  <2>1. close' = "open" /\ link' = "up" /\ crash = "none"
    BY <1>2 DEF Up, GatewayStep, GwNext
  <2>2. wsOpen' = TRUE
    BY <1>2, <2>1 DEF Up, GatewayStep, GwNext, Arrival, Proxy, Reader, Closer, AllocStream, AllocFull,
       SendOpen, SendData, SendEnd, BodyFails, Receive, ReceiveClosed, Timeout, ReleaseEntry,
       ReleaseDone, ReleaseResp, ReadFrame, ReadError, GetStream, SelectDone, SelectSend,
       SelectPanic, SelectPark, ReaderCloses, ReaderGone, BeginClose, TakeAllStreams,
       CloseOneDone, CloseOneResp, CloseSocket, CloseFinished, LinkDown, connVars
  <2>3. rpc' \notin {"exit", "gone"}
    <3>1. CASE ReadFrame
      BY <3>1 DEF ReadFrame
    <3>2. CASE UNCHANGED rpc \/ rpc' \in {"read", "select", "parked"}
      BY <3>2 DEF Up
    <3> QED
      BY <1>2, <2>1, <3>1, <3>2 DEF Up, GatewayStep, GwNext, Arrival, Proxy, Reader, Closer, AllocStream, AllocFull,
         SendOpen, SendData, SendEnd, BodyFails, Receive, Resumed, ReceiveClosed, Timeout, ReleaseEntry,
         ReleaseDone, ReleaseResp, CloseDone, ReadError, GetStream, SelectDone, SelectSend,
         SelectPanic, SelectPark, ReaderCloses, ReaderGone, BeginClose, TakeAllStreams,
         CloseOneDone, CloseOneResp, CloseSocket, CloseFinished, LinkDown, readVars
  <2>4. crash' # "none" => crash' = "send on closed channel"
    BY DEF CloseType, NeverClosedTwice
  <2>5. crash' = "send on closed channel" => rpc' = "select"
    <3>1. CASE SelectPanic
      BY <3>1 DEF SelectPanic, readVars
    <3>2. CASE crash' # "send on closed channel"
      BY <3>2
    <3> QED
      BY <1>2, <2>1, <3>1, <3>2 DEF Up, GatewayStep, GwNext, Arrival, Proxy, Reader, Closer, AllocStream, AllocFull,
         SendOpen, SendData, SendEnd, BodyFails, Receive, ReceiveClosed, Timeout, ReleaseEntry,
         ReleaseDone, ReleaseResp, CloseDone, CloseResp, ReadFrame, ReadError, GetStream, SelectDone, SelectSend,
         SelectPark, ReaderCloses, ReaderGone, BeginClose, TakeAllStreams,
         CloseOneDone, CloseOneResp, CloseSocket, CloseFinished, LinkDown
  <2> QED
    BY <2>1, <2>2, <2>3, <2>4, <2>5 DEF Up
<1> QED
  BY <1>1, <1>2 DEF ExNext

\* The gateway's part in it.
LEMMA ServedByGateway ==
  ASSUME ExTypeOK, Up, Discipline, FoundById, Served, GatewayStep
  PROVE  Served'
<1>0. TypeOK /\ [Step]_vars /\ UNCHANGED <<pending, call, callId, body, chunks>>
  BY GatewayIsStep DEF ExTypeOK, proxyVars
<1>1. \A r \in Requests : pc'[r] \in Live => streams'[sid'[r]] = r
  <2>1. CASE UNCHANGED <<streams, sid>>
    <3>0. \A r \in Requests : ~AllocStream(r)
      BY <1>0, <2>1, ConstantsAssumption DEF AllocStream, NearestFree, Taken, TypeOK, TableType
    <3>1. \A r \in Requests : pc'[r] \in Live => pc[r] \in Live
      BY <1>0, <3>0, PcStep
    <3> QED
      BY <2>1, <3>1 DEF Served
  <2>2. ASSUME NEW q \in Requests, AllocStream(q)
        PROVE  \A r \in Requests : pc'[r] \in Live => streams'[sid'[r]] = r
    <3>1. PICK i \in Ids : /\ streams[i] = None /\ streams' = [streams EXCEPT ![i] = q]
                           /\ sid' = [sid EXCEPT ![q] = i]
      BY <2>2 DEF AllocStream, NearestFree, Taken
    <3>2. \A r \in Requests \ {q} : pc'[r] = pc[r] /\ sid'[r] = sid[r]
      BY <1>0, <2>2, <3>1 DEF AllocStream, TypeOK, ReqType
    <3>3. ASSUME NEW r \in Requests \ {q}, pc[r] \in Live PROVE streams'[sid[r]] = r
      <4>1. streams[sid[r]] = r /\ sid[r] \in Ids /\ r # None
        BY <1>0, <3>3, ConstantsAssumption DEF Served, TypeOK, ReqType
      <4> QED
        BY <1>0, <3>1, <4>1 DEF TypeOK, TableType
    <3>4. streams'[sid'[q]] = q
      BY <1>0, <3>1 DEF TypeOK, TableType, ReqType
    <3> QED
      BY <3>2, <3>3, <3>4
  <2>3. ASSUME NEW q \in Requests, ReleaseEntry(q)
        PROVE  \A r \in Requests : pc'[r] \in Live => streams'[sid'[r]] = r
    <3>1. /\ pc[q] = "release" /\ sid' = sid /\ streams' = [streams EXCEPT ![sid[q]] = None]
          /\ pc'[q] \notin Live /\ \A r \in Requests \ {q} : pc'[r] = pc[r]
      BY <1>0, <2>3 DEF ReleaseEntry, TypeOK, ReqType, Live
    <3>2. streams[sid[q]] = q
      BY <3>1 DEF Served, Live
    <3>3. ASSUME NEW r \in Requests \ {q}, pc[r] \in Live PROVE streams'[sid[r]] = r
      <4>1. streams[sid[r]] = r /\ sid[r] \in Ids
        BY <1>0, <3>3 DEF Served, TypeOK, ReqType
      <4> QED
        BY <1>0, <3>1, <3>2, <4>1 DEF TypeOK, TableType
    <3> QED
      BY <3>1, <3>3
  <2> QED
    BY <2>1, <2>2, <2>3, EntryCases
<1>2. \A r \in Requests : pc'[r] \in Waiting => sid'[r] = 0 /\ Frames(r)' = <<>>
  <2> SUFFICES ASSUME NEW r \in Requests, pc'[r] \in Waiting
               PROVE  sid'[r] = 0 /\ Frames(r)' = <<>>
    OBVIOUS
  <2> HIDE DEF Frames
  <2>1. pc[r] \in Waiting /\ sid'[r] = sid[r]
    BY <1>0, RequestStep DEF Waiting
  <2>2. ~(HandedOver /\ rstream = r)
    BY <2>1 DEF HandedOver, FoundById
  <2> QED
    BY <1>0, <2>1, <2>2, FramesStep DEF Served, HandedOver
<1>3. \A r \in Requests : pc'[r] \in Unsent => sent'[r] = 0
  <2> SUFFICES ASSUME NEW r \in Requests, pc'[r] \in Unsent PROVE sent'[r] = 0
    OBVIOUS
  <2>1. pc[r] \in Unsent
    BY <1>0, PcStep DEF Unsent, Uploading, Waiting
  <2>2. CASE Silent
    BY <2>1, <2>2 DEF Silent, Served
  <2>3. ASSUME NEW q \in Requests, Written(q) PROVE sent'[r] = 0
    <3>1. q # r
      BY <1>0, <2>3 DEF Written, Writes, TypeOK, ReqType, Unsent, Waiting
    <3> QED
      BY <1>0, <2>1, <2>3, <3>1 DEF Written, Writes, TypeOK, ReqType, Served
  <2> QED
    BY <1>0, <2>2, <2>3, WriteCases
<1>4. \A r \in Requests : call[r] # "none" => pc'[r] \notin Uploading /\ sid'[r] = sid[r]
  <2> SUFFICES ASSUME NEW r \in Requests, call[r] # "none" PROVE pc'[r] \notin Uploading /\ sid'[r] = sid[r]
    OBVIOUS
  <2>1. pc[r] \notin Uploading
    BY DEF Served
  <2> QED
    BY <1>0, <2>1, PcStep, RequestStep DEF Uploading, Unsent, Waiting
<1> QED
  BY <1>0, <1>1, <1>2, <1>3, <1>4 DEF Served

\* The first m chunks of the body of request r.
Numbered(r, m) == [n \in 1..m |-> <<r, n>>]

\* Position k of the frames to the CLI comes right after number n of request r under i:
\* the last frame before it under i is that one, or it has been handled as the last.
Follows(k, i, r, n) ==
  \/ \E j \in 1..(k - 1) :
       /\ toCli[j].id = i /\ toCli[j].body = <<r, n>> /\ toCli[j].type # "end"
       /\ \A m \in (j + 1)..(k - 1) : toCli[m].id # i
  \/ /\ \A m \in 1..(k - 1) : toCli[m].id # i
     /\ pending[i] # None /\ pending[i].meta = r /\ Len(pending[i].chunks) = n

\* A frame of a request that has come this far, and that the CLI has not begun with.
Sent(f) ==
  /\ f.id \in Ids /\ f.id = sid[Owner(f)]
  /\ call[Owner(f)] = "none" /\ pc[Owner(f)] \notin Unsent
  /\ \/ f.type = "open" /\ Number(f) = 0
     \/ f.type = "data" /\ Number(f) \in 1..sent[Owner(f)]
     \/ f.type = "end" /\ Number(f) = sent[Owner(f)] + 1 /\ pc[Owner(f)] \notin Uploading

\* The frame at a position of those on their way to the CLI.
At(k, f) == k \in 1..Len(toCli) /\ toCli[k] = f

\* The frames of its owner that are ahead of it come earlier in the request.
InTurn(k, f) ==
  \A j \in 1..(k - 1) : Owner(toCli[j]) = Owner(f) => Number(toCli[j]) < Number(f)

\* Request r has sent n chunks of its body under i, and the next frame comes at k.
Goes(k, i, r, n) == pc[r] = "body" /\ i = sid[r] /\ n = sent[r] /\ k = Len(toCli) + 1

\* What the CLI has of a request that it has not been sent the end of.
Begun(i, p) ==
  /\ sid[p.meta] = i /\ call[p.meta] = "none" /\ pc[p.meta] \notin Unsent
  /\ p.chunks = Numbered(p.meta, Len(p.chunks))

Upload ==
  /\ \A k \in Nat, f \in GwFrames : At(k, f) =>
       /\ Sent(f) /\ InTurn(k, f)
       /\ f.type # "open" => Follows(k, f.id, Owner(f), Number(f) - 1)
  /\ \A k \in Nat, i \in Ids, r \in Requests, n \in Nat :
       Goes(k, i, r, n) => Follows(k, i, r, n)
  /\ \A i \in Ids, p \in Partial : pending[i] = p => Begun(i, p)

LEMMA NumberedLen ==
  ASSUME NEW r \in Requests, NEW m \in Nat
  PROVE  Numbered(r, m) \in Seq(Requests \X Nat) /\ Len(Numbered(r, m)) = m
BY DEF Numbered

LEMMA NumberedAppend ==
  ASSUME NEW r \in Requests, NEW m \in Nat,
         NEW s, s = Numbered(r, m), NEW e, e = <<r, m + 1>>
  PROVE  Append(s, e) = Numbered(r, m + 1)
<1>1. m + 1 \in Nat /\ e \in Requests \X Nat
  OBVIOUS
<1>2. s \in Seq(Requests \X Nat) /\ Len(s) = m
  BY NumberedLen
<1>3. Numbered(r, m + 1) \in Seq(Requests \X Nat) /\ Len(Numbered(r, m + 1)) = m + 1
  BY <1>1, NumberedLen
<1>4. /\ Append(s, e) \in Seq(Requests \X Nat) /\ Len(Append(s, e)) = m + 1
      /\ \A k \in 1..m : Append(s, e)[k] = s[k]
      /\ Append(s, e)[m + 1] = e
  BY <1>1, <1>2, AppendProperties
<1>5. \A k \in 1..m : s[k] = <<r, k>>
  BY DEF Numbered
<1>6. \A k \in 1..(m + 1) : Numbered(r, m + 1)[k] = <<r, k>>
  BY DEF Numbered
<1>7. \A k \in 1..(m + 1) : k \in 1..m \/ k = m + 1
  OBVIOUS
<1>8. \A k \in 1..(m + 1) : Append(s, e)[k] = Numbered(r, m + 1)[k]
  BY <1>4, <1>5, <1>6, <1>7
<1> QED
  BY <1>3, <1>4, <1>8, SeqEqual

\* What Append and Tail do to the frames in flight, position by position.
LEMMA Appended ==
  ASSUME NEW S, NEW s \in Seq(S), NEW f \in S
  PROVE  /\ Len(s) \in Nat /\ Append(s, f) \in Seq(S) /\ Len(Append(s, f)) = Len(s) + 1
         /\ \A m \in 1..Len(s) : Append(s, f)[m] = s[m] /\ s[m] \in S
         /\ Append(s, f)[Len(s) + 1] = f
BY AppendProperties, LenProperties, ElementOfSeq

LEMMA Shifted ==
  ASSUME NEW S, NEW s \in Seq(S), s # <<>>
  PROVE  /\ Len(s) \in Nat /\ Len(s) >= 1 /\ Len(Tail(s)) = Len(s) - 1 /\ Tail(s) \in Seq(S)
         /\ Head(s) = s[1] /\ s[1] \in S
         /\ \A m \in 1..(Len(s) - 1) : Tail(s)[m] = s[m + 1] /\ m + 1 \in 1..Len(s)
<1>1. Len(s) \in Nat /\ Len(s) # 0
  BY LenProperties, EmptySeq
<1>2. /\ Len(Tail(s)) = Len(s) - 1 /\ Tail(s) \in Seq(S) /\ Head(s) = s[1]
      /\ \A m \in 1..Len(Tail(s)) : Tail(s)[m] = s[m + 1]
  BY HeadTailProperties
<1>3. s[1] \in S
  BY <1>1, ElementOfSeq
<1> QED
  BY <1>1, <1>2, <1>3

LEMMA FollowsKept ==
  ASSUME WireType, NEW f \in GwFrames, toCli' = Append(toCli, f), pending' = pending,
         NEW k \in 1..(Len(toCli) + 1), NEW i, NEW r, NEW n, Follows(k, i, r, n)
  PROVE  Follows(k, i, r, n)'
<1>1. Len(toCli) \in Nat /\ \A m \in 1..Len(toCli) : toCli'[m] = toCli[m]
  BY Appended DEF WireType
<1>2. \A m \in 1..(k - 1) : m \in 1..Len(toCli)
  BY <1>1
<1>3. \A j \in 1..(k - 1) : \A m \in (j + 1)..(k - 1) : m \in 1..(k - 1)
  BY <1>1
<1> QED
  BY <1>1, <1>2, <1>3 DEF Follows

LEMMA FollowsNext ==
  ASSUME WireType, NEW f \in GwFrames, toCli' = Append(toCli, f), pending' = pending,
         NEW k, k = Len(toCli) + 2, NEW i, NEW r, NEW n,
         \/ f.id = i /\ f.body = <<r, n>> /\ f.type # "end"
         \/ f.id # i /\ Follows(Len(toCli) + 1, i, r, n)
  PROVE  Follows(k, i, r, n)'
<1> DEFINE len == Len(toCli)
<1>1. /\ len \in Nat /\ \A m \in 1..len : toCli'[m] = toCli[m]
      /\ toCli'[len + 1] = f
  BY Appended DEF WireType
<1>2. k = len + 2
  OBVIOUS
<1> HIDE DEF len
<1>3. len + 1 \in 1..(k - 1) /\ \A m \in ((len + 1) + 1)..(k - 1) : FALSE
  BY <1>1, <1>2
<1>4. \A m \in 1..(k - 1) : (m \in 1..((len + 1) - 1) /\ m \in 1..len) \/ m = len + 1
  BY <1>1, <1>2
<1>5. CASE f.id = i /\ f.body = <<r, n>> /\ f.type # "end"
  <2>1. \E j \in 1..(k - 1) :
       /\ toCli'[j].id = i /\ toCli'[j].body = <<r, n>> /\ toCli'[j].type # "end"
       /\ \A m \in (j + 1)..(k - 1) : toCli'[m].id # i
    BY <1>1, <1>3, <1>5
  <2> QED
    BY <2>1 DEF Follows
<1>6. CASE f.id # i /\ \A m \in 1..((len + 1) - 1) : toCli[m].id # i
  <2>1. \A m \in 1..(k - 1) : toCli'[m].id # i
    BY <1>1, <1>4, <1>6
  <2>2. \A j \in 1..((len + 1) - 1) : j \in 1..len
    BY <1>1
  <2>3. pending[i] # None /\ pending[i].meta = r /\ Len(pending[i].chunks) = n
    BY <1>6, <2>2 DEF Follows, len
  <2> QED
    BY <2>1, <2>3 DEF Follows
<1>7. CASE f.id # i /\ \E j \in 1..((len + 1) - 1) :
       /\ toCli[j].id = i /\ toCli[j].body = <<r, n>> /\ toCli[j].type # "end"
       /\ \A m \in (j + 1)..((len + 1) - 1) : toCli[m].id # i
  <2>1. PICK j \in 1..((len + 1) - 1) :
       /\ toCli[j].id = i /\ toCli[j].body = <<r, n>> /\ toCli[j].type # "end"
       /\ \A m \in (j + 1)..((len + 1) - 1) : toCli[m].id # i
    BY <1>7
  <2>2. /\ j \in 1..len /\ j \in 1..(k - 1)
        /\ \A m \in (j + 1)..(k - 1) : (m \in (j + 1)..((len + 1) - 1) /\ m \in 1..len) \/ m = len + 1
    BY <1>1, <1>2
  <2>3. toCli'[j] = toCli[j] /\ \A m \in (j + 1)..(k - 1) : toCli'[m].id # i
    BY <1>1, <1>7, <2>1, <2>2
  <2> QED
    BY <2>1, <2>2, <2>3 DEF Follows
<1> QED
  BY <1>5, <1>6, <1>7 DEF Follows, len

\* The first frame is handled: what followed it follows what it leaves in pendingStreams.
LEMMA FollowsShifted ==
  ASSUME WireType, toCli # <<>>, toCli' = Tail(toCli),
         NEW k \in 2..(Len(toCli) + 1), NEW i, NEW r, NEW n, Follows(k, i, r, n),
         Head(toCli).id # i => pending'[i] = pending[i],
         Head(toCli).id = i /\ Head(toCli).body = <<r, n>> /\ Head(toCli).type # "end" =>
           pending'[i] # None /\ pending'[i].meta = r /\ Len(pending'[i].chunks) = n,
         NEW l, l = k - 1
  PROVE  Follows(l, i, r, n)'
<1> DEFINE len == Len(toCli)
<1>1. /\ len \in Nat /\ Head(toCli) = toCli[1]
      /\ \A m \in 1..(len - 1) : toCli'[m] = toCli[m + 1]
  BY Shifted DEF WireType
<1>2. k \in 2..(len + 1)
  OBVIOUS
<1> HIDE DEF len
<1>3. \A m \in 1..(l - 1) : m \in 1..(len - 1) /\ m + 1 \in 1..(k - 1) /\ m + 1 \in 2..(k - 1)
  BY <1>1, <1>2
<1>4. CASE \A m \in 1..(k - 1) : toCli[m].id # i
  <2>1. \A m \in 1..(l - 1) : toCli'[m].id # i
    BY <1>1, <1>3, <1>4
  <2>2. 1 \in 1..(k - 1)
    BY <1>1, <1>2
  <2>3. Head(toCli).id # i /\ pending[i] # None /\ pending[i].meta = r /\ Len(pending[i].chunks) = n
    BY <1>1, <1>4, <2>2 DEF Follows
  <2> QED
    BY <2>1, <2>3 DEF Follows
<1>5. ASSUME NEW j \in 1..(k - 1),
             toCli[j].id = i, toCli[j].body = <<r, n>>, toCli[j].type # "end",
             \A m \in (j + 1)..(k - 1) : toCli[m].id # i
      PROVE  Follows(l, i, r, n)'
  <2>1. CASE j = 1
    <3>1. \A m \in 1..(l - 1) : toCli'[m].id # i
      BY <1>1, <1>3, <1>5, <2>1
    <3>2. Head(toCli).id = i /\ Head(toCli).body = <<r, n>> /\ Head(toCli).type # "end"
      BY <1>1, <1>5, <2>1
    <3> QED
      BY <3>1, <3>2 DEF Follows
  <2>2. CASE j # 1
    <3> DEFINE h == j - 1
    <3>a. len \in Nat /\ k \in 2..(len + 1) /\ l = k - 1 /\ j \in 1..(k - 1) /\ h = j - 1 /\ j # 1
      BY <1>1, <1>2, <2>2
    <3> HIDE DEF h
    <3>1. /\ h \in 1..(l - 1) /\ h \in 1..(len - 1) /\ h + 1 = j
          /\ \A m \in (h + 1)..(l - 1) : m \in 1..(len - 1) /\ m + 1 \in (j + 1)..(k - 1)
      BY <3>a
    <3>2. /\ toCli'[h] = toCli[j]
          /\ \A m \in (h + 1)..(l - 1) : toCli'[m].id # i
      BY <1>1, <1>5, <3>1
    <3>3. \E g \in 1..(l - 1) :
            /\ toCli'[g].id = i /\ toCli'[g].body = <<r, n>> /\ toCli'[g].type # "end"
            /\ \A m \in (g + 1)..(l - 1) : toCli'[m].id # i
      BY <1>5, <3>1, <3>2
    <3> QED
      BY <3>3 DEF Follows
  <2> QED
    BY <2>1, <2>2
<1> QED
  BY <1>4, <1>5 DEF Follows

\* What a step of the gateway leaves of a request's upload.
LEMMA UploadMoves ==
  ASSUME ExTypeOK, Up, GatewayStep, NEW r \in Requests
  PROVE  /\ pc[r] \notin Unsent => pc'[r] \notin Unsent /\ sid'[r] = sid[r]
         /\ pc[r] \notin Uploading => pc'[r] \notin Uploading /\ sent'[r] = sent[r]
         /\ sent[r] \in Nat /\ sent'[r] \in Nat /\ sent[r] <= sent'[r]
         /\ pc'[r] = "body" => sid'[r] = sid[r]
<1>1. TypeOK /\ [Step]_vars /\ sent \in [Requests -> Nat]
  BY GatewayIsStep, ConstantsAssumption DEF ExTypeOK, TypeOK, ReqType
<1>2. /\ pc[r] \notin Unsent => pc'[r] \notin Unsent /\ sid'[r] = sid[r]
      /\ pc[r] \notin Uploading => pc'[r] \notin Uploading
      /\ pc'[r] = "body" => sid'[r] = sid[r]
  BY <1>1, PcStep, RequestStep DEF Unsent, Uploading, Waiting
<1>3. CASE Silent
  BY <1>1, <1>2, <1>3 DEF Silent
<1>4. ASSUME NEW q \in Requests, Written(q)
      PROVE  /\ pc[r] \notin Uploading => sent'[r] = sent[r]
             /\ sent'[r] \in Nat /\ sent[r] <= sent'[r]
  <2>1. pc[q] \in Uploading /\ (sent' = sent \/ sent' = [sent EXCEPT ![q] = sent[q] + 1])
    BY <1>1, <1>4 DEF Written, Writes, Uploading, Unsent
  <2> QED
    BY <1>1, <2>1
<1> QED
  BY <1>1, <1>2, <1>3, <1>4, WriteCases

LEMMA SentKept ==
  ASSUME ExTypeOK, Up, GatewayStep, NEW f \in GwFrames, Sent(f)
  PROVE  Sent(f)'
<1>1. Owner(f) \in Requests /\ Number(f) \in Nat
  BY DEF GwFrames, Owner, Number
<1>2. call' = call
  BY DEF GatewayStep, proxyVars
<1> DEFINE r == Owner(f)
           n == Number(f)
<1>3. /\ f.id \in Ids /\ f.id = sid[r]
      /\ call[r] = "none" /\ pc[r] \notin Unsent
      /\ \/ f.type = "open" /\ n = 0
         \/ f.type = "data" /\ n \in 1..sent[r]
         \/ f.type = "end" /\ n = sent[r] + 1 /\ pc[r] \notin Uploading
  BY DEF Sent
<1> HIDE DEF r, n
<1>4. n \in 1..sent[r] => n \in 1..sent'[r]
  BY <1>1, UploadMoves DEF r
<1>5. /\ f.id = sid'[r]
      /\ call'[r] = "none" /\ pc'[r] \notin Unsent
      /\ \/ f.type = "open" /\ n = 0
         \/ f.type = "data" /\ n \in 1..sent'[r]
         \/ f.type = "end" /\ n = sent'[r] + 1 /\ pc'[r] \notin Uploading
  BY <1>1, <1>2, <1>3, <1>4, UploadMoves DEF r
<1> QED
  BY <1>3, <1>5 DEF Sent, r, n

\* What has begun at the CLI, and what is in flight, when nothing is sent.
LEMMA UploadSilent ==
  ASSUME ExTypeOK, Up, Upload, GatewayStep, Silent
  PROVE  Upload'
<1>1. UNCHANGED <<toCli, pending, call, sent>>
  BY DEF GatewayStep, proxyVars, Silent
<1>2. \A k, i, r, n : Follows(k, i, r, n) => Follows(k, i, r, n)'
  BY <1>1 DEF Follows
<1>3. \A k \in Nat, f \in GwFrames : At(k, f)' => At(k, f)
  BY <1>1 DEF At
<1>4. \A k \in Nat, f \in GwFrames : InTurn(k, f) => InTurn(k, f)'
  BY <1>1 DEF InTurn
<1>5. \A k \in Nat, i \in Ids, r \in Requests, n \in Nat : Goes(k, i, r, n)' => Goes(k, i, r, n)
  BY <1>1, UploadMoves DEF Goes, Silent
<1>6. ASSUME NEW i \in Ids, NEW p \in Partial, pending'[i] = p PROVE Begun(i, p)'
  <2>1. Begun(i, p) /\ p.meta \in Requests
    BY <1>1, <1>6 DEF Upload, Partial
  <2> QED
    BY <1>1, <2>1, UploadMoves DEF Begun
<1> QED
  BY <1>2, <1>3, <1>4, <1>5, <1>6, SentKept DEF Upload

\* A frame of request r is sent.
LEMMA UploadWritten ==
  ASSUME ExTypeOK, Up, Served, Upload, GatewayStep, NEW r \in Requests, Written(r)
  PROVE  Upload'
<1> USE DEF ExTypeOK
<1>1. UNCHANGED <<pending, call, body>> /\ WireType
  BY DEF GatewayStep, proxyVars, TypeOK
<1>2. PICK t \in {"open", "data", "end"}, n \in Nat :
        /\ toCli' = Append(toCli, GwFrame(t, sid[r], r, n))
        /\ sid' = sid /\ pc[r] \in {"open", "body"}
        /\ \A q \in Requests \ {r} : pc'[q] = pc[q] /\ sent'[q] = sent[q]
        /\ \/ t = "open" /\ n = 0 /\ sent' = sent /\ pc[r] = "open" /\ pc'[r] = "body"
           \/ t = "data" /\ n = sent[r] + 1 /\ sent'[r] = n /\ pc[r] = "body" /\ pc'[r] = "body"
           \/ t = "end" /\ n = sent[r] + 1 /\ sent'[r] = sent[r] /\ pc[r] = "body" /\ pc'[r] = "pipe"
  <2>1. sent[r] + 1 \in Nat /\ 0 \in Nat
    BY UploadMoves
  <2> USE DEF TypeOK, ReqType
  <2>2. CASE pc[r] = "open" /\ Writes(r, "open", 0, "body")
    BY <2>1, <2>2 DEF Writes
  <2>3. CASE pc[r] = "body" /\ Writes(r, "data", sent[r] + 1, "body")
    BY <2>1, <2>3 DEF Writes
  <2>4. CASE pc[r] = "body" /\ Writes(r, "end", sent[r] + 1, "pipe")
    BY <2>1, <2>4 DEF Writes
  <2> QED
    BY <2>2, <2>3, <2>4 DEF Written
<1>3. PICK f0 : f0 = GwFrame(t, sid[r], r, n)
  OBVIOUS
<1>4. /\ sid[r] \in Ids /\ streams[sid[r]] = r /\ call[r] = "none"
      /\ sent[r] \in Nat /\ sent'[r] \in Nat
  BY <1>2, UploadMoves DEF Served, TypeOK, ReqType, Live, Uploading, Unsent
<1>5. /\ f0 \in GwFrames /\ f0.type = t /\ f0.id = sid[r] /\ f0.body = <<r, n>>
      /\ Owner(f0) = r /\ Number(f0) = n
  BY <1>2, <1>3, <1>4, GwFrameType DEF GwFrame, TypeOK, ReqType, FrameTypes, ResponseTypes, Owner, Number
<1>6. /\ Len(toCli) \in Nat /\ Len(toCli') = Len(toCli) + 1
      /\ \A m \in 1..Len(toCli) : toCli'[m] = toCli[m] /\ toCli[m] \in GwFrames
      /\ toCli'[Len(toCli) + 1] = f0 /\ toCli' = Append(toCli, f0)
  BY <1>1, <1>2, <1>3, <1>5, Appended DEF WireType
<1>7. ASSUME NEW k \in Nat, NEW f \in GwFrames, At(k, f)'
      PROVE  /\ Sent(f)' /\ InTurn(k, f)'
             /\ f.type # "open" => Follows(k, f.id, Owner(f), Number(f) - 1)'
  <2>1. k \in 1..Len(toCli) \/ k = Len(toCli) + 1
    BY <1>6, <1>7 DEF At
  <2>2. \A j \in 1..(k - 1) : j \in 1..Len(toCli)
    BY <1>6, <2>1
  <2>3. CASE k \in 1..Len(toCli)
    <3>1. At(k, f)
      BY <1>6, <1>7, <2>3 DEF At
    <3>2. /\ Sent(f) /\ InTurn(k, f)
          /\ f.type # "open" => Follows(k, f.id, Owner(f), Number(f) - 1)
      BY <3>1 DEF Upload
    <3>3. InTurn(k, f)'
      BY <1>6, <2>2, <3>2 DEF InTurn
    <3>4. k \in 1..(Len(toCli) + 1)
      BY <1>6, <2>3
    <3> QED
      BY <1>1, <1>5, <1>6, <3>2, <3>3, <3>4, SentKept, FollowsKept
  <2>4. CASE k = Len(toCli) + 1
    <3>1. f = f0
      BY <1>6, <1>7, <2>4 DEF At
    <3>2. Sent(f)'
      <4>1. call'[r] = "none" /\ pc'[r] \notin Unsent /\ f.id = sid'[r]
        BY <1>1, <1>2, <1>4, <1>5, <3>1 DEF Unsent, Waiting
      <4>2. \/ f.type = "open" /\ n = 0
            \/ f.type = "data" /\ n \in 1..sent'[r]
            \/ f.type = "end" /\ n = sent'[r] + 1 /\ pc'[r] \notin Uploading
        BY <1>2, <1>4, <1>5, <3>1 DEF Uploading, Unsent, Waiting
      <4> QED
        BY <1>4, <1>5, <3>1, <4>1, <4>2 DEF Sent
    <3>3. InTurn(k, f)'
      <4> SUFFICES ASSUME NEW j \in 1..(k - 1), Owner(toCli[j]) = r
                   PROVE  Number(toCli[j]) < n
        BY <1>5, <1>6, <2>2, <3>1 DEF InTurn
      <4>1. j \in Nat /\ j \in 1..Len(toCli) /\ toCli[j] \in GwFrames
        BY <1>6, <2>2
      <4>2. PICK g \in GwFrames : g = toCli[j]
        BY <4>1
      <4>3. Sent(g) /\ Owner(g) = r
        BY <4>1, <4>2 DEF Upload, At
      <4>4. pc[r] = "body" /\ n = sent[r] + 1 /\ ((g.type = "open" /\ Number(g) = 0) \/ Number(g) \in 1..sent[r])
        BY <1>2, <4>3 DEF Sent, Uploading, Unsent, Waiting
      <4> QED
        BY <1>4, <4>2, <4>4
    <3>4. ASSUME f.type # "open" PROVE Follows(k, f.id, Owner(f), Number(f) - 1)'
      <4>1. pc[r] = "body" /\ n - 1 = sent[r] /\ n - 1 \in Nat
        BY <1>2, <1>4, <1>5, <3>1, <3>4
      <4>2. Goes(k, f.id, r, n - 1)
        BY <1>5, <2>4, <3>1, <4>1 DEF Goes
      <4>3. Follows(k, f.id, r, n - 1)
        BY <1>4, <1>5, <3>1, <4>1, <4>2 DEF Upload
      <4>4. k \in 1..(Len(toCli) + 1)
        BY <1>6, <2>4
      <4> QED
        BY <1>1, <1>5, <1>6, <3>1, <4>3, <4>4, FollowsKept
    <3> QED
      BY <3>2, <3>3, <3>4
  <2> QED
    BY <2>1, <2>3, <2>4
<1>8. ASSUME NEW k \in Nat, NEW i \in Ids, NEW q \in Requests, NEW m \in Nat, Goes(k, i, q, m)'
      PROVE  Follows(k, i, q, m)'
  <2>1. k = Len(toCli) + 2 /\ i = sid[q] /\ pc'[q] = "body" /\ m = sent'[q]
    BY <1>2, <1>6, <1>8 DEF Goes
  <2>2. \/ f0.id = i /\ f0.body = <<q, m>> /\ f0.type # "end"
        \/ f0.id # i /\ Follows(Len(toCli) + 1, i, q, m)
    <3>1. CASE q = r
      <4>1. i = sid[r] /\ m = sent'[r] /\ (pc[r] = "open" => sent[r] = 0)
        BY <2>1, <3>1 DEF Served, Unsent
      <4>2. t # "end" /\ n = m
        BY <1>2, <2>1, <3>1, <4>1
      <4> QED
        BY <1>5, <3>1, <4>1, <4>2
    <3>2. CASE q # r
      <4>1. pc[q] = "body" /\ m = sent[q] /\ sid[q] # sid[r]
        BY <1>2, <1>4, <2>1, <3>2 DEF Served, Live
      <4>2. PICK l \in Nat : l = Len(toCli) + 1
        BY <1>6
      <4>3. Goes(l, i, q, m)
        BY <2>1, <4>1, <4>2 DEF Goes
      <4>4. Follows(l, i, q, m)
        BY <4>3 DEF Upload
      <4> QED
        BY <1>5, <2>1, <4>1, <4>2, <4>4
    <3> QED
      BY <3>1, <3>2
  <2> QED
    BY <1>1, <1>5, <1>6, <2>1, <2>2, FollowsNext
<1>9. ASSUME NEW i \in Ids, NEW p \in Partial, pending'[i] = p PROVE Begun(i, p)'
  <2>1. Begun(i, p) /\ p.meta \in Requests
    BY <1>1, <1>9 DEF Upload, Partial
  <2> QED
    BY <1>1, <2>1, UploadMoves DEF Begun
<1> QED
  BY <1>7, <1>8, <1>9 DEF Upload

\* The local server's side of a request has been given its whole body.
UploadDone == \A r \in Requests : call[r] # "none" => body[r] = Numbered(r, sent[r])

\* What a frame of request r, number n, does at the CLI when the upload is in order.
Takes(f, r, n) ==
  \/ /\ f.type = "open" /\ n = 0
     /\ pending' = [pending EXCEPT ![f.id] = [meta |-> r, chunks |-> Numbered(r, n)]]
     /\ UNCHANGED <<call, callId, body>>
  \/ /\ f.type = "data" /\ n # 0
     /\ pending' = [pending EXCEPT ![f.id] = [meta |-> r, chunks |-> Numbered(r, n)]]
     /\ UNCHANGED <<call, callId, body>>
  \/ /\ f.type = "end" /\ n = sent[r] + 1 /\ pc[r] \notin Uploading
     /\ pending' = [pending EXCEPT ![f.id] = None]
     /\ call' = [call EXCEPT ![r] = "request"] /\ callId' = [callId EXCEPT ![r] = f.id]
     /\ body' = [body EXCEPT ![r] = Numbered(r, sent[r])]

LEMMA UploadTaken ==
  ASSUME ExTypeOK, Upload, NEW f \in GwFrames, Handled(f), NEW r, r = Owner(f), NEW n, n = Number(f)
  PROVE  /\ Sent(f) /\ InTurn(1, f) /\ r \in Requests /\ n \in Nat /\ f.body = <<r, n>>
         /\ Takes(f, r, n) /\ chunks' = chunks
<1> USE DEF ExTypeOK, CliType
<1>1. At(1, f)
  BY Shifted DEF At, Handled, TypeOK, WireType
<1>2. /\ Sent(f) /\ InTurn(1, f)
      /\ f.type # "open" => Follows(1, f.id, r, n - 1)
  BY <1>1 DEF Upload
<1>3. r \in Requests /\ n \in Nat /\ f.body = <<r, n>>
  BY DEF GwFrames, Owner, Number
<1>4. /\ f.id \in Ids
      /\ \/ f.type = "open" /\ n = 0
         \/ f.type = "data" /\ n \in 1..sent[r]
         \/ f.type = "end" /\ n = sent[r] + 1 /\ pc[r] \notin Uploading
  BY <1>2 DEF Sent
<1>5. CASE f.type = "open"
  <2>1. Cli!OnOpen(f)
    BY <1>5 DEF Handled, Cli!OnStreamFrame, Cli!OnData, Cli!OnEnd, Cli!OnRst
  <2>2. Numbered(r, 0) = <<>>
    BY <1>3, NumberedLen, EmptySeq
  <2>3. n = 0 /\ f.body[1] = r
    BY <1>4, <1>5 DEF Owner
  <2>4. /\ pending' = [pending EXCEPT ![f.id] = [meta |-> r, chunks |-> Numbered(r, n)]]
        /\ UNCHANGED <<call, callId, body, chunks>>
    BY <2>1, <2>2, <2>3 DEF Cli!OnOpen, Cli!callVars
  <2> QED
    BY <1>2, <1>3, <1>5, <2>3, <2>4 DEF Takes
<1>6. ASSUME f.type # "open"
      PROVE  \E p \in Partial : /\ pending[f.id] = p /\ p # None /\ p.meta = r
                                /\ p.chunks = Numbered(r, n - 1) /\ n - 1 \in Nat
  <2>1. Follows(1, f.id, r, n - 1) /\ n - 1 \in Nat
    <3>1. sent[r] \in Nat
      BY <1>3, ConstantsAssumption DEF TypeOK, ReqType
    <3> QED
      BY <1>2, <1>3, <1>4, <1>6, <3>1
  <2>2. pending[f.id] # None /\ pending[f.id].meta = r /\ Len(pending[f.id].chunks) = n - 1
    BY <2>1 DEF Follows
  <2>3. PICK p \in Partial : pending[f.id] = p
    BY <1>4, <2>2
  <2>4. p.chunks = Numbered(r, n - 1)
    BY <1>4, <2>2, <2>3 DEF Upload, Begun
  <2> QED
    BY <2>1, <2>2, <2>3, <2>4
<1>7. CASE f.type = "data"
  <2>1. Cli!OnData(f)
    BY <1>7 DEF Handled, Cli!OnStreamFrame, Cli!OnOpen, Cli!OnEnd, Cli!OnRst
  <2>2. PICK p \in Partial : /\ pending[f.id] = p /\ p # None /\ p.meta = r
                             /\ p.chunks = Numbered(r, n - 1) /\ n - 1 \in Nat
    BY <1>6, <1>7
  <2>3. Append(p.chunks, f.body) = Numbered(r, n)
    <3>1. PICK m \in Nat : m = n - 1 /\ m + 1 = n
      BY <1>3, <2>2
    <3>2. p.chunks = Numbered(r, m) /\ f.body = <<r, m + 1>>
      BY <1>3, <2>2, <3>1
    <3>3. Append(p.chunks, f.body) = Numbered(r, m + 1)
      BY <1>3, <3>2, NumberedAppend
    <3> QED
      BY <3>1, <3>3
  <2>4. Cli!AddChunk(p, f.body) = [meta |-> r, chunks |-> Numbered(r, n)]
    <3>1. Cli!AddChunk(p, f.body) = [p EXCEPT !.chunks = Append(p.chunks, f.body)]
      BY DEF Cli!AddChunk
    <3> QED
      BY <2>2, <2>3, <3>1 DEF Partial
  <2>5. pending' = [pending EXCEPT ![f.id] = [meta |-> r, chunks |-> Numbered(r, n)]]
    BY <2>1, <2>2, <2>4 DEF Cli!OnData
  <2>6. n # 0
    BY <1>4, <1>7
  <2> QED
    BY <1>2, <1>3, <1>7, <2>1, <2>5, <2>6 DEF Cli!OnData, Cli!callVars, Takes
<1>8. CASE f.type = "end"
  <2>1. Cli!OnEnd(f)
    BY <1>8 DEF Handled, Cli!OnStreamFrame, Cli!OnOpen, Cli!OnData, Cli!OnRst
  <2>2. PICK p \in Partial : /\ pending[f.id] = p /\ p # None /\ p.meta = r
                             /\ p.chunks = Numbered(r, n - 1)
    BY <1>6, <1>8
  <2>3. n - 1 = sent[r] /\ n = sent[r] + 1
    <3>1. sent[r] \in Nat
      BY <1>3, ConstantsAssumption DEF TypeOK, ReqType
    <3> QED
      BY <1>4, <1>8, <3>1
  <2>4. /\ pending' = [pending EXCEPT ![f.id] = None]
        /\ call' = [call EXCEPT ![p.meta] = "request"]
        /\ callId' = [callId EXCEPT ![p.meta] = f.id]
        /\ body' = [body EXCEPT ![p.meta] = p.chunks]
        /\ UNCHANGED chunks
    BY <2>1, <2>2 DEF Cli!OnEnd
  <2> QED
    BY <1>2, <1>3, <1>4, <1>8, <2>2, <2>3, <2>4 DEF Takes
<1> QED
  BY <1>4, <1>5, <1>7, <1>8

\* What the CLI's steps leave of the gateway.
LEMMA GatewayRests ==
  ASSUME CliStep
  PROVE  UNCHANGED <<streams, sid, pc, sent, got, queue, resp, rpc, rframe, rstream, doneClosed, respClosed, tainted, crash>>
BY CliCases DEF gwVars, tableVars, chanVars, reqVars, readVars

\* The CLI handles a frame.
LEMMA UploadHandled ==
  ASSUME ExTypeOK, Upload, UploadDone, Served, CliStep, NEW f \in GwFrames, Handled(f)
  PROVE  Upload' /\ UploadDone' /\ Served'
<1> USE DEF ExTypeOK, CliType
<1> DEFINE r == Owner(f)
           n == Number(f)
<1>1. /\ Sent(f) /\ InTurn(1, f) /\ r \in Requests /\ n \in Nat /\ f.body = <<r, n>>
      /\ Takes(f, r, n) /\ chunks' = chunks
  BY UploadTaken
<1>2. /\ UNCHANGED <<streams, sid, pc, sent, got, queue>>
      /\ sid \in [Requests -> Ids \cup {0}] /\ sent \in [Requests -> Nat]
  BY GatewayRests, ConstantsAssumption DEF TypeOK, ReqType
<1>3. WireType /\ toCli # <<>> /\ Head(toCli) = f /\ toCli' = Tail(toCli) /\ Head(toCli) = f
  BY DEF Handled, TypeOK
<1>4. /\ Len(toCli) \in Nat /\ Len(toCli) >= 1 /\ Len(toCli') = Len(toCli) - 1
      /\ f = toCli[1]
      /\ \A m \in 1..(Len(toCli) - 1) : toCli'[m] = toCli[m + 1] /\ m + 1 \in 1..Len(toCli)
  BY <1>3, Shifted DEF WireType
<1>5. /\ f.id \in Ids /\ f.id = sid[r] /\ call[r] = "none" /\ pc[r] \notin Unsent
      /\ f.type \in {"open", "data", "end"}
  BY <1>1 DEF Sent
<1> DEFINE P == [meta |-> r, chunks |-> Numbered(r, n)]
<1>6. /\ Numbered(r, n) \in Seq(Requests \X Nat) /\ Len(Numbered(r, n)) = n
      /\ P \in Partial /\ P # None /\ P.meta = r /\ P.chunks = Numbered(r, n)
  <2>1. Numbered(r, n) \in Seq(Requests \X Nat) /\ Len(Numbered(r, n)) = n
    BY <1>1, NumberedLen
  <2>2. P \in Partial
    BY <1>1, <2>1 DEF Partial
  <2> QED
    BY <2>1, <2>2, ExchangeAssumption DEF Partial
<1> HIDE DEF r, n, P
<1>7. /\ \/ f.type # "end" /\ pending' = [pending EXCEPT ![f.id] = P] /\ UNCHANGED <<call, callId, body>>
         \/ /\ f.type = "end" /\ n = sent[r] + 1 /\ pc[r] \notin Uploading
            /\ pending' = [pending EXCEPT ![f.id] = None]
            /\ call' = [call EXCEPT ![r] = "request"] /\ callId' = [callId EXCEPT ![r] = f.id]
            /\ body' = [body EXCEPT ![r] = Numbered(r, sent[r])]
  BY <1>1 DEF Takes, P
<1>8. \A q \in Requests : q # r \/ f.type # "end" => call'[q] = call[q]
  BY <1>7
<1>9. ASSUME NEW k \in Nat, NEW g \in GwFrames, At(k, g)'
      PROVE  /\ At(k + 1, g) /\ k + 1 \in 2..(Len(toCli) + 1) /\ k >= 1
             /\ Sent(g) /\ InTurn(k + 1, g)
             /\ g.type # "open" => Follows(k + 1, g.id, Owner(g), Number(g) - 1)
             /\ Owner(g) \in Requests /\ Number(g) \in Nat
             /\ Owner(g) = r => Number(g) > n
  <2>1. k \in 1..(Len(toCli) - 1) /\ toCli'[k] = g
    BY <1>4, <1>9 DEF At
  <2>2. At(k + 1, g) /\ k + 1 \in 2..(Len(toCli) + 1) /\ k + 1 \in Nat /\ k >= 1 /\ 1 \in 1..((k + 1) - 1)
    BY <1>4, <2>1 DEF At
  <2>3. /\ Sent(g) /\ InTurn(k + 1, g)
        /\ g.type # "open" => Follows(k + 1, g.id, Owner(g), Number(g) - 1)
    BY <2>2 DEF Upload
  <2>4. Owner(g) \in Requests /\ Number(g) \in Nat
    BY DEF GwFrames, Owner, Number
  <2>5. Owner(g) = r => Number(g) > n
    <3>1. Owner(toCli[1]) = Owner(g) => Number(toCli[1]) < Number(g)
      BY <2>2, <2>3 DEF InTurn
    <3>2. Owner(toCli[1]) = r /\ Number(toCli[1]) = n
      BY <1>4 DEF r, n
    <3> QED
      BY <1>1, <2>4, <3>1, <3>2
  <2> QED
    BY <2>2, <2>3, <2>4, <2>5
<1>10. ASSUME NEW k \in Nat, k \in 2..(Len(toCli) + 1), NEW i \in Ids, NEW q, NEW m, Follows(k, i, q, m)
       PROVE  \A l : l = k - 1 => Follows(l, i, q, m)'
  <2>1. Head(toCli).id # i => pending'[i] = pending[i]
    BY <1>3, <1>5, <1>7
  <2>2. Head(toCli).id = i /\ Head(toCli).body = <<q, m>> /\ Head(toCli).type # "end" =>
          pending'[i] # None /\ pending'[i].meta = q /\ Len(pending'[i].chunks) = m
    <3> SUFFICES ASSUME f.id = i, f.body = <<q, m>>, f.type # "end"
                 PROVE  pending'[i] # None /\ pending'[i].meta = q /\ Len(pending'[i].chunks) = m
      BY <1>3
    <3>1. q = r /\ m = n
      BY <1>1
    <3>2. pending'[i] = P
      BY <1>5, <1>7
    <3> QED
      BY <1>6, <3>1, <3>2
  <2> QED
    BY <1>3, <1>10, <2>1, <2>2, FollowsShifted
<1>11. ASSUME NEW k \in Nat, NEW g \in GwFrames, At(k, g)'
       PROVE  /\ Sent(g)' /\ InTurn(k, g)'
              /\ g.type # "open" => Follows(k, g.id, Owner(g), Number(g) - 1)'
  <2>1. /\ At(k + 1, g) /\ k + 1 \in 2..(Len(toCli) + 1) /\ k >= 1
        /\ Sent(g) /\ InTurn(k + 1, g)
        /\ g.type # "open" => Follows(k + 1, g.id, Owner(g), Number(g) - 1)
        /\ Owner(g) \in Requests /\ Number(g) \in Nat
        /\ Owner(g) = r => Number(g) > n
    BY <1>9, <1>11
  <2>2. call'[Owner(g)] = "none"
    <3>1. CASE Owner(g) # r \/ f.type # "end"
      BY <1>8, <2>1, <3>1 DEF Sent
    <3>2. CASE Owner(g) = r /\ f.type = "end"
      <4>1. Number(g) <= sent[r] + 1
        BY <1>1, <1>2, <2>1, <3>2 DEF Sent, r
      <4> QED
        BY <1>1, <1>2, <1>7, <2>1, <3>2, <4>1
    <3> QED
      BY <3>1, <3>2
  <2>3. Sent(g)'
    BY <1>2, <2>1, <2>2 DEF Sent
  <2>4. InTurn(k, g)'
    <3> SUFFICES ASSUME NEW j \in 1..(k - 1), Owner(toCli'[j]) = Owner(g)
                 PROVE  Number(toCli'[j]) < Number(g)
      BY DEF InTurn
    <3>1. j + 1 \in 1..((k + 1) - 1) /\ j \in 1..(Len(toCli) - 1)
      BY <1>4, <2>1
    <3> QED
      BY <1>4, <2>1, <3>1 DEF InTurn
  <2>5. k + 1 \in Nat /\ k = (k + 1) - 1
    OBVIOUS
  <2> QED
    BY <1>10, <2>1, <2>3, <2>4, <2>5 DEF Sent
<1>12. ASSUME NEW k \in Nat, NEW i \in Ids, NEW q \in Requests, NEW m \in Nat, Goes(k, i, q, m)'
       PROVE  Follows(k, i, q, m)'
  <2>1. Goes(k + 1, i, q, m) /\ k + 1 \in 2..(Len(toCli) + 1) /\ k + 1 \in Nat /\ k = (k + 1) - 1
    BY <1>2, <1>4, <1>12 DEF Goes
  <2>2. Follows(k + 1, i, q, m)
    BY <2>1 DEF Upload
  <2> QED
    BY <1>10, <2>1, <2>2
<1>13. ASSUME NEW i \in Ids, NEW p \in Partial, pending'[i] = p PROVE Begun(i, p)'
  <2>0. p \in Partial /\ p # None /\ p.meta \in Requests
    BY ExchangeAssumption DEF Partial
  <2>1. CASE i = f.id
    <3>1. f.type # "end" /\ p = P
      BY <1>5, <1>7, <1>13, <2>0, <2>1
    <3>2. call'[r] = "none"
      BY <1>1, <1>5, <1>8, <3>1 DEF r
    <3> QED
      BY <1>2, <1>5, <1>6, <2>1, <3>1, <3>2 DEF Begun
  <2>2. CASE i # f.id
    <3>1. pending[i] = p
      BY <1>7, <1>13, <2>2
    <3>2. Begun(i, p)
      BY <3>1 DEF Upload
    <3>3. call'[p.meta] = "none"
      BY <1>5, <1>8, <2>0, <2>2, <3>2 DEF Begun
    <3> QED
      BY <1>2, <3>2, <3>3 DEF Begun
  <2> QED
    BY <2>1, <2>2
<1>14. Upload'
  BY <1>11, <1>12, <1>13 DEF Upload
<1>15. UploadDone'
  <2> SUFFICES ASSUME NEW q \in Requests, call'[q] # "none" PROVE body'[q] = Numbered(q, sent[q])
    BY <1>2 DEF UploadDone, Numbered
  <2>1. CASE q = r /\ f.type = "end"
    BY <1>7, <2>1
  <2>2. CASE q # r \/ f.type # "end"
    BY <1>7, <2>2 DEF UploadDone
  <2> QED
    BY <2>1, <2>2
<1>16. Served'
  <2>1. \A q \in Requests : (q # r \/ f.type # "end") => call'[q] = call[q] /\ callId'[q] = callId[q]
    BY <1>7
  <2>2. f.type = "end" => call'[r] = "request" /\ callId'[r] = sid[r] /\ pc[r] \notin Uploading
    BY <1>1, <1>5, <1>7 DEF r
  <2>3. chunks' = chunks /\ r \in Requests
    BY <1>1
  <2>4. \A q \in Requests : Frames(q)' = Frames(q)
    BY <1>2 DEF Frames
  <2>5. \A q \in Requests : /\ call'[q] # "none" => pc[q] \notin Uploading /\ callId'[q] = sid[q] /\ sid[q] \in Ids
                            /\ call'[q] \in {"none", "request"} => chunks[q] = 0
    BY <1>5, <2>1, <2>2, <2>3 DEF Served
  <2> QED
    BY <1>2, <2>3, <2>4, <2>5 DEF Served
<1> QED
  BY <1>14, <1>15, <1>16

\* handleStream sends a frame of the response to request r.
AnswersOne(r, t) ==
  /\ Cli!HandleStream(r, t) /\ toCli' = toCli
  /\ toGw' = Append(toGw, Cli!AnswerFrame(r, t))

\* A call of handleStream and the chunks it has sent, where the step is not its own.
CallRests(r) == call'[r] = call[r] /\ chunks'[r] = chunks[r]

\* What one step of handleStream does, and the number of the frame it sends.
LEMMA AnswersOneCases ==
  ASSUME ExTypeOK, NEW r \in Requests, NEW t \in Cli!AnswerTypes, AnswersOne(r, t)
  PROVE  /\ UNCHANGED <<pending, callId, body>>
         /\ \A q \in Requests \ {r} : CallRests(q)
         /\ \/ t = "init" /\ call[r] = "request" /\ call'[r] = "stream" /\ chunks'[r] = chunks[r]
            \/ t = "data" /\ call[r] = "stream" /\ call'[r] = "stream" /\ chunks'[r] = chunks[r] + 1
            \/ t = "end" /\ call[r] = "stream" /\ call'[r] = "over" /\ chunks'[r] = chunks[r]
            \/ t = "rst" /\ call[r] \in {"request", "stream"} /\ call'[r] = "over" /\ chunks'[r] = chunks[r]
<1> USE DEF ExTypeOK, CliType, CallRests, AnswersOne
<1>1. CASE t = "init" /\ Cli!Answered(r)
  BY <1>1 DEF Cli!Answered
<1>2. CASE t = "data" /\ Cli!Chunk(r)
  BY <1>2 DEF Cli!Chunk
<1>3. CASE t = "end" /\ Cli!Finished(r)
  BY <1>3 DEF Cli!Finished
<1>4. CASE t = "rst" /\ Cli!Failed(r)
  BY <1>4 DEF Cli!Failed
<1> QED
  BY <1>1, <1>2, <1>3, <1>4 DEF Cli!HandleStream

\* The frames to the CLI and what it has of requests are not touched by an answer.
LEMMA UploadAnswering ==
  ASSUME ExTypeOK, Upload, UploadDone, Served, CliStep,
         NEW r \in Requests, NEW t \in Cli!AnswerTypes, AnswersOne(r, t)
  PROVE  Upload' /\ UploadDone' /\ Served'
<1>1. UNCHANGED <<streams, sid, pc, sent, got, queue, toCli, pending, callId, body>>
  BY GatewayRests, AnswersOneCases DEF AnswersOne
<1>2. \A q \in Requests : /\ call[q] = "none" => call'[q] = "none"
                          /\ call'[q] # "none" => call[q] # "none"
                          /\ call'[q] \in {"none", "request"} => CallRests(q)
  BY AnswersOneCases DEF CallRests
<1>3. \A k \in Nat, f \in GwFrames : At(k, f)' => At(k, f)
  BY <1>1 DEF At
<1>4. ASSUME NEW f \in GwFrames, Sent(f) PROVE Sent(f)'
  <2>1. Owner(f) \in Requests
    BY DEF GwFrames, Owner
  <2> QED
    BY <1>1, <1>2, <1>4, <2>1 DEF Sent
<1>5. \A k \in Nat, f \in GwFrames : InTurn(k, f) => InTurn(k, f)'
  BY <1>1 DEF InTurn
<1>6. \A k, i, q, n : Follows(k, i, q, n) => Follows(k, i, q, n)'
  BY <1>1 DEF Follows
<1>7. \A k \in Nat, i \in Ids, q \in Requests, n \in Nat : Goes(k, i, q, n)' => Goes(k, i, q, n)
  BY <1>1 DEF Goes
<1>8. ASSUME NEW i \in Ids, NEW p \in Partial, pending'[i] = p PROVE Begun(i, p)'
  <2>1. Begun(i, p) /\ p.meta \in Requests
    BY <1>1, <1>8 DEF Upload, Partial
  <2> QED
    BY <1>1, <1>2, <2>1 DEF Begun
<1>9. Upload'
  BY <1>3, <1>4, <1>5, <1>6, <1>7, <1>8 DEF Upload
<1>10. UploadDone'
  BY <1>1, <1>2 DEF UploadDone, Numbered
<1>11. Served'
  <2>1. \A q \in Requests : Frames(q)' = Frames(q)
    BY <1>1 DEF Frames
  <2> QED
    BY <1>1, <1>2, <2>1 DEF Served, CallRests
<1> QED
  BY <1>9, <1>10, <1>11

LEMMA CliSteps ==
  ASSUME ExTypeOK, CliStep
  PROVE  \/ \E f \in GwFrames : Handled(f)
         \/ \E r \in Requests, t \in Cli!AnswerTypes : AnswersOne(r, t)
<1>1. CASE Handled(Head(toCli))
  <2>1. Head(toCli) \in GwFrames
    BY <1>1, HeadTailType DEF Handled, ExTypeOK, TypeOK, WireType
  <2> QED
    BY <1>1, <2>1
<1> QED
  BY <1>1, CliCases DEF AnswersOne

\* The local server's side of a request begins with the whole of its body.
LEMMA UploadStep ==
  ASSUME ExTypeOK, Up, Discipline, FoundById, Served, Upload, UploadDone, ExNext
  PROVE  Served' /\ Upload' /\ UploadDone'
<1>1. CASE GatewayStep
  <2>1. Served'
    BY <1>1, ServedByGateway
  <2>2. Upload'
    BY <1>1, WriteCases, UploadSilent, UploadWritten DEF ExTypeOK
  <2>3. UploadDone'
    <3> SUFFICES ASSUME NEW r \in Requests, call'[r] # "none"
                 PROVE  body'[r] = Numbered(r, sent'[r])
      BY DEF UploadDone, Numbered
    <3>1. UNCHANGED <<call, body>>
      BY <1>1 DEF GatewayStep, proxyVars
    <3>2. pc[r] \notin Uploading
      BY <3>1 DEF Served
    <3>3. sent'[r] = sent[r]
      BY <1>1, <3>2, UploadMoves
    <3> QED
      BY <3>1, <3>3 DEF UploadDone
  <2> QED
    BY <2>1, <2>2, <2>3
<1>2. CASE CliStep
  BY <1>2, CliSteps, UploadHandled, UploadAnswering
<1> QED
  BY <1>1, <1>2 DEF ExNext

\* What has been established of requests on their way to the local server.
UploadInv == ExTypeOK /\ Up /\ Discipline /\ FoundById /\ Served /\ Upload /\ UploadDone

-----------------------------------------------------------------------------
-----------------------------------------------------------------------------
\* The way back.  The frames that end a response:
Endings == {"end", "rst"}

\* A frame that the CLI has sent of the response to its owner.
Answered(f) ==
  /\ Owner(f) \in Requests /\ f.id = sid[Owner(f)]
  /\ call[Owner(f)] \in {"stream", "over"}
  /\ \/ f.type = "init" /\ Number(f) = 0
     \/ f.type = "data" /\ Number(f) \in 1..chunks[Owner(f)]
     \/ /\ f.type \in Endings /\ Number(f) = chunks[Owner(f)] + 1
        /\ call[Owner(f)] = "over"

\* The frame at a position of those on their way to the gateway, and of those that a
\* request has been given.
Coming(k, f)   == k \in 1..Len(toGw) /\ toGw[k] = f
Given(r, k, f) == k \in 1..Len(Frames(r)) /\ Frames(r)[k] = f

\* The frames of its owner that are ahead of it come earlier in the response.
InOrder(k, f) ==
  \A j \in 1..(k - 1) : Owner(toGw[j]) = Owner(f) =>
    toGw[j].type \notin Endings /\ Number(toGw[j]) < Number(f)

NoneComing(r) == \A k \in 1..Len(toGw) : Owner(toGw[k]) # r

Answering ==
  /\ \A k \in Nat, f \in PeerFrames : Coming(k, f) => Answered(f) /\ InOrder(k, f)
  /\ \A f \in PeerFrames : rpc \in Holding /\ rframe = f =>
       Answered(f) /\ (f.type \in Endings => NoneComing(Owner(f)))
  /\ \A r \in Requests, k \in Nat, f \in PeerFrames : Given(r, k, f) => Answered(f)

LEMMA CallStep ==
  ASSUME UploadInv, ExNext, NEW r \in Requests
  PROVE  /\ call[r] \in {"stream", "over"} => call'[r] \in {"stream", "over"}
         /\ call[r] = "over" => call'[r] = "over" /\ chunks'[r] = chunks[r]
         /\ chunks[r] \in Nat /\ chunks'[r] \in Nat /\ chunks[r] <= chunks'[r]
         /\ call[r] # "none" => sid'[r] = sid[r]
<1> USE DEF UploadInv
<1>1. chunks[r] \in Nat /\ call \in [Requests -> {"none", "request", "stream", "over"}]
  BY ExchangeAssumption DEF ExTypeOK, CliType
<1>2. CASE GatewayStep
  <2>1. UNCHANGED <<call, chunks>>
    BY <1>2 DEF GatewayStep, proxyVars
  <2>2. call[r] # "none" => pc[r] \notin Unsent
    BY DEF Served, Uploading
  <2> QED
    BY <1>1, <1>2, <2>1, <2>2, UploadMoves
<1>3. ASSUME CliStep, NEW f \in GwFrames, Handled(f)
      PROVE  /\ chunks' = chunks /\ sid' = sid
             /\ call[r] # "none" => call'[r] = call[r]
  <2>1. PICK q, n : q = Owner(f) /\ n = Number(f)
    OBVIOUS
  <2>2. q \in Requests /\ Takes(f, q, n) /\ chunks' = chunks /\ call[q] = "none"
    BY <1>3, <2>1, UploadTaken DEF Sent
  <2> QED
    BY <1>1, <1>3, <2>2, GatewayRests DEF Takes
<1>4. ASSUME CliStep, NEW q \in Requests, NEW t \in Cli!AnswerTypes, AnswersOne(q, t)
      PROVE  /\ sid' = sid
             /\ call[r] \in {"stream", "over"} => call'[r] \in {"stream", "over"}
             /\ call[r] = "over" => call'[r] = "over" /\ chunks'[r] = chunks[r]
             /\ chunks'[r] \in Nat /\ chunks[r] <= chunks'[r]
  <2>1. /\ \A p \in Requests \ {q} : CallRests(p)
        /\ call[q] # "over" /\ call'[q] \in {"stream", "over"}
        /\ chunks'[q] = chunks[q] \/ chunks'[q] = chunks[q] + 1
    BY <1>4, AnswersOneCases
  <2> QED
    BY <1>1, <1>4, <2>1, GatewayRests DEF CallRests
<1> QED
  BY <1>1, <1>2, <1>3, <1>4, CliSteps DEF ExNext

LEMMA AnsweredKept ==
  ASSUME UploadInv, ExNext, NEW f, Answered(f)
  PROVE  Answered(f)'
<1> DEFINE r == Owner(f)
           n == Number(f)
<1>1. /\ r \in Requests /\ f.id = sid[r] /\ call[r] \in {"stream", "over"}
      /\ \/ f.type = "init" /\ n = 0
         \/ f.type = "data" /\ n \in 1..chunks[r]
         \/ f.type \in Endings /\ n = chunks[r] + 1 /\ call[r] = "over"
  BY DEF Answered
<1> HIDE DEF r, n
<1>2. n \in 1..chunks[r] => n \in 1..chunks'[r]
  BY <1>1, CallStep
<1>3. /\ f.id = sid'[r] /\ call'[r] \in {"stream", "over"}
      /\ \/ f.type = "init" /\ n = 0
         \/ f.type = "data" /\ n \in 1..chunks'[r]
         \/ f.type \in Endings /\ n = chunks'[r] + 1 /\ call'[r] = "over"
  BY <1>1, <1>2, CallStep
<1> QED
  BY <1>1, <1>3 DEF Answered, r, n

-----------------------------------------------------------------------------
\* What a step of the gateway does with the frames that come.
SameFrames == \A r \in Requests : Frames(r)' = Frames(r)

Reads ==
  /\ rpc = "read" /\ toGw # <<>> /\ toGw' = Tail(toGw)
  /\ rpc' = "lookup" /\ rframe' = Head(toGw)

Finds ==
  /\ rpc = "lookup" /\ rpc' = "select" /\ UNCHANGED <<rframe, streams, sid>>
  /\ rframe.id \in Ids /\ rstream' = streams[rframe.id]

Keeps ==
  /\ UNCHANGED <<rframe, rstream>>
  /\ rpc' = rpc \/ (rpc = "select" /\ rpc' = "parked")

LEMMA ComingStep ==
  ASSUME Up, GatewayStep
  PROVE  toGw' = toGw \/ ReadFrame
<1>1. ASSUME NEW r \in Requests, SendOpen(r) \/ SendData(r) \/ SendEnd(r)
      PROVE  toGw' = toGw
  BY <1>1 DEF SendOpen, SendData, SendEnd, Write, WriteFails, wireVars
<1> QED
  BY <1>1
  DEF Up, GatewayStep, GwNext, Arrival, Proxy, Reader, Closer, AllocStream, AllocFull,
     BodyFails, Receive, ReceiveClosed, Timeout, ReleaseEntry, ReleaseDone, ReleaseResp,
     ReadError, GetStream, SelectDone, SelectSend, SelectPanic, SelectPark, ReaderCloses,
     ReaderGone, BeginClose, TakeAllStreams, CloseOneDone, CloseOneResp, CloseSocket,
     CloseFinished, LinkDown, wireVars

LEMMA GatewayReads ==
  ASSUME ExTypeOK, Up, GatewayStep, toGw # <<>> => Head(toGw).type \in ResponseTypes
  PROVE  \/ HandedOver /\ toGw' = toGw
         \/ SameFrames /\ Reads
         \/ SameFrames /\ toGw' = toGw /\ (Finds \/ Keeps \/ rpc' \notin Holding)
<1>1. TypeOK /\ [Step]_vars
  BY GatewayIsStep DEF ExTypeOK
<1>2. HandedOver \/ SameFrames
  BY <1>1, FramesStep DEF SameFrames
<1>3. CASE ReadFrame
  <2>1. Reads
    BY <1>3 DEF ReadFrame, Reads
  <2>2. ~HandedOver
    BY <2>1 DEF HandedOver, Reads
  <2> QED
    BY <1>2, <2>1, <2>2
<1>4. CASE toGw' = toGw /\ ~ReadFrame
  <2>1. ASSUME GetStream, rpc' = "select" PROVE Finds
    <3>1. rstream' = Lookup(rframe.id) /\ rstream' # None
      BY <2>1 DEF GetStream
    <3> QED
      BY <2>1, <3>1 DEF GetStream, Finds, Lookup, tableVars, reqVars
  <2>2. Finds \/ Keeps \/ rpc' \notin Holding
    BY <1>1, <1>4, <2>1, ReaderStep DEF Keeps
  <2> QED
    BY <1>2, <1>4, <2>2
<1> QED
  BY <1>3, <1>4, ComingStep

\* What the request the reader's frame goes to has been given then.
LEMMA GivenStep ==
  ASSUME TypeOK, HandedOver, NEW r \in Requests, NEW k \in Nat, NEW f, Given(r, k, f)'
  PROVE  Given(r, k, f) \/ (r = rstream /\ f = rframe /\ k = Len(Frames(r)) + 1)
<1> HIDE DEF Frames
<1>1. Frames(r)' = IF r = rstream THEN Append(Frames(r), rframe) ELSE Frames(r)
  BY DEF HandedOver
<1>2. Frames(r) \in Seq(PeerFrames) /\ rframe \in PeerFrames
  BY FramesType DEF TypeOK, ReadType
<1>3. CASE r = rstream
  <2>1. /\ Len(Frames(r)) \in Nat /\ Len(Frames(r)') = Len(Frames(r)) + 1
        /\ \A m \in 1..Len(Frames(r)) : Frames(r)'[m] = Frames(r)[m]
        /\ Frames(r)'[Len(Frames(r)) + 1] = rframe
    BY <1>1, <1>2, <1>3, Appended
  <2> QED
    BY <1>3, <2>1 DEF Given
<1>4. CASE r # rstream
  BY <1>1, <1>4 DEF Given
<1> QED
  BY <1>3, <1>4

LEMMA HeadComes ==
  ASSUME ExTypeOK, Answering, toGw # <<>>
  PROVE  /\ Head(toGw) \in PeerFrames /\ Coming(1, Head(toGw)) /\ Answered(Head(toGw))
         /\ Head(toGw).type \in ResponseTypes
<1>1. Head(toGw) \in PeerFrames /\ Coming(1, Head(toGw))
  BY Shifted DEF Coming, ExTypeOK, TypeOK, WireType
<1>2. PICK f \in PeerFrames : f = Head(toGw)
  BY <1>1
<1>3. Answered(f)
  BY <1>1, <1>2 DEF Answering
<1> QED
  BY <1>1, <1>2, <1>3 DEF Answered, Endings, ResponseTypes

\* Reading the first frame: the others come one place nearer.
LEMMA ReadsShift ==
  ASSUME ExTypeOK, Reads, NEW k \in Nat, NEW f \in PeerFrames, Coming(k, f)'
  PROVE  k + 1 \in Nat /\ k >= 1 /\ Coming(k + 1, f) /\ (InOrder(k + 1, f) => InOrder(k, f)')
<1>1. /\ Len(toGw) \in Nat /\ Len(toGw) >= 1 /\ Len(toGw') = Len(toGw) - 1
      /\ \A m \in 1..(Len(toGw) - 1) : toGw'[m] = toGw[m + 1]
  BY Shifted DEF Reads, ExTypeOK, TypeOK, WireType
<1>2. k \in 1..(Len(toGw) - 1) /\ toGw'[k] = f
  BY <1>1 DEF Coming
<1>3. k + 1 \in Nat /\ k >= 1 /\ Coming(k + 1, f)
  BY <1>1, <1>2 DEF Coming
<1>4. \A j \in 1..(k - 1) : j + 1 \in 1..((k + 1) - 1) /\ j \in 1..(Len(toGw) - 1)
  BY <1>1, <1>2
<1>5. InOrder(k + 1, f) => InOrder(k, f)'
  <2> SUFFICES ASSUME InOrder(k + 1, f), NEW j \in 1..(k - 1), Owner(toGw'[j]) = Owner(f)
               PROVE  toGw'[j].type \notin Endings /\ Number(toGw'[j]) < Number(f)
    BY DEF InOrder
  <2> QED
    BY <1>1, <1>4 DEF InOrder
<1> QED
  BY <1>3, <1>5

LEMMA AnsweringByGateway ==
  ASSUME UploadInv, Answering, GatewayStep
  PROVE  Answering'
<1> USE DEF UploadInv
<1>1. ExNext
  BY DEF ExNext
<1>2. \/ HandedOver /\ toGw' = toGw
      \/ SameFrames /\ Reads
      \/ SameFrames /\ toGw' = toGw /\ (Finds \/ Keeps \/ rpc' \notin Holding)
  BY GatewayReads, HeadComes
<1> HIDE DEF Frames
<1>3. ASSUME NEW k \in Nat, NEW f \in PeerFrames, Coming(k, f)' PROVE Answered(f)' /\ InOrder(k, f)'
  <2>1. CASE toGw' = toGw
    <3>1. Coming(k, f)
      BY <1>3, <2>1 DEF Coming
    <3>2. Answered(f) /\ InOrder(k, f)
      BY <3>1 DEF Answering
    <3> QED
      BY <1>1, <2>1, <3>2, AnsweredKept DEF InOrder
  <2>2. CASE Reads
    <3>1. k + 1 \in Nat /\ Coming(k + 1, f) /\ (InOrder(k + 1, f) => InOrder(k, f)')
      BY <1>3, <2>2, ReadsShift
    <3>2. Answered(f) /\ InOrder(k + 1, f)
      BY <3>1 DEF Answering
    <3> QED
      BY <1>1, <3>1, <3>2, AnsweredKept
  <2> QED
    BY <1>2, <2>1, <2>2
<1>4. ASSUME NEW f \in PeerFrames, rpc' \in Holding, rframe' = f
      PROVE  Answered(f)' /\ (f.type \in Endings => NoneComing(Owner(f))')
  <2>1. CASE Reads
    <3>1. Coming(1, f) /\ Answered(f)
      BY <1>4, <2>1, HeadComes DEF Reads
    <3>2. ASSUME f.type \in Endings, NEW m \in 1..Len(toGw'), Owner(toGw'[m]) = Owner(f)
          PROVE  FALSE
      <4>1. PICK g \in PeerFrames : g = toGw'[m]
        BY <2>1, <3>2, Shifted DEF Reads, ExTypeOK, TypeOK, WireType
      <4>2. m \in Nat /\ Coming(m, g)'
        BY <4>1, <3>2 DEF Coming
      <4>3. m + 1 \in Nat /\ m >= 1 /\ Coming(m + 1, g)
        BY <2>1, <4>2, ReadsShift
      <4>4. InOrder(m + 1, g) /\ 1 \in 1..((m + 1) - 1)
        BY <4>2, <4>3 DEF Answering
      <4>5. toGw[1].type \notin Endings \/ Owner(toGw[1]) # Owner(g)
        BY <4>4 DEF InOrder
      <4>6. toGw[1] = f
        BY <3>1 DEF Coming
      <4> QED
        BY <3>2, <4>1, <4>5, <4>6
    <3> QED
      BY <1>1, <3>1, <3>2, AnsweredKept DEF NoneComing
  <2>2. CASE toGw' = toGw /\ (Finds \/ Keeps)
    <3>1. rpc \in Holding /\ rframe = f
      BY <1>4, <2>2 DEF Finds, Keeps, Holding
    <3>2. Answered(f) /\ (f.type \in Endings => NoneComing(Owner(f)))
      BY <3>1 DEF Answering
    <3> QED
      BY <1>1, <2>2, <3>2, AnsweredKept DEF NoneComing
  <2>3. ~HandedOver
    BY <1>4 DEF HandedOver, Holding
  <2> QED
    BY <1>2, <1>4, <2>1, <2>2, <2>3
<1>5. ASSUME NEW r \in Requests, NEW k \in Nat, NEW f \in PeerFrames, Given(r, k, f)'
      PROVE  Answered(f)'
  <2>1. CASE SameFrames
    <3>1. Given(r, k, f)
      BY <1>5, <2>1 DEF SameFrames, Given
    <3> QED
      BY <1>1, <3>1, AnsweredKept DEF Answering
  <2>2. CASE HandedOver
    <3>1. Given(r, k, f) \/ (r = rstream /\ f = rframe)
      BY <1>5, <2>2, GivenStep DEF ExTypeOK
    <3>2. rpc \in Holding
      BY <2>2 DEF HandedOver, Holding
    <3>3. Answered(f)
      BY <3>1, <3>2 DEF Answering
    <3> QED
      BY <1>1, <3>3, AnsweredKept
  <2> QED
    BY <1>2, <2>1, <2>2
<1> QED
  BY <1>3, <1>4, <1>5 DEF Answering

\* What the CLI sends on.
LEMMA AnsweringByCli ==
  ASSUME UploadInv, Answering, CliStep
  PROVE  Answering'
<1> USE DEF UploadInv
<1>1. /\ ExNext /\ UNCHANGED <<rpc, rframe>>
      /\ \A r \in Requests : Frames(r)' = Frames(r)
  BY GatewayRests DEF ExNext, Frames
<1> HIDE DEF Frames
<1>2. ASSUME NEW r \in Requests, NEW k \in Nat, NEW f \in PeerFrames, Given(r, k, f)'
      PROVE  Answered(f)'
  BY <1>1, <1>2, AnsweredKept DEF Answering, Given
<1>3. CASE toGw' = toGw
  <2>1. \A k \in Nat, f \in PeerFrames : Coming(k, f)' => Coming(k, f)
    BY <1>3 DEF Coming
  <2>2. \A k \in Nat, f \in PeerFrames : InOrder(k, f) => InOrder(k, f)'
    BY <1>3 DEF InOrder
  <2>3. \A r : NoneComing(r) => NoneComing(r)'
    BY <1>3 DEF NoneComing
  <2> QED
    BY <1>1, <1>2, <2>1, <2>2, <2>3, AnsweredKept DEF Answering
<1>4. ASSUME NEW r \in Requests, NEW t \in Cli!AnswerTypes, AnswersOne(r, t)
      PROVE  Answering'
  <2>1. PICK a : a = Cli!AnswerFrame(r, t)
    OBVIOUS
  <2>2. /\ a \in PeerFrames
        /\ Len(toGw) \in Nat /\ Len(toGw') = Len(toGw) + 1
        /\ \A m \in 1..Len(toGw) : toGw'[m] = toGw[m] /\ toGw[m] \in PeerFrames
        /\ toGw'[Len(toGw) + 1] = a
    BY <1>4, <2>1, AnswerFrameType, Appended DEF AnswersOne, ExTypeOK, TypeOK, WireType
  <2>3. /\ a.type = t /\ a.id = sid[r] /\ Owner(a) = r /\ sid' = sid
        /\ Number(a) = IF t = "init" THEN 0 ELSE chunks[r] + 1
        /\ \/ t = "init" /\ call[r] = "request" /\ call'[r] = "stream" /\ chunks'[r] = chunks[r]
           \/ t = "data" /\ call[r] = "stream" /\ call'[r] = "stream" /\ chunks'[r] = chunks[r] + 1
           \/ t = "end" /\ call[r] = "stream" /\ call'[r] = "over" /\ chunks'[r] = chunks[r]
           \/ t = "rst" /\ call[r] \in {"request", "stream"} /\ call'[r] = "over" /\ chunks'[r] = chunks[r]
        /\ chunks[r] \in Nat
    <3>1. callId[r] = sid[r]
      BY <1>4, AnswersOneCases DEF Served
    <3>2. chunks[r] \in Nat
      BY ExchangeAssumption DEF ExTypeOK, CliType
    <3>3. sid' = sid
      BY GatewayRests
    <3> QED
      BY <1>4, <2>1, <3>1, <3>2, <3>3, AnswersOneCases DEF Cli!AnswerFrame, Cli!Frame, Owner, Number
  <2>4. Answered(a)'
    <3>1. Number(a) \in 1..chunks'[r] \/ t # "data"
      BY <2>3
    <3> QED
      BY <2>3, <3>1 DEF Answered, Endings
  <2>5. ASSUME NEW k \in Nat, NEW f \in PeerFrames, Coming(k, f)' PROVE Answered(f)' /\ InOrder(k, f)'
    <3>1. k \in 1..Len(toGw) \/ k = Len(toGw) + 1
      BY <2>2, <2>5 DEF Coming
    <3>2. \A j \in 1..(k - 1) : j \in 1..Len(toGw) /\ j \in Nat
      BY <2>2, <3>1
    <3>3. CASE k \in 1..Len(toGw)
      <4>1. Coming(k, f)
        BY <2>2, <2>5, <3>3 DEF Coming
      <4>2. Answered(f) /\ InOrder(k, f)
        BY <4>1 DEF Answering
      <4> QED
        BY <1>1, <2>2, <3>2, <4>2, AnsweredKept DEF InOrder
    <3>4. CASE k = Len(toGw) + 1
      <4>1. f = a
        BY <2>2, <2>5, <3>4 DEF Coming
      <4>2. ASSUME NEW j \in 1..(k - 1), Owner(toGw'[j]) = r
            PROVE  toGw'[j].type \notin Endings /\ Number(toGw'[j]) < Number(a)
        <5>1. PICK g \in PeerFrames : g = toGw[j] /\ g = toGw'[j]
          BY <2>2, <3>2
        <5>2. Answered(g) /\ Owner(g) = r
          BY <3>2, <4>2, <5>1 DEF Answering, Coming
        <5>3. g.type \notin Endings /\ call[r] = "stream" /\ (Number(g) = 0 \/ Number(g) \in 1..chunks[r])
          BY <2>3, <5>2 DEF Answered, Endings
        <5> QED
          BY <2>3, <5>1, <5>3
      <4> QED
        BY <2>3, <2>4, <4>1, <4>2 DEF InOrder
    <3> QED
      BY <3>1, <3>3, <3>4
  <2>6. ASSUME NEW f \in PeerFrames, rpc' \in Holding, rframe' = f
        PROVE  Answered(f)' /\ (f.type \in Endings => NoneComing(Owner(f))')
    <3>1. Answered(f) /\ (f.type \in Endings => NoneComing(Owner(f)))
      BY <1>1, <2>6 DEF Answering
    <3>2. f.type \in Endings => Owner(f) # r
      BY <2>3, <3>1 DEF Answered, Endings
    <3>3. \A m \in 1..Len(toGw') : m \in 1..Len(toGw) \/ m = Len(toGw) + 1
      BY <2>2
    <3>4. f.type \in Endings => NoneComing(Owner(f))'
      BY <2>2, <2>3, <3>1, <3>2, <3>3 DEF NoneComing
    <3> QED
      BY <1>1, <3>1, <3>4, AnsweredKept
  <2> QED
    BY <1>2, <2>5, <2>6 DEF Answering
<1> QED
  BY <1>3, <1>4, CliSteps DEF Handled

\* The reader has a frame of the response to r; and: nothing more will ever come of it.
Held(r) == rpc \in Holding /\ Owner(rframe) = r
Gone(r) == call[r] = "over" /\ ~Held(r) /\ NoneComing(r)

InTable(r) == sid[r] # 0 /\ streams[sid[r]] = r

\* A request that took over its identifier cleanly is only given what is its own, and
\* the end of its response comes last.
Clean ==
  \A r \in Requests \ tainted :
    /\ rpc \in {"select", "parked"} /\ rstream = r => Owner(rframe) = r
    /\ \A k \in Nat, f \in PeerFrames :
         Given(r, k, f) => Owner(f) = r /\ (f.type \in Endings => Gone(r))
    /\ InTable(r) => \A q \in Requests \ {r} : sid[q] = sid[r] => Gone(q)

LEMMA GoneKept ==
  ASSUME UploadInv, Answering, ExNext, NEW q \in Requests, Gone(q)
  PROVE  Gone(q)'
<1> USE DEF UploadInv
<1>1. call[q] = "over" /\ ~Held(q) /\ NoneComing(q) /\ call'[q] = "over"
  BY CallStep DEF Gone
<1>2. CASE GatewayStep
  <2>1. CASE Reads
    <3>1. /\ Len(toGw) \in Nat /\ Len(toGw) >= 1 /\ Len(toGw') = Len(toGw) - 1
          /\ Head(toGw) = toGw[1]
          /\ \A m \in 1..(Len(toGw) - 1) : toGw'[m] = toGw[m + 1] /\ m + 1 \in 1..Len(toGw)
      BY <2>1, Shifted DEF Reads, ExTypeOK, TypeOK, WireType
    <3>2. 1 \in 1..Len(toGw)
      BY <3>1
    <3>3. Owner(rframe') # q
      BY <1>1, <2>1, <3>1, <3>2 DEF Reads, NoneComing
    <3>4. NoneComing(q)'
      BY <1>1, <3>1 DEF NoneComing
    <3> QED
      BY <1>1, <3>3, <3>4 DEF Gone, Held
  <2>2. CASE toGw' = toGw /\ (rpc' \notin Holding \/ Finds \/ Keeps)
    <3>1. ~Held(q)'
      BY <1>1, <2>2 DEF Held, Finds, Keeps, Holding
    <3>2. NoneComing(q)'
      BY <1>1, <2>2 DEF NoneComing
    <3> QED
      BY <1>1, <3>1, <3>2 DEF Gone
  <2> QED
    BY <1>2, <2>1, <2>2, GatewayReads, HeadComes DEF HandedOver, Holding
<1>3. CASE CliStep
  <2>1. ~Held(q)'
    BY <1>1, <1>3, GatewayRests DEF Held
  <2>2. CASE toGw' = toGw
    BY <1>1, <2>1, <2>2 DEF Gone, NoneComing
  <2>3. ASSUME NEW r \in Requests, NEW t \in Cli!AnswerTypes, AnswersOne(r, t) PROVE NoneComing(q)'
    <3>1. PICK a : a = Cli!AnswerFrame(r, t)
      OBVIOUS
    <3>2. /\ Len(toGw) \in Nat /\ Len(toGw') = Len(toGw) + 1
          /\ \A m \in 1..Len(toGw) : toGw'[m] = toGw[m]
          /\ toGw'[Len(toGw) + 1] = a
      BY <2>3, <3>1, AnswerFrameType, Appended DEF AnswersOne, ExTypeOK, TypeOK, WireType
    <3>3. Owner(a) = r /\ r # q
      BY <1>1, <2>3, <3>1, AnswersOneCases DEF Owner, Cli!AnswerFrame, Cli!Frame
    <3>4. \A m \in 1..Len(toGw') : m \in 1..Len(toGw) \/ m = Len(toGw) + 1
      BY <3>2
    <3> QED
      BY <1>1, <3>2, <3>3, <3>4 DEF NoneComing
  <2> QED
    BY <1>1, <1>3, <2>1, <2>2, <2>3, CliSteps DEF Gone, Handled
<1> QED
  BY <1>2, <1>3 DEF ExNext

LEMMA EndedIsGone ==
  ASSUME TypeOK, Clean, NEW q \in Requests \ tainted, Ended(q)
  PROVE  Gone(q)
<1> HIDE DEF Frames
<1> DEFINE k == Len(got[q])
<1>1. /\ got[q] \in Seq(PeerFrames) /\ got[q] # <<>> /\ Frames(q) \in Seq(PeerFrames)
      /\ Len(Frames(q)) = Len(got[q]) + Len(queue[q])
      /\ Len(got[q]) \in Nat /\ Len(queue[q]) \in Nat
      /\ \A m \in 1..Len(got[q]) : Frames(q)[m] = got[q][m]
  BY FramesType DEF Ended
<1>6. got[q][k].type \in Endings
  BY DEF Ended, Endings
<1>2. Len(got[q]) # 0
  BY <1>1, EmptySeq
<1>3. k \in Nat /\ k \in 1..Len(got[q]) /\ k \in 1..Len(Frames(q))
  <2>1. \A n, m \in Nat : n # 0 => n \in 1..n /\ n \in 1..(n + m)
    OBVIOUS
  <2> QED
    BY <1>1, <1>2, <2>1
<1>4. PICK f \in PeerFrames : f = got[q][k]
  <2>1. got[q][k] \in PeerFrames
    BY <1>1, <1>3, ElementOfSeq
  <2> QED
    BY <2>1
<1> HIDE DEF k
<1>5. Given(q, k, f) /\ f.type \in Endings
  BY <1>1, <1>3, <1>4, <1>6 DEF Given
<1> QED
  BY <1>3, <1>5 DEF Clean

\* A request in the table was there before, with the same others under its
\* identifier, or has just come.
LEMMA InTableStep ==
  ASSUME TypeOK, Up, GatewayStep, NEW r \in Requests, InTable(r)'
  PROVE  \/ AllocStream(r)
         \/ /\ InTable(r) /\ sid'[r] = sid[r]
            /\ \A q \in Requests : sid'[q] = sid'[r] => sid[q] = sid[r]
<1> USE DEF InTable, TypeOK, TableType, ReqType
<1>1. CASE UNCHANGED <<streams, sid>>
  BY <1>1
<1>2. ASSUME NEW q \in Requests \ {r}, AllocStream(q)
      PROVE  /\ InTable(r) /\ sid'[r] = sid[r]
             /\ \A p \in Requests : sid'[p] = sid'[r] => sid[p] = sid[r]
  <2>1. PICK i \in Ids : /\ streams' = [streams EXCEPT ![i] = q]
                         /\ sid' = [sid EXCEPT ![q] = i]
    BY <1>2 DEF AllocStream
  <2>2. sid'[r] = sid[r] /\ sid[r] \in Ids
    BY <2>1
  <2>3. sid[r] # i /\ streams[sid[r]] = r
    BY <2>1, <2>2
  <2> QED
    BY <2>1, <2>2, <2>3
<1>3. ASSUME NEW q \in Requests, ReleaseEntry(q), UNCHANGED sid
      PROVE  InTable(r)
  <2>1. streams' = [streams EXCEPT ![sid[q]] = None]
    BY <1>3 DEF ReleaseEntry
  <2> QED
    BY <1>3, <2>1, ConstantsAssumption
<1> QED
  BY <1>1, <1>2, <1>3, EntryCases

\* The requests that had its identifier before have nothing more to come.
LEMMA CleanTakeover ==
  ASSUME UploadInv, Answering, Clean, GatewayStep, NEW r \in Requests, r \notin tainted', InTable(r)',
         NEW q \in Requests \ {r}, sid'[q] = sid'[r]
  PROVE  Gone(q)'
<1> USE DEF UploadInv
<1>0. ExNext /\ TypeOK /\ r \notin tainted
  BY DEF ExNext, ExTypeOK, GatewayStep
<1>1. CASE AllocStream(r)
  <2>1. PICK i \in Ids : sid' = [sid EXCEPT ![r] = i] /\ pc[r] = "idle"
    BY <1>1 DEF AllocStream
  <2>2. sid[r] = 0 /\ sid'[r] = i /\ sid'[r] # 0 /\ sid[q] = i
    BY <1>0, <2>1, IdsAreNumbers DEF Served, Waiting, TypeOK, ReqType
  <2>3. ~TakesOver(r, sid'[r])
    BY <2>2 DEF GatewayStep
  <2>4. Ended(q) /\ q \notin tainted
    BY <2>2, <2>3 DEF TakesOver
  <2> QED
    BY <1>0, <2>4, EndedIsGone, GoneKept
<1>2. CASE InTable(r) /\ sid[q] = sid[r]
  BY <1>0, <1>2, GoneKept DEF Clean
<1> QED
  BY <1>0, <1>1, <1>2, InTableStep

\* The stream found for a frame is that of the frame's owner.
LEMMA FoundIsOwner ==
  ASSUME UploadInv, Answering, Clean, Finds, NEW r \in Requests \ tainted, rstream' = r
  PROVE  Owner(rframe) = r /\ InTable(r)
<1> USE DEF UploadInv
<1>1. rpc \in Holding /\ rframe \in PeerFrames
  BY DEF Finds, Holding, ExTypeOK, TypeOK, ReadType
<1>2. PICK f \in PeerFrames : f = rframe
  BY <1>1
<1>3. Answered(f)
  BY <1>1, <1>2 DEF Answering
<1>4. rframe.id \in Ids /\ streams[rframe.id] = r
  BY DEF Finds
<1>5. sid[r] = rframe.id
  BY <1>4, ConstantsAssumption DEF Discipline, EntryHasOwner
<1>6. InTable(r)
  BY <1>4, <1>5, IdsAreNumbers DEF InTable
<1>7. Owner(rframe) \in Requests /\ sid[Owner(rframe)] = sid[r]
  BY <1>2, <1>3, <1>5 DEF Answered
<1>8. ASSUME Owner(rframe) # r PROVE FALSE
  <2>1. Gone(Owner(rframe))
    BY <1>6, <1>7, <1>8 DEF Clean
  <2> QED
    BY <1>1, <2>1 DEF Gone, Held
<1> QED
  BY <1>6, <1>8

LEMMA CleanStep ==
  ASSUME UploadInv, Answering, Clean, ExNext
  PROVE  Clean'
<1> USE DEF UploadInv
<1> HIDE DEF Frames
<1> SUFFICES ASSUME NEW r \in Requests, r \notin tainted'
             PROVE  /\ rpc' \in {"select", "parked"} /\ rstream' = r => Owner(rframe') = r
                    /\ \A k \in Nat, f \in PeerFrames :
                         Given(r, k, f)' => Owner(f) = r /\ (f.type \in Endings => Gone(r)')
                    /\ InTable(r)' => \A q \in Requests \ {r} : sid'[q] = sid'[r] => Gone(q)'
  BY DEF Clean
<1>0. r \in Requests \ tainted /\ TypeOK
  BY CliCases DEF ExNext, GatewayStep, ExTypeOK
<1>1. CASE GatewayStep
  <2>1. \/ HandedOver /\ toGw' = toGw
        \/ SameFrames /\ Reads
        \/ SameFrames /\ toGw' = toGw /\ (Finds \/ Keeps \/ rpc' \notin Holding)
    BY <1>1, GatewayReads, HeadComes
  <2>2. rpc' \in {"select", "parked"} /\ rstream' = r => Owner(rframe') = r
    <3>1. CASE Finds
      BY <1>0, <3>1, FoundIsOwner DEF Finds
    <3>2. CASE Keeps
      BY <1>0, <3>2 DEF Keeps, Clean
    <3> QED
      BY <2>1, <3>1, <3>2 DEF HandedOver, Reads, Holding
  <2>3. ASSUME NEW k \in Nat, NEW f \in PeerFrames, Given(r, k, f)'
        PROVE  Owner(f) = r /\ (f.type \in Endings => Gone(r)')
    <3>1. CASE Given(r, k, f)
      BY <1>0, <3>1, GoneKept DEF Clean
    <3>2. CASE HandedOver /\ toGw' = toGw /\ r = rstream /\ f = rframe
      <4>1. rpc \in {"select", "parked"} /\ rpc \in Holding /\ rpc' \notin Holding
        BY <3>2 DEF HandedOver, Holding
      <4>2. Owner(f) = r
        BY <1>0, <3>2, <4>1 DEF Clean
      <4>3. f.type \in Endings => call[r] = "over" /\ NoneComing(r)
        BY <3>2, <4>1, <4>2 DEF Answering, Answered, Endings
      <4>4. NoneComing(r) => NoneComing(r)'
        BY <3>2 DEF NoneComing
      <4>5. call' = call
        BY <1>1 DEF GatewayStep, proxyVars
      <4> QED
        BY <4>1, <4>2, <4>3, <4>4, <4>5 DEF Gone, Held
    <3> QED
      BY <1>0, <2>1, <2>3, <3>1, <3>2, GivenStep DEF SameFrames, Given
  <2> QED
    BY <1>1, <2>2, <2>3, CleanTakeover
<1>2. CASE CliStep
  <2>1. UNCHANGED <<rpc, rframe, rstream, sid, streams>> /\ Frames(r)' = Frames(r)
    BY <1>2, GatewayRests DEF Frames
  <2> QED
    BY <1>0, <2>1, GoneKept DEF Clean, Given, InTable
<1> QED
  BY <1>1, <1>2 DEF ExNext

\* Frame number n of the response to r is on its way (a RST_STREAM does not count).
Flying(r, n) ==
  \E k \in 1..Len(toGw) : toGw[k].type # "rst" /\ Owner(toGw[k]) = r /\ Number(toGw[k]) = n

\* How many frames of the response have come as far as the reader.
Base(r) == Len(Frames(r)) + IF Held(r) /\ rframe.type # "rst" THEN 1 ELSE 0

\* The CLI has sent the frames up to number s, and all that have not come are on the way.
InLine(r, s) ==
  /\ Base(r) <= s
  /\ \A n \in Nat : Flying(r, n) <=> Base(r) <= n /\ n < s
  /\ call[r] \in {"none", "request"} => s = 0
  /\ call[r] = "stream" => s = chunks[r] + 1

\* A request that took over its identifier cleanly is given every frame in its turn.
NoGap ==
  \A r \in Requests \ tainted :
    /\ \A k \in Nat, f \in PeerFrames : Given(r, k, f) /\ f.type # "rst" => Number(f) = k - 1
    /\ rpc \in {"select", "parked"} /\ rstream = r /\ rframe.type # "rst" =>
         Number(rframe) = Len(Frames(r))
    /\ InTable(r) =>
         /\ Held(r) /\ rframe.type # "rst" => Number(rframe) = Len(Frames(r))
         /\ Held(r) /\ rpc # "lookup" => rstream = r
         /\ \E s \in Nat : InLine(r, s)

LEMMA FlyingRead ==
  ASSUME ExTypeOK, Reads, NEW r, NEW n
  PROVE  Flying(r, n) <=> \/ Flying(r, n)'
                          \/ Head(toGw).type # "rst" /\ Owner(Head(toGw)) = r /\ Number(Head(toGw)) = n
<1>1. /\ Len(toGw) \in Nat /\ Len(toGw) >= 1 /\ Len(toGw') = Len(toGw) - 1 /\ Head(toGw) = toGw[1]
      /\ \A m \in 1..(Len(toGw) - 1) : toGw'[m] = toGw[m + 1] /\ m + 1 \in 1..Len(toGw)
  BY Shifted DEF Reads, ExTypeOK, TypeOK, WireType
<1>2. ASSUME NEW k \in 1..Len(toGw), toGw[k].type # "rst", Owner(toGw[k]) = r, Number(toGw[k]) = n
      PROVE  \/ Flying(r, n)'
             \/ Head(toGw).type # "rst" /\ Owner(Head(toGw)) = r /\ Number(Head(toGw)) = n
  <2>1. CASE k = 1
    BY <1>1, <1>2, <2>1
  <2>2. CASE k # 1
    <3>1. PICK m \in 1..(Len(toGw) - 1) : m + 1 = k
      BY <1>1, <2>2
    <3>2. m \in 1..Len(toGw') /\ toGw'[m] = toGw[k]
      BY <1>1, <3>1
    <3> QED
      BY <1>2, <3>2 DEF Flying
  <2> QED
    BY <2>1, <2>2
<1>3. Flying(r, n)' => Flying(r, n)
  BY <1>1 DEF Flying
<1>4. 1 \in 1..Len(toGw)
  BY <1>1
<1>5. Head(toGw).type # "rst" /\ Owner(Head(toGw)) = r /\ Number(Head(toGw)) = n => Flying(r, n)
  BY <1>1, <1>4 DEF Flying
<1> QED
  BY <1>2, <1>3, <1>5 DEF Flying

LEMMA FlyingSent ==
  ASSUME ExTypeOK, NEW q \in Requests, NEW t \in Cli!AnswerTypes, AnswersOne(q, t), NEW r, NEW n
  PROVE  Flying(r, n)' <=> \/ Flying(r, n)
                           \/ t # "rst" /\ r = q /\ n = IF t = "init" THEN 0 ELSE chunks[q] + 1
<1>1. PICK a : a = Cli!AnswerFrame(q, t)
  OBVIOUS
<1>2. /\ Len(toGw) \in Nat /\ Len(toGw') = Len(toGw) + 1
      /\ \A m \in 1..Len(toGw) : toGw'[m] = toGw[m]
      /\ toGw'[Len(toGw) + 1] = a
  BY <1>1, AnswerFrameType, Appended DEF AnswersOne, ExTypeOK, TypeOK, WireType
<1>3. a.type = t /\ Owner(a) = q /\ Number(a) = IF t = "init" THEN 0 ELSE chunks[q] + 1
  BY <1>1 DEF Cli!AnswerFrame, Cli!Frame, Owner, Number
<1>4. /\ \A m \in 1..Len(toGw') : m \in 1..Len(toGw) \/ m = Len(toGw) + 1
      /\ \A m \in 1..Len(toGw) : m \in 1..Len(toGw')
      /\ Len(toGw) + 1 \in 1..Len(toGw')
  BY <1>2
<1> QED
  BY <1>2, <1>3, <1>4 DEF Flying

\* The reader only lets go of a frame when its stream is not in the table.
LEMMA Dropped ==
  ASSUME ExTypeOK, Up, Discipline, GatewayStep, rpc \in Holding, rpc' \notin Holding, ~HandedOver
  PROVE  \/ rpc = "lookup" /\ Lookup(rframe.id) = None
         \/ rpc \in {"select", "parked"} /\ \A i \in Ids : streams[i] # rstream
<1>1. TypeOK /\ [Step]_vars
  BY GatewayIsStep DEF ExTypeOK
<1>2. ~SelectSend /\ ~(rpc = "parked" /\ Receive(rstream))
  BY <1>1, FramesStep
<1>3. ASSUME NEW r \in Requests, Receive(r) PROVE FALSE
  BY <1>2, <1>3 DEF Receive, Resumed
<1>4. CASE GetStream
  BY <1>4 DEF GetStream, Holding
<1>5. CASE SelectDone
  BY <1>5 DEF SelectDone, Discipline, EntriesAreOpen
<1>6. ASSUME NEW r \in Requests, ReleaseDone(r)
      PROVE  rpc \in {"select", "parked"} /\ \A i \in Ids : streams[i] # rstream
  <2>1. pc[r] \in Closing /\ rpc = "parked" /\ rstream = victim[r]
    BY <1>6 DEF ReleaseDone, CloseDone, Closing
  <2> QED
    BY <1>1, <2>1, OfAVictim
<1>7. CASE UNCHANGED rpc \/ rpc' = "parked"
  BY <1>7 DEF Holding
<1> QED
  BY <1>2, <1>3, <1>4, <1>5, <1>6, <1>7
  DEF Up, GatewayStep, GwNext, Arrival, Proxy, Reader, Closer, AllocStream, AllocFull,
     SendOpen, SendData, BodyFails, SendEnd, ReceiveClosed, Timeout, ReleaseEntry,
     ReleaseResp, ReadFrame, ReadError, SelectPanic, SelectPark, ReaderCloses, ReaderGone,
     BeginClose, TakeAllStreams, CloseOneDone, CloseOneResp, CloseSocket,
     CloseFinished, LinkDown, readVars, Holding

Exchange == UploadInv /\ Answering /\ Clean /\ NoGap

LEMMA CallIsNew ==
  ASSUME UploadInv, Answering, NEW r \in Requests, call[r] = "none"
  PROVE  ~Held(r) /\ \A n : ~Flying(r, n)
<1> USE DEF UploadInv
<1>1. ~Held(r)
  <2>1. rframe \in PeerFrames
    BY DEF ExTypeOK, TypeOK, ReadType
  <2> QED
    BY <2>1 DEF Held, Answering, Answered
<1>2. ASSUME NEW k \in 1..Len(toGw), Owner(toGw[k]) = r PROVE FALSE
  <2>1. toGw[k] \in PeerFrames /\ k \in Nat
    BY ElementOfSeq, LenProperties DEF ExTypeOK, TypeOK, WireType
  <2>2. PICK f \in PeerFrames : f = toGw[k]
    BY <2>1
  <2>3. Answered(f)
    BY <2>1, <2>2 DEF Answering, Coming
  <2> QED
    BY <1>2, <2>2, <2>3 DEF Answered
<1> QED
  BY <1>1, <1>2 DEF Flying

\* A request that has just come is at the beginning.
LEMMA LineBegins ==
  ASSUME UploadInv, Answering, GatewayStep, NEW r \in Requests, AllocStream(r)
  PROVE  ~Held(r)' /\ InLine(r, 0)'
<1> USE DEF UploadInv
<1>1. /\ pc[r] = "idle" /\ UNCHANGED <<got, queue, rpc, rframe, toGw, call, chunks>>
  BY DEF AllocStream, GatewayStep, chanVars, readVars, wireVars, proxyVars
<1>2. call[r] = "none" /\ Frames(r) = <<>>
  BY <1>1 DEF Served, Uploading, Unsent, Waiting
<1>3. Frames(r)' = <<>>
  BY <1>1, <1>2 DEF Frames
<1>4. ~Held(r)' /\ \A n : ~Flying(r, n)'
  BY <1>1, <1>2, CallIsNew DEF Held, Flying
<1> HIDE DEF Frames
<1>5. Base(r)' = 0
  BY <1>3, <1>4, EmptySeq DEF Base
<1> QED
  BY <1>1, <1>2, <1>4, <1>5 DEF InLine

\* Nothing of the line moves.
LEMMA LineRests ==
  ASSUME NEW r, NEW s, InLine(r, s), Base(r)' = Base(r), \A n \in Nat : Flying(r, n)' <=> Flying(r, n),
         call'[r] = call[r], chunks'[r] = chunks[r]
  PROVE  InLine(r, s)'
BY DEF InLine

\* The reader hands its frame over.
LEMMA LineHanded ==
  ASSUME Exchange, GatewayStep, HandedOver, toGw' = toGw, NEW r \in Requests \ tainted, InTable(r),
         NEW s \in Nat, InLine(r, s)
  PROVE  ~Held(r)' /\ \E z \in Nat : InLine(r, z)'
<1> USE DEF Exchange, UploadInv
<1> HIDE DEF Frames
<1>1. /\ rpc \in {"select", "parked"} /\ rpc \in Holding /\ rpc' \notin Holding /\ ~Held(r)'
      /\ Frames(r)' = IF r = rstream THEN Append(Frames(r), rframe) ELSE Frames(r)
      /\ Len(Frames(r)) \in Nat
  BY FramesType DEF HandedOver, Holding, Held, ExTypeOK
<1>2. UNCHANGED <<call, chunks>>
  BY DEF GatewayStep, proxyVars
<1>3. \A n \in Nat : Flying(r, n)' <=> Flying(r, n)
  BY DEF Flying
<1>4. CASE r # rstream
  <2>1. ~Held(r)
    BY <1>1, <1>4 DEF NoGap, HandedOver
  <2>2. Base(r)' = Base(r)
    BY <1>1, <1>4, <2>1 DEF Base
  <2> QED
    BY <1>1, <1>2, <1>3, <2>2, LineRests
<1>5. CASE r = rstream
  <2>1. Held(r) /\ Owner(rframe) = r
    BY <1>1, <1>5 DEF Clean, Held
  <2>2. rframe \in PeerFrames /\ Frames(r) \in Seq(PeerFrames) /\ Len(Frames(r)') = Len(Frames(r)) + 1
    <3>1. rframe \in PeerFrames /\ Frames(r) \in Seq(PeerFrames)
      BY FramesType DEF ExTypeOK, TypeOK, ReadType
    <3> QED
      BY <1>1, <1>5, <3>1, Appended
  <2>3. Base(r)' = Len(Frames(r)) + 1
    BY <1>1, <2>2 DEF Base
  <2>4. CASE rframe.type # "rst"
    <3>1. Base(r)' = Base(r)
      BY <2>1, <2>3, <2>4 DEF Base
    <3> QED
      BY <1>1, <1>2, <1>3, <3>1, LineRests
  <2>5. CASE rframe.type = "rst"
    <3>1. Base(r) = Len(Frames(r))
      BY <1>1, <2>5 DEF Base
    <3>2. Answered(rframe) /\ NoneComing(r)
      BY <1>1, <2>1, <2>2, <2>5 DEF Answering, Endings
    <3>3. call[r] = "over" /\ \A n : ~Flying(r, n)
      BY <2>1, <2>5, <3>2 DEF Answered, NoneComing, Flying, Endings
    <3>4. Base(r) \in Nat /\ Base(r) <= s /\ ~(Base(r) <= Base(r) /\ Base(r) < s)
      BY <1>1, <3>1, <3>3 DEF InLine
    <3>5. s + 1 \in Nat /\ s = Len(Frames(r)) /\ Base(r)' = s + 1
      BY <1>1, <2>3, <3>1, <3>4
    <3>6. InLine(r, s + 1)'
      <4>1. \A n \in Nat : ~Flying(r, n)' /\ ~(s + 1 <= n /\ n < s + 1)
        BY <1>3, <3>3
      <4> QED
        BY <1>2, <3>3, <3>5, <4>1 DEF InLine
    <3> QED
      BY <1>1, <3>5, <3>6
  <2> QED
    BY <2>4, <2>5
<1> QED
  BY <1>4, <1>5

\* The reader takes the next frame.
LEMMA LineRead ==
  ASSUME Exchange, GatewayStep, SameFrames, Reads, NEW r \in Requests \ tainted,
         NEW s \in Nat, InLine(r, s)
  PROVE  /\ InLine(r, s)'
         /\ Held(r)' /\ rframe'.type # "rst" => Number(rframe') = Len(Frames(r)')
<1> USE DEF Exchange, UploadInv
<1> HIDE DEF Frames
<1> DEFINE n0 == Number(Head(toGw))
           b == Len(Frames(r))
<1>1. /\ ~Held(r) /\ Len(Frames(r)) \in Nat /\ Frames(r)' = Frames(r)
      /\ rframe' = Head(toGw) /\ rpc' \in Holding
      /\ UNCHANGED <<call, chunks>>
  BY FramesType DEF Reads, Held, Holding, SameFrames, ExTypeOK, GatewayStep, proxyVars
<1>2. Base(r) = b /\ b \in Nat
  BY <1>1 DEF Base
<1>3. CASE Head(toGw).type = "rst" \/ Owner(Head(toGw)) # r
  <2>1. ~(Held(r)' /\ rframe'.type # "rst")
    BY <1>1, <1>3 DEF Held
  <2>2. Base(r)' = Base(r)
    BY <1>1, <2>1 DEF Base
  <2>3. \A n \in Nat : Flying(r, n)' <=> Flying(r, n)
    BY <1>3, FlyingRead
  <2> QED
    BY <1>1, <2>1, <2>2, <2>3, LineRests
<1>4. CASE Head(toGw).type # "rst" /\ Owner(Head(toGw)) = r
  <2>1. Answered(Head(toGw))
    BY HeadComes DEF Reads
  <2>2. n0 \in Nat
    <3>1. chunks[r] \in Nat
      BY ExchangeAssumption DEF ExTypeOK, CliType
    <3> QED
      BY <1>4, <2>1, <3>1 DEF Answered
  <2>3. ASSUME NEW n \in Nat, Flying(r, n)' PROVE n0 < n
    <3>1. PICK k \in 1..Len(toGw') : Owner(toGw'[k]) = r /\ Number(toGw'[k]) = n
      BY <2>3 DEF Flying
    <3>2. PICK g \in PeerFrames : g = toGw'[k]
      BY <3>1, Shifted DEF Reads, ExTypeOK, TypeOK, WireType
    <3>3. k \in Nat /\ Coming(k, g)'
      BY <3>1, <3>2 DEF Coming
    <3>4. k + 1 \in Nat /\ k >= 1 /\ Coming(k + 1, g)
      BY <3>3, ReadsShift
    <3>5. InOrder(k + 1, g) /\ 1 \in 1..((k + 1) - 1)
      BY <3>3, <3>4 DEF Answering
    <3>6. Head(toGw) = toGw[1]
      BY Shifted DEF Reads, ExTypeOK, TypeOK, WireType
    <3> QED
      BY <1>4, <3>1, <3>2, <3>5, <3>6 DEF InOrder
  <2>4. \A n \in Nat : Flying(r, n) <=> Flying(r, n)' \/ n = n0
    BY <1>4, FlyingRead
  <2>5. \A n \in Nat : Flying(r, n) <=> b <= n /\ n < s
    BY <1>2 DEF InLine
  <2> HIDE DEF n0, b
  <2>6. b <= n0 /\ n0 < s
    BY <2>2, <2>4, <2>5
  <2>7. n0 = b
    BY <1>2, <2>2, <2>3, <2>4, <2>5, <2>6
  <2>8. \A n \in Nat : Flying(r, n)' <=> b + 1 <= n /\ n < s
    <3>1. ASSUME NEW n \in Nat PROVE Flying(r, n)' <=> b + 1 <= n /\ n < s
      <4>1. Flying(r, n)' => n0 < n /\ b <= n /\ n < s
        BY <2>3, <2>4, <2>5
      <4>2. b + 1 <= n /\ n < s => Flying(r, n) /\ n # n0
        BY <1>2, <2>5, <2>7
      <4> QED
        BY <1>2, <2>4, <2>7, <4>1, <4>2
    <3> QED
      BY <3>1
  <2>9. Held(r)' /\ rframe'.type # "rst" /\ Base(r)' = b + 1
    BY <1>1, <1>4 DEF Held, Base, b
  <2>10. b + 1 <= s
    BY <1>2, <2>6, <2>7
  <2>11. InLine(r, s)'
    BY <1>1, <2>8, <2>9, <2>10 DEF InLine
  <2> QED
    BY <1>1, <2>7, <2>11 DEF n0, b
<1> QED
  BY <1>3, <1>4

\* What a step of the gateway does to the line of a request that is in the table.
LEMMA LineByGateway ==
  ASSUME Exchange, GatewayStep, NEW r \in Requests, r \notin tainted', InTable(r)'
  PROVE  /\ Held(r)' /\ rframe'.type # "rst" => Number(rframe') = Len(Frames(r)')
         /\ Held(r)' /\ rpc' # "lookup" => rstream' = r
         /\ \E s \in Nat : InLine(r, s)'
<1> USE DEF Exchange, UploadInv
<1> HIDE DEF Frames
<1>0. r \in Requests \ tainted /\ TypeOK /\ UNCHANGED <<call, chunks>>
  BY DEF GatewayStep, ExTypeOK, proxyVars
<1>1. CASE AllocStream(r)
  BY <1>1, LineBegins
<1>2. CASE InTable(r)
  <2>1. PICK s \in Nat : InLine(r, s)
    BY <1>0, <1>2 DEF NoGap
  <2>2. CASE HandedOver /\ toGw' = toGw
    BY <1>0, <1>2, <2>1, <2>2, LineHanded
  <2>3. CASE SameFrames /\ Reads
    BY <1>0, <2>1, <2>3, LineRead DEF Reads
  <2>4. CASE SameFrames /\ toGw' = toGw /\ (Finds \/ Keeps \/ rpc' \notin Holding) /\ ~HandedOver
    <3>1. /\ Frames(r)' = Frames(r) /\ \A n \in Nat : Flying(r, n)' <=> Flying(r, n)
      BY <2>4 DEF SameFrames, Flying
    <3>2. ASSUME Held(r)
          PROVE  rframe.id \in Ids /\ streams[rframe.id] = r
      <4>1. PICK f \in PeerFrames : f = rframe
        BY DEF ExTypeOK, TypeOK, ReadType
      <4>2. Answered(f) /\ Owner(f) = r
        BY <3>2, <4>1 DEF Held, Answering
      <4> QED
        BY <1>0, <1>2, <4>1, <4>2 DEF Answered, InTable, TypeOK, ReqType
    <3>3. ASSUME rpc' \notin Holding PROVE ~Held(r) /\ ~Held(r)'
      <4>1. ASSUME Held(r) PROVE FALSE
        <5>1. rpc \in Holding
          BY <4>1 DEF Held
        <5>2. rpc # "lookup" => rstream = r
          BY <1>0, <1>2, <4>1 DEF NoGap
        <5> QED
          BY <1>0, <2>4, <3>2, <3>3, <4>1, <5>1, <5>2, Dropped, ConstantsAssumption DEF Lookup
      <4> QED
        BY <3>3, <4>1 DEF Held
    <3>4. CASE rpc' \notin Holding
      <4>1. Base(r)' = Base(r)
        BY <3>1, <3>3, <3>4 DEF Base
      <4> QED
        BY <1>0, <2>1, <3>1, <3>3, <3>4, <4>1, LineRests
    <3>5. CASE rpc' \in Holding
      <4>1. rframe' = rframe /\ (Held(r)' <=> Held(r))
        BY <2>4, <3>5 DEF Finds, Keeps, Held, Holding
      <4>2. Base(r)' = Base(r)
        BY <3>1, <4>1 DEF Base
      <4>3. Held(r)' /\ rpc' # "lookup" => rstream' = r
        BY <1>0, <1>2, <2>4, <3>2, <3>5, <4>1 DEF Finds, Keeps, NoGap
      <4>4. Held(r)' /\ rframe'.type # "rst" => Number(rframe') = Len(Frames(r)')
        BY <1>0, <1>2, <3>1, <4>1 DEF NoGap
      <4> QED
        BY <1>0, <2>1, <3>1, <4>2, <4>3, <4>4, LineRests
    <3> QED
      BY <3>4, <3>5
  <2>5. ~HandedOver \/ toGw' = toGw
    BY GatewayReads, HeadComes DEF HandedOver, Reads
  <2> QED
    BY <2>2, <2>3, <2>4, <2>5, GatewayReads, HeadComes
<1> QED
  BY <1>0, <1>1, <1>2, InTableStep

\* The CLI sends the next frame of a response.
LEMMA LineSent ==
  ASSUME Exchange, CliStep, NEW q \in Requests, NEW t \in Cli!AnswerTypes, AnswersOne(q, t),
         NEW r \in Requests, NEW s \in Nat, InLine(r, s)
  PROVE  \E z \in Nat : InLine(r, z)'
<1> USE DEF Exchange, UploadInv
<1>1. Base(r)' = Base(r) /\ Base(r) \in Nat
  <2>1. Frames(r)' = Frames(r) /\ (Held(r)' <=> Held(r)) /\ rframe' = rframe
    BY GatewayRests DEF Frames, Held
  <2>2. Len(Frames(r)) \in Nat
    BY FramesType DEF ExTypeOK
  <2> HIDE DEF Frames
  <2> QED
    BY <2>1, <2>2 DEF Base
<1>2. \A n \in Nat : Flying(r, n)' <=> \/ Flying(r, n)
                                       \/ t # "rst" /\ r = q /\ n = IF t = "init" THEN 0 ELSE chunks[q] + 1
  BY FlyingSent
<1>3. CASE r # q
  <2>1. call'[r] = call[r] /\ chunks'[r] = chunks[r]
    BY <1>3, AnswersOneCases DEF CallRests
  <2> QED
    BY <1>1, <1>2, <1>3, <2>1, LineRests
<1>4. CASE r = q
  <2>1. /\ \/ t = "init" /\ call[r] = "request" /\ call'[r] = "stream" /\ chunks'[r] = chunks[r]
           \/ t = "data" /\ call[r] = "stream" /\ call'[r] = "stream" /\ chunks'[r] = chunks[r] + 1
           \/ t = "end" /\ call[r] = "stream" /\ call'[r] = "over" /\ chunks'[r] = chunks[r]
           \/ t = "rst" /\ call[r] \in {"request", "stream"} /\ call'[r] = "over" /\ chunks'[r] = chunks[r]
        /\ call[r] = "request" => chunks[r] = 0
        /\ chunks[r] \in Nat
    BY <1>4, AnswersOneCases, ExchangeAssumption DEF Served, ExTypeOK, CliType
  <2>2. CASE t = "rst"
    <3>1. InLine(r, s)'
      <4>1. \A n \in Nat : Flying(r, n)' <=> Flying(r, n)
        BY <1>2, <2>2
      <4> QED
        BY <1>1, <2>1, <2>2, <4>1 DEF InLine
    <3> QED
      BY <3>1
  <2>3. CASE t # "rst"
    <3>1. s = (IF t = "init" THEN 0 ELSE chunks[r] + 1) /\ Base(r) <= s
      BY <2>1, <2>3 DEF InLine
    <3>2. \A n \in Nat : Flying(r, n)' <=> Flying(r, n) \/ n = s
      BY <1>2, <1>4, <2>3, <3>1
    <3>3. \A n \in Nat : Flying(r, n) <=> Base(r) <= n /\ n < s
      BY DEF InLine
    <3>4. s + 1 \in Nat /\ Base(r) <= s + 1
      BY <1>1, <3>1
    <3>5. \A n \in Nat : Flying(r, n)' <=> Base(r) <= n /\ n < s + 1
      BY <1>1, <3>1, <3>2, <3>3
    <3>6. /\ call'[r] \notin {"none", "request"}
          /\ call'[r] = "stream" => s + 1 = chunks'[r] + 1
      BY <2>1, <2>3, <3>1
    <3>7. InLine(r, s + 1)'
      BY <1>1, <3>4, <3>5, <3>6 DEF InLine
    <3> QED
      BY <3>4, <3>7
  <2> QED
    BY <2>2, <2>3
<1> QED
  BY <1>3, <1>4

\* The CLI handles a frame of a request.
LEMMA LineHandled ==
  ASSUME Exchange, CliStep, NEW f \in GwFrames, Handled(f),
         NEW r \in Requests, NEW s \in Nat, InLine(r, s)
  PROVE  InLine(r, s)'
<1> USE DEF Exchange, UploadInv
<1>1. Base(r)' = Base(r) /\ toGw' = toGw
  BY GatewayRests DEF Base, Held, Frames, Handled
<1>2. \A n \in Nat : Flying(r, n)' <=> Flying(r, n)
  BY <1>1 DEF Flying
<1>3. PICK q, n : q = Owner(f) /\ n = Number(f)
  OBVIOUS
<1>4. q \in Requests /\ Takes(f, q, n) /\ chunks' = chunks /\ call[q] = "none"
  BY <1>3, UploadTaken DEF Sent
<1>5. call'[r] = call[r] \/ (call[r] = "none" /\ call'[r] = "request")
  BY <1>4 DEF Takes, ExTypeOK, CliType
<1> QED
  BY <1>1, <1>2, <1>4, <1>5 DEF InLine

LEMMA NoGapStep ==
  ASSUME Exchange, ExNext
  PROVE  NoGap'
<1> USE DEF Exchange, UploadInv
<1> HIDE DEF Frames
<1> SUFFICES ASSUME NEW r \in Requests, r \notin tainted'
             PROVE  /\ \A k \in Nat, f \in PeerFrames : Given(r, k, f)' /\ f.type # "rst" => Number(f) = k - 1
                    /\ rpc' \in {"select", "parked"} /\ rstream' = r /\ rframe'.type # "rst" =>
                         Number(rframe') = Len(Frames(r)')
                    /\ InTable(r)' =>
                         /\ Held(r)' /\ rframe'.type # "rst" => Number(rframe') = Len(Frames(r)')
                         /\ Held(r)' /\ rpc' # "lookup" => rstream' = r
                         /\ \E s \in Nat : InLine(r, s)'
  BY DEF NoGap
<1>0. r \in Requests \ tainted /\ TypeOK
  BY CliCases DEF ExNext, GatewayStep, ExTypeOK
<1>1. CASE GatewayStep
  <2>1. \/ HandedOver /\ toGw' = toGw
        \/ SameFrames /\ Reads
        \/ SameFrames /\ toGw' = toGw /\ (Finds \/ Keeps \/ rpc' \notin Holding)
    BY <1>1, GatewayReads, HeadComes
  <2>2. rpc' \in {"select", "parked"} /\ rstream' = r /\ rframe'.type # "rst" =>
          Number(rframe') = Len(Frames(r)')
    <3>1. CASE Finds /\ SameFrames
      <4>1. rstream' = r => Held(r) /\ InTable(r)
        BY <1>0, <3>1, FoundIsOwner DEF Finds, Held, Holding
      <4> QED
        BY <1>0, <3>1, <4>1 DEF Finds, NoGap, SameFrames
    <3>2. CASE Keeps /\ SameFrames
      BY <1>0, <3>2 DEF Keeps, NoGap, SameFrames
    <3> QED
      BY <2>1, <3>1, <3>2 DEF HandedOver, Reads, Holding
  <2>3. ASSUME NEW k \in Nat, NEW f \in PeerFrames, Given(r, k, f)', f.type # "rst"
        PROVE  Number(f) = k - 1
    <3>1. CASE Given(r, k, f)
      BY <1>0, <2>3, <3>1 DEF NoGap
    <3>2. CASE HandedOver /\ r = rstream /\ f = rframe /\ k = Len(Frames(r)) + 1
      <4>1. Number(f) = Len(Frames(r)) /\ Len(Frames(r)) \in Nat
        BY <1>0, <2>3, <3>2, FramesType DEF NoGap, HandedOver
      <4> QED
        BY <3>2, <4>1
    <3> QED
      BY <1>0, <2>1, <2>3, <3>1, <3>2, GivenStep DEF SameFrames, Given
  <2> QED
    BY <1>1, <2>2, <2>3, LineByGateway
<1>2. CASE CliStep
  <2>1. UNCHANGED <<rpc, rframe, rstream, sid, streams>> /\ Frames(r)' = Frames(r)
    BY <1>2, GatewayRests DEF Frames
  <2>2. InTable(r)' => \E s \in Nat : InLine(r, s)'
    <3> SUFFICES ASSUME InTable(r) PROVE \E s \in Nat : InLine(r, s)'
      BY <2>1 DEF InTable
    <3>1. PICK s \in Nat : InLine(r, s)
      BY <1>0 DEF NoGap
    <3> QED
      BY <1>2, <3>1, CliSteps, LineSent, LineHandled
  <2> QED
    BY <1>0, <2>1, <2>2 DEF NoGap, Given, InTable, Held
<1> QED
  BY <1>1, <1>2 DEF ExNext

-----------------------------------------------------------------------------
LEMMA ExInitExchange == ExInit => Exchange /\ Answers
<1> SUFFICES ASSUME ExInit PROVE Exchange /\ Answers
  OBVIOUS
<1> USE DEF ExInit, Cli!CliInit
<1>0. pending = [i \in Ids |-> None]
  BY DEF Cli!Ids, Ids, Cli!MaxId, MaxId
<1>1. Init /\ TypeOK /\ Discipline /\ FoundById /\ Answers
  BY InitTypeOK, InitDiscipline, OrderInit DEF Order, Init, GwInit, Answers
<1>2. ExTypeOK
  <2>1. <<>> \in Seq(Requests \X Nat) /\ 0 \in 0..MaxChunks
    BY ExchangeAssumption
  <2>2. pending \in [Ids -> {None} \cup Partial]
    BY <1>0
  <2>4. body \in [Requests -> Seq(Requests \X Nat)]
    BY <2>1
  <2>3. /\ call \in [Requests -> {"none", "request", "stream", "over"}]
        /\ callId \in [Requests -> Ids \cup {0}]
        /\ chunks \in [Requests -> 0..MaxChunks]
    BY <2>1
  <2> QED
    BY <1>1, <2>2, <2>3, <2>4 DEF ExTypeOK, CliType
<1>3. /\ close = "open" /\ link = "up" /\ wsOpen = TRUE /\ rpc = "read" /\ crash = "none"
      /\ toCli = <<>> /\ toGw = <<>> /\ tainted = {}
      /\ pc = [r \in Requests |-> "idle"] /\ sent = [r \in Requests |-> 0]
      /\ sid = [r \in Requests |-> 0]
      /\ got = [r \in Requests |-> <<>>] /\ queue = [r \in Requests |-> <<>>]
  BY <1>1 DEF Init, GwInit
<1>4. Up
  BY <1>3 DEF Up
<1>5. \A r \in Requests : Frames(r) = <<>> /\ Len(Frames(r)) = 0
  BY <1>3, EmptyFrames, ConcatEmptySeq, EmptySeq DEF Frames
<1> HIDE DEF Frames
<1>6. Len(toCli) = 0 /\ Len(toGw) = 0
  BY <1>3, EmptySeq
<1>7. Served
  BY <1>3, <1>5 DEF Served, Live, Waiting, Unsent
<1>8. Upload /\ UploadDone
  <2>1. \A k \in Nat, f \in GwFrames : ~At(k, f)
    BY <1>6 DEF At
  <2>2. \A k \in Nat, i \in Ids, r \in Requests, n \in Nat : ~Goes(k, i, r, n)
    BY <1>3 DEF Goes
  <2>3. \A i \in Ids, p \in Partial : pending[i] # p
    <3>1. None \notin Partial
      BY ExchangeAssumption DEF Partial
    <3> QED
      BY <1>0, <3>1
  <2> QED
    BY <2>1, <2>2, <2>3 DEF Upload, UploadDone
<1>9. \A r \in Requests, k \in Nat, f \in PeerFrames : ~Given(r, k, f)
  BY <1>5 DEF Given
<1>10. Answering
  <2>1. \A k \in Nat, f \in PeerFrames : ~Coming(k, f)
    BY <1>6 DEF Coming
  <2> QED
    BY <1>3, <1>9, <2>1 DEF Answering, Holding
<1>11. \A r \in Requests : ~InTable(r)
  BY <1>3 DEF InTable
<1>12. Clean /\ NoGap
  BY <1>3, <1>9, <1>11 DEF Clean, NoGap
<1> QED
  BY <1>1, <1>2, <1>4, <1>7, <1>8, <1>10, <1>12 DEF Exchange, UploadInv

LEMMA ExchangeStutter ==
  ASSUME Exchange, Answers, UNCHANGED exVars
  PROVE  Exchange' /\ Answers'
<1>0. UNCHANGED vars /\ UNCHANGED <<pending, call, callId, body, chunks, tainted>>
  BY DEF exVars, proxyVars
<1>1. UNCHANGED <<streams, sid, pc, sent, got, queue, rpc, rframe, rstream, toCli, toGw,
                  close, link, wsOpen, crash>>
  BY <1>0 DEF vars, gwVars, tableVars, chanVars, reqVars, readVars, closeVars, connVars, wireVars
<1>2. [Step]_vars
  BY <1>0
<1>3. ExTypeOK'
  <2>1. TypeOK'
    BY <1>2, TypeStep DEF Exchange, UploadInv, ExTypeOK
  <2> QED
    BY <1>0, <2>1 DEF Exchange, UploadInv, ExTypeOK, CliType
<1>4. Discipline' /\ FoundById' /\ Answers'
  BY <1>2, StepDiscipline, FoundByIdStep, AnswersStep DEF Exchange, UploadInv, ExTypeOK
<1>5. Up'
  BY <1>1 DEF Exchange, UploadInv, Up
<1>6. \A r : Frames(r)' = Frames(r)
  BY <1>1 DEF Frames
<1>7. Served'
  BY <1>0, <1>1, <1>6 DEF Exchange, UploadInv, Served
<1>8. UploadDone'
  BY <1>0, <1>1 DEF Exchange, UploadInv, UploadDone, Numbered
<1>9. Upload'
  <2>1. /\ \A k \in Nat, f \in GwFrames : /\ At(k, f)' => At(k, f)
                                          /\ Sent(f) => Sent(f)'
                                          /\ InTurn(k, f) => InTurn(k, f)'
        /\ \A k, i, r, n : Follows(k, i, r, n) => Follows(k, i, r, n)'
        /\ \A k, i, r, n : Goes(k, i, r, n)' => Goes(k, i, r, n)
        /\ \A i, p : Begun(i, p) => Begun(i, p)'
    BY <1>0, <1>1 DEF At, Sent, InTurn, Follows, Goes, Begun
  <2> QED
    BY <1>0, <2>1 DEF Exchange, UploadInv, Upload
<1>10. /\ \A r, k, f : Given(r, k, f)' <=> Given(r, k, f)
       /\ \A r : (NoneComing(r)' <=> NoneComing(r)) /\ (Held(r)' <=> Held(r)) /\ (Gone(r)' <=> Gone(r))
       /\ \A r : InTable(r)' <=> InTable(r)
  BY <1>0, <1>1, <1>6 DEF Given, NoneComing, Held, Gone, InTable
<1>11. Answering'
  <2>1. \A k \in Nat, f \in PeerFrames : /\ Coming(k, f)' => Coming(k, f)
                                         /\ Answered(f) => Answered(f)'
                                         /\ InOrder(k, f) => InOrder(k, f)'
    BY <1>0, <1>1 DEF Coming, Answered, InOrder
  <2> QED
    BY <1>1, <1>10, <2>1 DEF Exchange, Answering
<1>12. Clean'
  BY <1>0, <1>1, <1>10 DEF Exchange, Clean
<1>13. NoGap'
  <2>1. \A r, n : Flying(r, n)' <=> Flying(r, n)
    BY <1>1 DEF Flying
  <2>2. \A r : Base(r)' = Base(r)
    BY <1>1, <1>6, <1>10 DEF Base
  <2>3. \A r, s : InLine(r, s) => InLine(r, s)'
    BY <1>0, <2>1, <2>2 DEF InLine
  <2> QED
    BY <1>0, <1>1, <1>6, <1>10, <2>3 DEF Exchange, NoGap
<1> QED
  BY <1>3, <1>4, <1>5, <1>7, <1>8, <1>9, <1>11, <1>12, <1>13 DEF Exchange, UploadInv

LEMMA ExchangeStep == Exchange /\ Answers /\ [ExNext]_exVars => Exchange' /\ Answers'
<1> SUFFICES ASSUME Exchange, Answers, ExNext PROVE Exchange' /\ Answers'
  <2>1. CASE UNCHANGED exVars
    BY <2>1, ExchangeStutter
  <2> QED
    BY <2>1
<1> USE DEF Exchange, UploadInv
<1>1. ExTypeOK'
  <2>1. toCli # <<>> => Head(toCli).id \in Ids
    <3> SUFFICES ASSUME toCli # <<>> PROVE Head(toCli).id \in Ids
      OBVIOUS
    <3>1. Head(toCli) \in GwFrames /\ At(1, Head(toCli))
      BY Shifted DEF At, ExTypeOK, TypeOK, WireType
    <3>2. PICK f \in GwFrames : f = Head(toCli)
      BY <3>1
    <3> QED
      BY <3>1, <3>2 DEF Upload, Sent
  <2> QED
    BY <2>1, ExTypeStep
<1>2. Discipline' /\ FoundById' /\ Answers'
  <2>1. CASE GatewayStep
    BY <2>1, GatewayIsStep, StepDiscipline, FoundByIdStep, AnswersStep DEF ExTypeOK
  <2>2. CASE CliStep
    <3>1. UNCHANGED gwVars
      BY <2>2, CliCases
    <3>2. Discipline'
      BY <3>1, QuietStep DEF ExTypeOK, Quiet, gwVars, tableVars, chanVars, reqVars, closeVars
    <3> QED
      BY <3>1, <3>2 DEF FoundById, Answers, Whole, gwVars, reqVars, readVars
  <2> QED
    BY <2>1, <2>2 DEF ExNext
<1>3. Up'
  BY <1>1, <1>2, UpStep, HeadComes DEF ExTypeOK, TypeOK, Discipline
<1>4. Served' /\ Upload' /\ UploadDone'
  BY UploadStep
<1>5. Answering'
  BY AnsweringByGateway, AnsweringByCli DEF ExNext
<1>6. Clean' /\ NoGap'
  BY CleanStep, NoGapStep
<1> QED
  BY <1>1, <1>2, <1>3, <1>4, <1>5, <1>6

\* What a request's handler has taken it has been given.
LEMMA GivenOfTaken ==
  ASSUME TypeOK, NEW r \in Requests, NEW k \in 1..Len(got[r])
  PROVE  k \in Nat /\ got[r][k] \in PeerFrames /\ \A f : f = got[r][k] => Given(r, k, f)
<1> HIDE DEF Frames
<1>1. /\ got[r] \in Seq(PeerFrames) /\ Len(got[r]) \in Nat /\ Len(queue[r]) \in Nat
      /\ Len(Frames(r)) = Len(got[r]) + Len(queue[r])
      /\ Frames(r)[k] = got[r][k]
  BY FramesType
<1>2. \A n, m \in Nat : \A j \in 1..n : j \in Nat /\ j \in 1..(n + m)
  OBVIOUS
<1>3. k \in Nat /\ k \in 1..Len(Frames(r))
  BY <1>1, <1>2
<1>4. got[r][k] \in PeerFrames
  BY <1>1, ElementOfSeq
<1> QED
  BY <1>1, <1>3, <1>4 DEF Given

\* The inductive invariant of the two ends together: the order and the ownership of
\* what is in flight, in pendingStreams and in the response channels.
THEOREM ExchangeInvariant == ExSpec => [](Exchange /\ Answers)
BY ExInitExchange, ExchangeStep, PTL DEF ExSpec

\* Whatever the tunnel is doing for other requests, and whoever had the identifier
\* before, the local server is given the request's own body, whole and in order.
THEOREM WholeUpload == ExSpec => []UploadIntact
<1>1. Exchange => UploadIntact
  BY DEF Exchange, UploadInv, UploadDone, UploadIntact, Numbered
<1> QED
  BY <1>1, ExchangeInvariant, PTL

\* No cross-talk: a request that took over its identifier cleanly is given frames of
\* its own response only, in the order the CLI sent them and without a gap.
THEOREM OwnFramesOnly == ExSpec => []OwnResponse
<1>1. Exchange => OwnResponse
  <2> SUFFICES ASSUME Exchange, NEW r \in Requests \ tainted, NEW k \in 1..Len(got[r])
               PROVE  /\ got[r][k].body[1] = r
                      /\ got[r][k].type # "rst" => got[r][k].body[2] = k - 1
    BY DEF OwnResponse
  <2> USE DEF Exchange, UploadInv
  <2> HIDE DEF Frames
  <2>1. PICK f \in PeerFrames : f = got[r][k] /\ Given(r, k, f) /\ k \in Nat
    BY GivenOfTaken DEF ExTypeOK
  <2>2. Owner(f) = r /\ (f.type # "rst" => Number(f) = k - 1)
    BY <2>1 DEF Clean, NoGap
  <2> QED
    BY <2>1, <2>2 DEF Owner, Number
<1> QED
  BY <1>1, ExchangeInvariant, PTL

\* When ServeHTTP ends a response as complete, the CLI is done with the request and
\* every chunk of the local server's answer has been written to the visitor.
THEOREM WholeResponse == ExSpec => []CompleteIsWhole
<1>1. Exchange /\ Answers => CompleteIsWhole
  <2> SUFFICES ASSUME Exchange, Answers, NEW r \in Requests \ tainted, resp[r] = "complete"
               PROVE  call[r] = "over" /\ Len(got[r]) = chunks[r] + 2
    BY DEF CompleteIsWhole
  <2> USE DEF Exchange, UploadInv
  <2> HIDE DEF Frames
  <2>1. got[r] # <<>> /\ got[r][Len(got[r])].type = "end"
    BY DEF Answers, Whole
  <2>2. Len(got[r]) \in 1..Len(got[r])
    BY <2>1, FramesType, EmptySeq DEF ExTypeOK
  <2>3. PICK k \in Nat, f \in PeerFrames : k = Len(got[r]) /\ f = got[r][k] /\ Given(r, k, f)
    BY <2>2, GivenOfTaken DEF ExTypeOK
  <2>4. Owner(f) = r /\ Number(f) = k - 1 /\ f.type = "end"
    BY <2>1, <2>3 DEF Clean, NoGap
  <2>5. Answered(f)
    BY <2>3 DEF Answering
  <2>6. call[r] = "over" /\ k - 1 = chunks[r] + 1 /\ chunks[r] \in Nat
    BY <2>4, <2>5, ExchangeAssumption DEF Answered, Endings, ExTypeOK, CliType
  <2> QED
    BY <2>3, <2>6
<1> QED
  BY <1>1, ExchangeInvariant, PTL

\* While nobody closes the tunnel, the reader sends on a closed channel only for a
\* request that was abandoned before its response had ended, by itself or by one before
\* it under its identifier.
THEOREM PanicOnlyEarly == ExSpec => []PanicNeedsEarlyEnd
<1>1. Exchange => PanicNeedsEarlyEnd
  <2> SUFFICES ASSUME Exchange, crash = "send on closed channel", Ended(rstream), rstream \notin tainted
               PROVE  FALSE
    BY DEF PanicNeedsEarlyEnd
  <2> USE DEF Exchange, UploadInv
  <2>1. rpc = "select" /\ rstream \in Requests
    BY DEF Up, ExTypeOK, TypeOK, ReadType
  <2>2. Gone(rstream)
    BY <2>1, EndedIsGone DEF ExTypeOK
  <2>3. Owner(rframe) = rstream
    BY <2>1 DEF Clean
  <2> QED
    BY <2>1, <2>2, <2>3 DEF Gone, Held, Holding
<1> QED
  BY <1>1, ExchangeInvariant, PTL

=============================================================================
