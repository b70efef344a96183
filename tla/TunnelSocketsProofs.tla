-------------------------- MODULE TunnelSocketsProofs --------------------------
(***************************************************************************)
(* For any number of requests, connections, identifiers and chunks, and    *)
(* whatever is lost, paused or renewed: what the local server is given of  *)
(* a request, who is given the answer, and that it comes.                  *)
(*                                                                         *)
(* SocketInv is the way there: the frames of a request on its connection   *)
(* (InFlight), what has been put together of it (Waiting), who may follow  *)
(* it under its identifier (Later), and what has been handed over (Given). *)
(* Replies is the way back, and Coming says what there is of a request     *)
(* that has not been answered yet, on a connection that stays the only one.*)
(***************************************************************************)
EXTENDS TunnelSockets, SequenceTheorems, TLAPS

Owner(f)  == f.body[1]
Number(f) == f.body[2]

Live    == {"body", "pipe"}
Endings == {"end", "rst"}

\* The frames of streams, and all that goes to the CLI or comes from it.
StreamFrames ==
  [type : {"open", "data", "end", "rst"}, id : Ids, body : Requests \X Nat]

AuthFrame    == Cli!Frame("authok", 0, None)
CliFrames    == StreamFrames \cup {AuthFrame}
AnswerFrames == [type : Cli!AnswerTypes, id : Ids, body : Requests \X Nat]

\* What has come of a request that is not complete.
Partial == [meta : Requests, chunks : Seq(Requests \X Nat)]

CallType ==
  /\ pending \in [Ids -> {None} \cup Partial]
  /\ call \in [Requests -> {"none", "request", "stream", "over"}]
  /\ callId \in [Requests -> Ids \cup {0}]
  /\ body \in [Requests -> Seq(Requests \X Nat)]
  /\ chunks \in [Requests -> 0..MaxChunks]

SocketType ==
  /\ via \in [Requests -> {0} \cup Conns]
  /\ authed \subseteq welcomed /\ welcomed \subseteq 1..newest /\ newest \in {0} \cup Conns
  /\ proxy \in {0} \cup authed /\ (authed # {} => proxy # 0)
  /\ link \in [Conns -> {"up", "parting", "down"}]

RequestType ==
  /\ streams \in [Conns -> [Ids -> Requests \cup {None}]]
  /\ conn \in [Requests -> {0} \cup Conns]
  /\ sid \in [Requests -> {0} \cup Ids]
  /\ pc \in [Requests -> {"idle"} \cup Live \cup {"done"}]
  /\ sent \in [Requests -> 0..MaxBody]
  /\ early \subseteq Requests /\ crossed \subseteq Requests

WireType ==
  /\ toCli \in [Conns -> Seq(CliFrames)]
  /\ toGw \in [Conns -> Seq(AnswerFrames)]
  /\ got \in [Requests -> Seq(AnswerFrames)]

\* The table of a connection has the requests that are being served on it, and a
\* connection that is down carries nothing.
Served ==
  /\ \A r \in Requests : pc[r] \in Live => streams[conn[r]][sid[r]] = r
  /\ \A s \in Conns, i \in Ids, r \in Requests :
       streams[s][i] = r => conn[r] = s /\ sid[r] = i /\ pc[r] \in Live
  /\ \A r \in Requests : pc[r] # "idle" => conn[r] \in 1..newest /\ sid[r] \in Ids
  /\ \A r \in Requests : pc[r] = "idle" => /\ conn[r] = 0 /\ sid[r] = 0 /\ sent[r] = 0
                                           /\ call[r] = "none"
  /\ \A s \in Conns : link[s] = "down" => toCli[s] = <<>> /\ toGw[s] = <<>>

Types == CallType /\ SocketType /\ RequestType /\ WireType

LEMMA IdsAreNumbers ==
  ASSUME NEW i \in Ids
  PROVE  i \in Nat /\ i # 0
BY IdModAssumption DEF Ids, MaxId

LEMMA ConnsAreNumbers ==
  ASSUME NEW s \in Conns
  PROVE  s \in Nat /\ s >= 1
BY TunnelSocketsAssumption DEF Conns

LEMMA NoneIsNoRequest == None \notin Requests /\ None \notin Partial
BY TunnelSocketsAssumption DEF Partial

LEMMA AuthIsNoStream == \A f \in StreamFrames : f # AuthFrame /\ f.type # "authok"
BY DEF StreamFrames, AuthFrame, Cli!Frame

LEMMA FrameType ==
  ASSUME NEW t \in {"open", "data", "end", "rst"}, NEW i \in Ids, NEW r \in Requests, NEW n \in Nat
  PROVE  /\ Cli!Frame(t, i, <<r, n>>) \in StreamFrames /\ Cli!Frame(t, i, <<r, n>>).type = t
         /\ Cli!Frame(t, i, <<r, n>>).id = i
         /\ Owner(Cli!Frame(t, i, <<r, n>>)) = r /\ Number(Cli!Frame(t, i, <<r, n>>)) = n
BY DEF Cli!Frame, StreamFrames, Owner, Number

-----------------------------------------------------------------------------
\* What the CLI does with the first frame on s.
Takes(s, f) ==
  /\ s \in authed /\ toCli[s] # <<>> /\ f = Head(toCli[s])
  /\ toCli' = [toCli EXCEPT ![s] = Tail(@)]
  /\ Cli!OnStreamFrame(f)
  /\ crossed' = crossed \cup Meets(f)
  /\ via' = [r \in Requests |-> IF call'[r] # call[r] THEN proxy ELSE via[r]]
  /\ UNCHANGED <<authed, proxy, gwVars, link, toGw>>

\* The switch of the handlers, and what comes before it.
Drops(s, f) ==
  /\ s \notin authed /\ toCli[s] # <<>> /\ f = Head(toCli[s])
  /\ toCli' = [toCli EXCEPT ![s] = Tail(@)]
  /\ \/ f.type = "authok" /\ authed' = authed \cup {s} /\ proxy' = s
     \/ f.type # "authok" /\ UNCHANGED <<authed, proxy>>
  /\ UNCHANGED <<pending, call, callId, body, chunks, via, crossed, gwVars, link, toGw>>

\* pause() and stop(), with this.ws socket z, or one that is no connection's.
Clears(z) ==
  /\ ClearPending(z)
  /\ link' \in [Conns -> {"up", "parting", "down"}]
  /\ \A s \in Conns \ {z} : link'[s] = link[s]
  /\ z \in Conns => link'[z] = "parting" /\ link[z] = "up"

\* A step of handleStream for r.
Answers(r, t) ==
  /\ Cli!HandleStream(r, t)
  /\ toGw' = IF link[via[r]] = "up"
             THEN [toGw EXCEPT ![via[r]] = Append(@, Cli!AnswerFrame(r, t))]
             ELSE toGw
  /\ UNCHANGED <<via, authed, proxy, gwVars, crossed, link, toCli>>

LEMMA HandleFrameCases ==
  ASSUME NEW s \in Conns, HandleFrame(s)
  PROVE  Takes(s, Head(toCli[s])) \/ Drops(s, Head(toCli[s]))
BY DEF HandleFrame, HandleAuthOK, Forgets, HandleStreamFrame, Takes, Drops, NewProxy, cliVars

LEMMA HandleStreamCases ==
  ASSUME NEW r \in Requests, HandleStream(r)
  PROVE  \E t \in Cli!AnswerTypes : Answers(r, t)
BY DEF HandleStream, Answers

LEMMA PauseCases ==
  ASSUME Types, PauseUnlinked \/ \E s \in Conns : Pause(s)
  PROVE  \E z \in {0} \cup Conns : Clears(z)
<1>1. CASE PauseUnlinked
  <2>1. 0 \notin Conns
    BY ConnsAreNumbers
  <2> QED
    BY <1>1, <2>1 DEF PauseUnlinked, Clears, Types, SocketType
<1>2. ASSUME NEW s \in Conns, Pause(s) PROVE Clears(s)
  BY <1>2 DEF Pause, Clears, Types, SocketType
<1> QED
  BY <1>1, <1>2

\* The uploads that pendingStreams holds are requests'.
LEMMA ElsewhereType == \A z : Elsewhere(z) \subseteq Requests
BY DEF Elsewhere

\* The gateway's part.
LEMMA ToCliType ==
  ASSUME Types, NEW s \in Conns, NEW f \in CliFrames, ToCli(s, f)
  PROVE  toCli' \in [Conns -> Seq(CliFrames)]
<1>1. Append(toCli[s], f) \in Seq(CliFrames)
  BY AppendProperties DEF Types, WireType
<1> QED
  BY <1>1 DEF Types, WireType, ToCli

LEMMA HandledType ==
  ASSUME CallType, NEW f \in StreamFrames, Cli!OnStreamFrame(f)
  PROVE  CallType'
<1> USE DEF CallType, Cli!callVars
<1> DEFINE i == f.id
           p == pending[i]
<1>1. i \in Ids /\ f.body \in Requests \X Nat /\ f.body[1] \in Requests
  BY DEF StreamFrames
<1>2. CASE Cli!OnOpen(f)
  <2>1. [meta |-> f.body[1], chunks |-> <<>>] \in Partial
    BY <1>1 DEF Partial
  <2> QED
    BY <1>2, <2>1 DEF Cli!OnOpen
<1>3. CASE Cli!OnData(f)
  <2>1. p # None => p \in Partial
    BY <1>1
  <2>2. p # None => Cli!AddChunk(p, f.body) \in Partial
    <3> SUFFICES ASSUME p # None PROVE Cli!AddChunk(p, f.body) \in Partial
      OBVIOUS
    <3>1. Append(p.chunks, f.body) \in Seq(Requests \X Nat)
      BY <1>1, <2>1, AppendProperties DEF Partial
    <3> HIDE DEF p
    <3> QED
      BY <2>1, <3>1 DEF Cli!AddChunk, Partial
  <2>3. pending' \in [Ids -> {None} \cup Partial]
    BY <1>1, <1>3, <2>2 DEF Cli!OnData
  <2> QED
    BY <1>3, <2>3 DEF Cli!OnData
<1>4. CASE Cli!OnEnd(f)
  <2>1. pending' = [pending EXCEPT ![i] = None]
    BY <1>4 DEF Cli!OnEnd
  <2>2. CASE p = None
    BY <1>4, <2>1, <2>2 DEF Cli!OnEnd
  <2>3. CASE p # None
    <3>0. p \in Partial
      BY <1>1, <2>3
    <3>1. p.meta \in Requests /\ p.chunks \in Seq(Requests \X Nat)
      BY <3>0 DEF Partial
    <3>2. /\ call' = [call EXCEPT ![p.meta] = "request"]
          /\ callId' = [callId EXCEPT ![p.meta] = i]
          /\ body' = [body EXCEPT ![p.meta] = p.chunks]
          /\ UNCHANGED chunks
      BY <1>4, <2>3 DEF Cli!OnEnd
    <3> HIDE DEF p
    <3> QED
      BY <1>1, <2>1, <3>1, <3>2
  <2> QED
    BY <2>2, <2>3
<1>5. CASE Cli!OnRst(f)
  BY <1>5 DEF Cli!OnRst
<1> QED
  BY <1>2, <1>3, <1>4, <1>5 DEF Cli!OnStreamFrame

\* What a step of handleStream does, and the frame it sends.
LEMMA AnswerCases ==
  ASSUME Types, NEW r \in Requests, NEW t \in Cli!AnswerTypes, Cli!HandleStream(r, t)
  PROVE  /\ CallType' /\ pending' = pending /\ callId' = callId /\ body' = body
         /\ call[r] \in {"request", "stream"}
         /\ call'[r] = IF t \in Endings THEN "over" ELSE "stream"
         /\ \A q \in Requests \ {r} : call'[q] = call[q]
         /\ Owner(Cli!AnswerFrame(r, t)) = r
         /\ Cli!AnswerFrame(r, t).type = t /\ Cli!AnswerFrame(r, t).id = callId[r]
         /\ callId[r] \in Ids => Cli!AnswerFrame(r, t) \in AnswerFrames
<1> USE DEF Types, CallType
<1>1. MaxChunks \in Nat /\ chunks[r] \in 0..MaxChunks
  BY TunnelSocketsAssumption
<1>2. t \in {"init", "data", "end", "rst"}
  BY DEF Cli!AnswerTypes
<1>3. chunks[r] + 1 \in Nat
  BY <1>1
<1>4. Cli!AnswerFrame(r, t).body \in Requests \X Nat /\ Owner(Cli!AnswerFrame(r, t)) = r
  BY <1>3 DEF Cli!AnswerFrame, Cli!Frame, Owner
<1>5. Cli!AnswerFrame(r, t).type = t /\ Cli!AnswerFrame(r, t).id = callId[r]
  BY DEF Cli!AnswerFrame, Cli!Frame
<1>6. callId[r] \in Ids => Cli!AnswerFrame(r, t) \in AnswerFrames
  BY <1>2, <1>3 DEF Cli!AnswerFrame, Cli!Frame, AnswerFrames
<1>7. CASE t = "data"
  <2>1. /\ call[r] = "stream" /\ chunks[r] < MaxChunks
        /\ chunks' = [chunks EXCEPT ![r] = @ + 1]
        /\ UNCHANGED <<pending, call, callId, body>>
    BY <1>7 DEF Cli!HandleStream, Cli!Chunk
  <2>2. chunks[r] + 1 \in 0..MaxChunks
    BY <1>1, <2>1
  <2>3. CallType'
    BY <2>1, <2>2
  <2> QED
    BY <1>4, <1>5, <1>6, <1>7, <2>1, <2>3 DEF Endings
<1>8. CASE t \in {"init", "end", "rst"}
  <2>1. /\ call[r] \in {"request", "stream"}
        /\ call' = [call EXCEPT ![r] = IF t \in Endings THEN "over" ELSE "stream"]
        /\ UNCHANGED <<pending, callId, body, chunks>>
    BY <1>8 DEF Cli!HandleStream, Cli!Answered, Cli!Finished, Cli!Failed, Endings
  <2>2. CallType'
    BY <2>1
  <2> QED
    BY <1>4, <1>5, <1>6, <2>1, <2>2
<1> QED
  BY <1>2, <1>7, <1>8

LEMMA HeadType ==
  ASSUME Types, NEW s \in Conns, toCli[s] # <<>>
  PROVE  /\ Head(toCli[s]) \in CliFrames /\ Tail(toCli[s]) \in Seq(CliFrames)
         /\ [toCli EXCEPT ![s] = Tail(@)] \in [Conns -> Seq(CliFrames)]
         /\ Head(toCli[s]).type = "authok" <=> Head(toCli[s]) = AuthFrame
         /\ Head(toCli[s]).type # "authok" <=> Head(toCli[s]) \in StreamFrames
<1>1. toCli[s] \in Seq(CliFrames)
  BY DEF Types, WireType
<1>2. Head(toCli[s]) \in CliFrames /\ Tail(toCli[s]) \in Seq(CliFrames)
  BY <1>1, HeadTailProperties
<1>3. AuthFrame.type = "authok"
  BY DEF AuthFrame, Cli!Frame
<1>4. [toCli EXCEPT ![s] = Tail(@)] \in [Conns -> Seq(CliFrames)]
  BY <1>2 DEF Types, WireType
<1> QED
  BY <1>2, <1>3, <1>4, AuthIsNoStream DEF CliFrames

\* A frame that handleFrame makes something of.
LEMMA TakenType ==
  ASSUME Types, NEW s \in Conns, Takes(s, Head(toCli[s]))
  PROVE  Head(toCli[s]) \in StreamFrames
<1>1. toCli[s] # <<>> /\ Cli!OnStreamFrame(Head(toCli[s]))
  BY DEF Takes
<1>2. Head(toCli[s]).type # "authok"
  BY <1>1 DEF Cli!OnStreamFrame, Cli!OnOpen, Cli!OnData, Cli!OnEnd, Cli!OnRst
<1> QED
  BY <1>1, <1>2, HeadType

LEMMA BodyFrame ==
  ASSUME Types, NEW r \in Requests, NEW t \in {"open", "data", "end", "rst"},
         NEW n \in Nat, sid[r] \in Ids
  PROVE  Cli!Frame(t, sid[r], <<r, n>>) \in CliFrames
BY FrameType DEF CliFrames

LEMMA SentType ==
  ASSUME Types, NEW r \in Requests
  PROVE  /\ sent[r] \in Nat /\ sent[r] + 1 \in Nat /\ MaxBody \in Nat
         /\ sent[r] < MaxBody => sent[r] + 1 \in 0..MaxBody
BY TunnelSocketsAssumption DEF Types, RequestType

LEMMA LaterConn ==
  ASSUME Types, NEW s \in Conns, s = newest + 1
  PROVE  1..newest \subseteq 1..s /\ s \notin 1..newest
<1>1. newest \in Nat
  BY ConnsAreNumbers DEF Types, SocketType
<1> QED
  BY <1>1

LEMMA EarlierConn ==
  ASSUME Types
  PROVE  1..newest \subseteq Conns /\ newest \in Nat
         /\ (newest # 0 => newest \in Conns /\ newest \in 1..newest)
<1>1. newest \in Nat /\ (newest # 0 => newest \in Conns) /\ newest <= MaxConns
  BY ConnsAreNumbers, TunnelSocketsAssumption DEF Types, SocketType, Conns
<1> QED
  BY <1>1, TunnelSocketsAssumption DEF Conns

LEMMA TypesOfGateway ==
  ASSUME Types, Served,
         \/ \E s \in Conns : Register(s) \/ WriteAuthOK(s) \/ Dispatch(s)
         \/ \E r \in Requests : Request(r)
  PROVE  Types'
<1> USE DEF Types
<1>0. CallType' /\ UNCHANGED <<via, authed, proxy, link, crossed>>
  BY DEF CallType, Register, WriteAuthOK, Dispatch, Request, Open, SendData, SendEnd, Release, Reset,
     cliVars
<1>1. ASSUME NEW s \in Conns, Register(s) PROVE Types'
  <2>1. newest' \in {0} \cup Conns /\ welcomed' \subseteq 1..newest'
    BY <1>1, LaterConn DEF Register, SocketType
  <2> QED
    BY <1>0, <1>1, <2>1 DEF Register, SocketType, RequestType, WireType, reqVars
<1>2. ASSUME NEW s \in Conns, WriteAuthOK(s) PROVE Types'
  <2>1. toCli' \in [Conns -> Seq(CliFrames)]
    BY <1>2, ToCliType DEF WriteAuthOK, CliFrames, AuthFrame
  <2> QED
    BY <1>0, <1>2, <2>1 DEF WriteAuthOK, SocketType, RequestType, WireType, reqVars
<1>3. ASSUME NEW s \in Conns, Dispatch(s) PROVE Types'
  <2> DEFINE f == Head(toGw[s])
             r == streams[s][f.id]
  <2>1. toGw[s] \in Seq(AnswerFrames) /\ toGw[s] # <<>>
    BY <1>3 DEF Dispatch, WireType
  <2>2. f \in AnswerFrames /\ Tail(toGw[s]) \in Seq(AnswerFrames)
    BY <2>1, HeadTailProperties
  <2>3. r \in Requests \cup {None}
    BY <2>2 DEF RequestType, AnswerFrames
  <2>4. r # None => Append(got[r], f) \in Seq(AnswerFrames)
    BY <2>2, <2>3, AppendProperties DEF WireType
  <2>5. got' = (IF r = None THEN got ELSE [got EXCEPT ![r] = Append(@, f)])
    BY <1>3 DEF Dispatch
  <2>6. toGw' \in [Conns -> Seq(AnswerFrames)]
    BY <1>3, <2>2 DEF Dispatch, WireType
  <2>7. got' \in [Requests -> Seq(AnswerFrames)]
    BY <2>3, <2>4, <2>5 DEF WireType
  <2> QED
    BY <1>0, <1>3, <2>6, <2>7 DEF Dispatch, SocketType, RequestType, WireType
<1>4. ASSUME NEW r \in Requests, Open(r) PROVE Types'
  <2>1. PICK i \in Ids :
          /\ streams' = [streams EXCEPT ![newest][i] = r]
          /\ sid' = [sid EXCEPT ![r] = i]
          /\ conn' = [conn EXCEPT ![r] = newest]
          /\ ToCli(newest, Cli!Frame("open", i, <<r, 0>>))
    BY <1>4 DEF Open
  <2>2. newest \in Conns
    BY <1>4, EarlierConn DEF Open
  <2>3. Cli!Frame("open", i, <<r, 0>>) \in CliFrames
    BY FrameType DEF CliFrames
  <2>4. toCli' \in [Conns -> Seq(CliFrames)]
    BY <2>1, <2>2, <2>3, ToCliType
  <2>5. streams' \in [Conns -> [Ids -> Requests \cup {None}]] /\ sid' \in [Requests -> {0} \cup Ids]
        /\ conn' \in [Requests -> {0} \cup Conns]
    BY <2>1, <2>2 DEF RequestType
  <2>6. pc' \in [Requests -> {"idle"} \cup Live \cup {"done"}] /\ early' \subseteq Requests
    BY <1>4 DEF RequestType, Open, Live
  <2> QED
    BY <1>0, <1>4, <2>4, <2>5, <2>6 DEF Open, SocketType, RequestType, WireType
<1>5. ASSUME NEW r \in Requests, SendData(r) \/ SendEnd(r) \/ Reset(r) PROVE Types'
  <2>1. pc[r] = "body"
    BY <1>5 DEF SendData, SendEnd, Reset
  <2>2. sid[r] \in Ids /\ conn[r] \in Conns
    BY <2>1, EarlierConn DEF Served
  <2>3. toCli' \in [Conns -> Seq(CliFrames)]
    BY <1>5, <2>2, SentType, BodyFrame, ToCliType DEF SendData, SendEnd, Reset
  <2>4. sent' \in [Requests -> 0..MaxBody]
    BY <1>5, SentType DEF SendData, SendEnd, Reset, RequestType
  <2>5. streams' \in [Conns -> [Ids -> Requests \cup {None}]]
    BY <1>5, <2>2 DEF SendData, SendEnd, Reset, RequestType
  <2>6. pc' \in [Requests -> {"idle"} \cup Live \cup {"done"}]
    BY <1>5 DEF SendData, SendEnd, Reset, RequestType, Live
  <2> QED
    BY <1>0, <1>5, <2>3, <2>4, <2>5, <2>6 DEF SendData, SendEnd, Reset, SocketType, RequestType, WireType
<1>6. ASSUME NEW r \in Requests, Release(r) PROVE Types'
  BY <1>0, <1>6 DEF Release, SocketType, RequestType, WireType, Live
<1> QED
  BY <1>1, <1>2, <1>3, <1>4, <1>5, <1>6 DEF Request

\* A call has the identifier its request has, and answers on a socket that AUTH_OK has
\* come on.
Calls ==
  \A r \in Requests : call[r] # "none" =>
    pc[r] # "idle" /\ callId[r] = sid[r] /\ via[r] \in authed

\* The first m chunks of the body of request r.
Numbered(r, m) == [n \in 1..m |-> <<r, n>>]

\* Frame f is the k-th of those on their way to the CLI on connection s.
At(s, k, f) == k \in 1..Len(toCli[s]) /\ toCli[s][k] = f

\* AUTH_OK comes from a gateway that has written it.
Welcome == \A s \in Conns, k \in Nat : At(s, k, AuthFrame) => s \in welcomed

\* Frame number n of request r is on its way, ahead of position k of connection s.
Before(s, k, r, n) ==
  \E j \in Nat, g \in StreamFrames :
    j < k /\ At(s, j, g) /\ Owner(g) = r /\ Number(g) = n

Comes(s, r, n) ==
  \E j \in Nat, g \in StreamFrames : At(s, j, g) /\ Owner(g) = r /\ Number(g) = n

\* The OPEN of request q is on its way, behind position k and not behind position l.
Opened(s, k, q, l) ==
  \E j \in Nat, g \in StreamFrames :
    k < j /\ j <= l /\ At(s, j, g) /\ g.type = "open" /\ Owner(g) = q

\* A frame that its request has written on s.
Sent(s, f) ==
  /\ conn[Owner(f)] = s /\ sid[Owner(f)] = f.id /\ pc[Owner(f)] # "idle"
  /\ \/ f.type = "open" /\ Number(f) = 0
     \/ f.type = "data" /\ Number(f) \in 1..sent[Owner(f)]
     \/ f.type = "end" /\ Number(f) = sent[Owner(f)] + 1 /\ pc[Owner(f)] \in {"pipe", "done"}
     \/ f.type = "rst" /\ Number(f) = sent[Owner(f)] + 1 /\ pc[Owner(f)] = "done"

\* The frames of its request that are ahead of it come earlier in the request.
InTurn(s, k, f) ==
  \A j \in Nat, g \in StreamFrames :
    j < k /\ At(s, j, g) /\ Owner(g) = Owner(f) =>
      Number(g) < Number(f) /\ g.type \notin Endings

\* Of the frames of r number c comes next, and the others come without a gap.
Came(s, r, c) ==
  /\ \A k \in Nat, f \in StreamFrames :
       At(s, k, f) /\ Owner(f) = r /\ Number(f) # c => Before(s, k, r, Number(f) - 1)
  /\ pc[r] = "body" /\ link[s] # "down" /\ sent[r] + 1 # c => Comes(s, r, sent[r])

\* What the CLI has of a request that it has not got the end of.
Begun(i, p) ==
  /\ sid[p.meta] = i /\ call[p.meta] = "none" /\ conn[p.meta] \in authed
  /\ \A s \in Conns, k \in Nat, f \in StreamFrames :
       At(s, k, f) /\ Owner(f) = p.meta => f.type # "open"
  /\ p.meta \notin crossed =>
       /\ p.chunks = Numbered(p.meta, Len(p.chunks))
       /\ \A s \in Conns : conn[p.meta] = s => Came(s, p.meta, Len(p.chunks) + 1)

InFlight ==
  \A s \in Conns, k \in Nat, f \in StreamFrames : At(s, k, f) =>
    /\ Sent(s, f) /\ InTurn(s, k, f)
    /\ f.type = "open" => call[Owner(f)] = "none" /\ Came(s, Owner(f), 0)

Waiting == \A i \in Ids, p \in Partial : pending[i] = p => Begun(i, p)

\* The OPEN of r is at position k, or has been handled and r is in pendingStreams.
Starts(s, k, r) ==
  \/ \E g \in StreamFrames : At(s, k, g) /\ g.type = "open" /\ Owner(g) = r
  \/ k = 0 /\ conn[r] = s /\ \E i \in Ids, p \in Partial : pending[i] = p /\ p.meta = r

\* What comes of q behind that begins with its OPEN, and r has given up by then.
After(s, k, r, q) ==
  /\ \A l \in Nat, f \in StreamFrames :
       k < l /\ At(s, l, f) /\ Owner(f) = q => Opened(s, k, q, l)
  /\ pc[q] = "body" /\ link[s] # "down" => \E l \in Nat : Opened(s, k, q, l)
  /\ \A l \in Nat : Opened(s, k, q, l) => pc[r] = "done"

\* An identifier is taken over only from a request that has let go of it.
Later ==
  \A s \in Conns, k \in Nat, r \in Requests : \A q \in Requests \ {r} :
    conn[q] = s /\ sid[q] = sid[r] /\ Starts(s, k, r) => After(s, k, r, q)

\* The local server has been given the whole of what was not mixed up.
Given ==
  \A r \in Requests \ crossed : call[r] # "none" =>
    pc[r] \in {"pipe", "done"} /\ body[r] = Numbered(r, sent[r])

Uploads == InFlight /\ Waiting /\ Later /\ Given

LEMMA TypesOfCli ==
  ASSUME Types, Served, Calls, Welcome,
         \/ \E s \in Conns : HandleFrame(s) \/ Loss(s)
         \/ \E z \in {0} \cup Conns : Clears(z)
         \/ \E r \in Requests : HandleStream(r)
  PROVE  Types'
<1>1. ASSUME NEW s \in Conns, Takes(s, Head(toCli[s])) PROVE Types'
  <2>1. Head(toCli[s]) \in StreamFrames /\ toCli[s] # <<>>
    BY <1>1, TakenType DEF Takes
  <2>2. CallType'
    BY <1>1, <2>1, HandledType DEF Types, Takes
  <2>3. toCli' \in [Conns -> Seq(CliFrames)]
    BY <1>1, <2>1, HeadType DEF Takes
  <2>4. proxy \in {0} \cup Conns
    BY EarlierConn DEF Types, SocketType
  <2>5. via' \in [Requests -> {0} \cup Conns]
    BY <1>1, <2>4 DEF Takes, Types, SocketType
  <2>6. crossed' \subseteq Requests
    <3>1. Owner(Head(toCli[s])) \in Requests /\ Head(toCli[s]).id \in Ids
      BY <2>1 DEF StreamFrames, Owner
    <3>2. pending[Head(toCli[s]).id] # None => pending[Head(toCli[s]).id].meta \in Requests
      BY <3>1 DEF Types, CallType, Partial
    <3>3. Meets(Head(toCli[s])) \subseteq Requests
      BY <3>1, <3>2 DEF Meets, Owner
    <3> QED
      BY <1>1, <3>3 DEF Takes, Types, RequestType
  <2> QED
    BY <1>1, <2>2, <2>3, <2>5, <2>6 DEF Takes, Types, SocketType, RequestType, WireType, gwVars, reqVars
<1>2. ASSUME NEW s \in Conns, Drops(s, Head(toCli[s])) PROVE Types'
  <2>1. toCli' \in [Conns -> Seq(CliFrames)]
    BY <1>2, HeadType DEF Drops
  <2>2. CallType' /\ RequestType' /\ UNCHANGED <<toGw, got>>
    BY <1>2 DEF Drops, Types, CallType, RequestType, gwVars, reqVars
  <2>3. Head(toCli[s]).type = "authok" => s \in welcomed
    <3>1. toCli[s] \in Seq(CliFrames) /\ toCli[s] # <<>>
      BY <1>2 DEF Drops, Types, WireType
    <3>2. Head(toCli[s]) = toCli[s][1] /\ 1 \in 1..Len(toCli[s])
      BY <3>1, LenProperties, EmptySeq
    <3> QED
      BY <1>2, <3>2, HeadType DEF Welcome, At, Drops
  <2>4. s # 0
    BY ConnsAreNumbers
  <2>5. SocketType'
    BY <1>2, <2>3, <2>4 DEF Drops, Types, SocketType, gwVars
  <2> QED
    BY <2>1, <2>2, <2>5 DEF Types, WireType
<1>3. ASSUME NEW r \in Requests, NEW t \in Cli!AnswerTypes, Answers(r, t) PROVE Types'
  <2>1. CallType' /\ call[r] # "none"
    BY <1>3, AnswerCases DEF Answers
  <2>2. via[r] \in Conns /\ callId[r] \in Ids
    BY <2>1, EarlierConn DEF Calls, Served, Types, SocketType
  <2>3. Append(toGw[via[r]], Cli!AnswerFrame(r, t)) \in Seq(AnswerFrames)
    BY <1>3, <2>2, AnswerCases, AppendProperties DEF Answers, Types, WireType
  <2>4. toGw' \in [Conns -> Seq(AnswerFrames)]
    BY <1>3, <2>2, <2>3 DEF Answers, Types, WireType
  <2> QED
    BY <1>3, <2>1, <2>4 DEF Answers, Types, SocketType, RequestType, WireType, gwVars, reqVars
<1>4. ASSUME NEW s \in Conns, Loss(s) PROVE Types'
  <2>1. <<>> \in Seq(CliFrames) /\ <<>> \in Seq(AnswerFrames)
    OBVIOUS
  <2>2. CallType' /\ RequestType'
    BY <1>4 DEF Loss, Types, CallType, RequestType, cliVars, gwVars, reqVars
  <2>3. SocketType'
    BY <1>4 DEF Loss, Types, SocketType, cliVars, gwVars
  <2>4. WireType'
    BY <1>4, <2>1 DEF Loss, Types, WireType, gwVars, reqVars
  <2> QED
    BY <2>2, <2>3, <2>4 DEF Types
<1>5. ASSUME NEW z \in {0} \cup Conns, Clears(z) PROVE Types'
  <2>1. CallType'
    BY <1>5 DEF Clears, ClearPending, Types, CallType
  <2>2. RequestType'
    BY <1>5, ElsewhereType DEF Clears, ClearPending, Types, RequestType, gwVars, reqVars
  <2>3. SocketType'
    BY <1>5 DEF Clears, ClearPending, Types, SocketType, gwVars
  <2>4. WireType'
    BY <1>5 DEF Clears, ClearPending, Types, WireType, gwVars, reqVars
  <2> QED
    BY <2>1, <2>2, <2>3, <2>4 DEF Types
<1> QED
  BY <1>1, <1>2, <1>3, <1>4, <1>5, HandleFrameCases, HandleStreamCases

LEMMA FrameAt ==
  ASSUME Types, NEW s \in Conns, NEW k \in Nat, NEW f, At(s, k, f)
  PROVE  f \in CliFrames /\ k >= 1 /\ k <= Len(toCli[s]) /\ Len(toCli[s]) \in Nat
<1>1. toCli[s] \in Seq(CliFrames)
  BY DEF Types, WireType
<1>2. Len(toCli[s]) \in Nat
  BY <1>1, LenProperties
<1>3. k \in 1..Len(toCli[s]) /\ f = toCli[s][k]
  BY DEF At
<1> QED
  BY <1>1, <1>2, <1>3, ElementOfSeq

\* A frame is put behind the others on its connection, unless that is down.
LEMMA Wrote ==
  ASSUME Types, NEW s \in Conns, NEW f \in CliFrames, ToCli(s, f)
  PROVE  /\ Len(toCli[s]) \in Nat
         /\ \A z \in Conns, k \in Nat : \A g :
              At(z, k, g)' <=> \/ At(z, k, g)
                               \/ z = s /\ link[s] # "down" /\ k = Len(toCli[s]) + 1 /\ g = f
         /\ \A k \in Nat : \A g : At(s, k, g) => k < Len(toCli[s]) + 1
<1>1. toCli[s] \in Seq(CliFrames) /\ toCli \in [Conns -> Seq(CliFrames)]
  BY DEF Types, WireType
<1>2. Len(toCli[s]) \in Nat
  BY <1>1, LenProperties
<1>3. /\ Len(Append(toCli[s], f)) = Len(toCli[s]) + 1
      /\ \A k \in 1..Len(toCli[s]) : Append(toCli[s], f)[k] = toCli[s][k]
      /\ Append(toCli[s], f)[Len(toCli[s]) + 1] = f
  BY <1>1, AppendProperties
<1>4. ASSUME NEW z \in Conns \ {s}, NEW k \in Nat, NEW g PROVE At(z, k, g)' <=> At(z, k, g)
  <2>1. toCli'[z] = toCli[z]
    BY <1>1 DEF ToCli
  <2> QED
    BY <2>1 DEF At
<1>5. CASE link[s] = "down"
  <2>1. toCli'[s] = toCli[s]
    BY <1>1, <1>5 DEF ToCli
  <2>2. \A k \in Nat : \A g : At(s, k, g)' <=> At(s, k, g)
    BY <2>1 DEF At
  <2>3. \A k \in Nat : \A g : At(s, k, g) => k < Len(toCli[s]) + 1
    BY <1>2 DEF At
  <2> QED
    BY <1>2, <1>4, <1>5, <2>2, <2>3
<1>6. CASE link[s] # "down"
  <2>1. toCli'[s] = Append(toCli[s], f)
    BY <1>1, <1>6 DEF ToCli
  <2> DEFINE n == Len(toCli[s])
  <2>2. \A k \in Nat : k \in 1..(n + 1) <=> k \in 1..n \/ k = n + 1
    BY <1>2
  <2>3. ASSUME NEW k \in Nat, NEW g
        PROVE  At(s, k, g)' <=> At(s, k, g) \/ (k = n + 1 /\ g = f)
    <3>1. At(s, k, g)' <=> k \in 1..(n + 1) /\ Append(toCli[s], f)[k] = g
      BY <1>3, <2>1 DEF At
    <3>2. At(s, k, g) <=> k \in 1..n /\ toCli[s][k] = g
      BY DEF At
    <3>3. ~(n + 1 \in 1..n)
      BY <1>2
    <3> HIDE DEF n
    <3> QED
      BY <1>3, <2>2, <3>1, <3>2, <3>3 DEF n
  <2>4. \A k \in Nat : \A g : At(s, k, g) => k < n + 1
    BY <1>2 DEF At
  <2> QED
    BY <1>2, <1>4, <1>6, <2>3, <2>4
<1> QED
  BY <1>5, <1>6

\* The first frame on s is taken: the others come one place nearer.
LEMMA TookHead ==
  ASSUME Types, NEW s \in Conns, toCli[s] # <<>>, toCli' = [toCli EXCEPT ![s] = Tail(@)]
  PROVE  /\ At(s, 1, Head(toCli[s]))
         /\ \A k \in Nat : \A g : At(s, k, g)' => k >= 1 /\ k + 1 \in Nat /\ At(s, k + 1, g)
         /\ \A k \in Nat : \A g : At(s, k, g) /\ k # 1 => k - 1 \in Nat /\ At(s, k - 1, g)'
         /\ \A g : At(s, 1, g) => g = Head(toCli[s])
         /\ \A z \in Conns \ {s}, k \in Nat : \A g : At(z, k, g)' <=> At(z, k, g)
<1> DEFINE n == Len(toCli[s])
<1>1. toCli[s] \in Seq(CliFrames) /\ toCli \in [Conns -> Seq(CliFrames)]
  BY DEF Types, WireType
<1>2. n \in Nat /\ n >= 1
  BY <1>1, LenProperties, EmptySeq
<1>3. /\ Head(toCli[s]) = toCli[s][1] /\ Len(Tail(toCli[s])) = n - 1
      /\ \A k \in 1..Len(Tail(toCli[s])) : Tail(toCli[s])[k] = toCli[s][k + 1]
  BY <1>1, HeadTailProperties
<1>4. toCli'[s] = Tail(toCli[s]) /\ \A z \in Conns \ {s} : toCli'[z] = toCli[z]
  BY <1>1
<1> HIDE DEF n
<1>5. \A k \in Nat : k \in 1..(n - 1) => k >= 1 /\ k + 1 \in 1..n
  BY <1>2
<1>6. \A k \in Nat : k \in 1..n /\ k # 1 => k - 1 \in Nat /\ k - 1 \in 1..(n - 1) /\ (k - 1) + 1 = k
  BY <1>2
<1>7. \A k \in Nat : \A g : At(s, k, g)' <=> k \in 1..(n - 1) /\ toCli[s][k + 1] = g
  BY <1>3, <1>4 DEF At
<1>8. \A k \in Nat : \A g : At(s, k, g) <=> k \in 1..n /\ toCli[s][k] = g
  BY DEF At, n
<1>9. 1 \in 1..n
  BY <1>2
<1>10. \A k \in Nat : \A g : At(s, k, g)' => k >= 1 /\ k + 1 \in Nat /\ At(s, k + 1, g)
  BY <1>5, <1>7, <1>8
<1>11. \A k \in Nat : \A g : At(s, k, g) /\ k # 1 => k - 1 \in Nat /\ At(s, k - 1, g)'
  BY <1>6, <1>7, <1>8
<1> QED
  BY <1>3, <1>4, <1>8, <1>9, <1>10, <1>11 DEF At

-----------------------------------------------------------------------------
\* Steps that leave the frames to the CLI alone.
Rests ==
  /\ \A s \in Conns, k \in Nat, f \in StreamFrames : At(s, k, f)' <=> At(s, k, f)
  /\ UNCHANGED <<conn, sid, sent, body>> /\ crossed \subseteq crossed'
  /\ authed \subseteq authed'
  /\ \A s \in Conns : link'[s] # "down" => link[s] # "down"
  /\ \A r \in Requests : pc'[r] = pc[r] \/ (pc[r] \in Live /\ pc'[r] = "done")
  /\ \A r \in Requests : call'[r] = "none" <=> call[r] = "none"
  /\ \A i \in Ids, p \in Partial : pending'[i] = p => pending[i] = p

LEMMA OwnerType == \A f \in StreamFrames : Owner(f) \in Requests /\ Number(f) \in Nat
BY DEF StreamFrames, Owner, Number

LEMMA MetaType == \A p \in Partial : p.meta \in Requests
BY DEF Partial

LEMMA UploadsRest ==
  ASSUME Types, Uploads, Rests
  PROVE  Uploads'
<1>1. \A s \in Conns, k \in Nat, f \in StreamFrames : At(s, k, f)' <=> At(s, k, f)
  BY DEF Rests
<1>2. /\ conn' = conn /\ sid' = sid /\ sent' = sent /\ crossed \subseteq crossed' /\ body' = body
      /\ authed \subseteq authed'
      /\ \A s \in Conns : link'[s] # "down" => link[s] # "down"
      /\ \A r \in Requests : pc'[r] = pc[r] \/ (pc[r] \in Live /\ pc'[r] = "done")
      /\ \A r \in Requests : call'[r] = "none" <=> call[r] = "none"
      /\ \A i \in Ids, p \in Partial : pending'[i] = p => pending[i] = p
  BY DEF Rests
<1>3. \A s \in Conns, k \in Nat : \A r, n : Before(s, k, r, n)' <=> Before(s, k, r, n)
  BY <1>1 DEF Before
<1>4. \A s \in Conns : \A r, n : Comes(s, r, n)' <=> Comes(s, r, n)
  BY <1>1 DEF Comes
<1>5. \A s \in Conns, k \in Nat, l \in Nat : \A q : Opened(s, k, q, l)' <=> Opened(s, k, q, l)
  BY <1>1 DEF Opened
<1>6. \A s \in Conns, r \in Requests : \A c : Came(s, r, c) => Came(s, r, c)'
  BY <1>1, <1>2, <1>3, <1>4 DEF Came, Live
<1>7. InFlight'
  <2> SUFFICES ASSUME NEW s \in Conns, NEW k \in Nat, NEW f \in StreamFrames, At(s, k, f)
               PROVE  /\ Sent(s, f)' /\ InTurn(s, k, f)'
                      /\ f.type = "open" => call'[Owner(f)] = "none" /\ Came(s, Owner(f), 0)'
    BY <1>1 DEF InFlight
  <2>1. /\ Sent(s, f) /\ InTurn(s, k, f) /\ Owner(f) \in Requests
        /\ f.type = "open" => call[Owner(f)] = "none" /\ Came(s, Owner(f), 0)
    BY OwnerType DEF Uploads, InFlight
  <2>2. Sent(s, f)'
    BY <1>2, <2>1 DEF Sent, Live
  <2>3. InTurn(s, k, f)'
    BY <1>1, <2>1 DEF InTurn
  <2> QED
    BY <1>2, <1>6, <2>1, <2>2, <2>3
<1>8. Waiting'
  <2> SUFFICES ASSUME NEW i \in Ids, NEW p \in Partial, pending'[i] = p PROVE Begun(i, p)'
    BY DEF Waiting
  <2>1. Begun(i, p) /\ p.meta \in Requests
    BY <1>2, MetaType DEF Uploads, Waiting
  <2> QED
    BY <1>1, <1>2, <1>6, <2>1 DEF Begun
<1>9. Later'
  <2> SUFFICES ASSUME NEW s \in Conns, NEW k \in Nat, NEW r \in Requests, NEW q \in Requests \ {r},
                      conn[q] = s, sid[q] = sid[r], Starts(s, k, r)'
               PROVE  After(s, k, r, q)'
    BY <1>2 DEF Later
  <2>1. Starts(s, k, r)
    BY <1>1, <1>2 DEF Starts
  <2>2. After(s, k, r, q)
    BY <2>1 DEF Uploads, Later
  <2>3. /\ pc'[q] = "body" => pc[q] = "body"
        /\ pc[r] = "done" => pc'[r] = "done"
        /\ link'[s] # "down" => link[s] # "down"
    BY <1>2 DEF Live
  <2>4. \A l \in Nat : Opened(s, k, q, l)' <=> Opened(s, k, q, l)
    BY <1>5
  <2>5. \A l \in Nat, f \in StreamFrames : At(s, l, f)' <=> At(s, l, f)
    BY <1>1
  <2>6. \A l \in Nat, f \in StreamFrames :
          k < l /\ At(s, l, f)' /\ Owner(f) = q => Opened(s, k, q, l)'
    BY <2>2, <2>4, <2>5 DEF After
  <2>7. pc'[q] = "body" /\ link'[s] # "down" => \E l \in Nat : Opened(s, k, q, l)'
    BY <2>2, <2>3, <2>4 DEF After
  <2>8. \A l \in Nat : Opened(s, k, q, l)' => pc'[r] = "done"
    BY <2>2, <2>3, <2>4 DEF After
  <2> QED
    BY <2>6, <2>7, <2>8 DEF After
<1>10. Given'
  BY <1>2 DEF Uploads, Given, Live
<1> QED
  BY <1>7, <1>8, <1>9, <1>10 DEF Uploads

\* Request r writes a frame on connection s under identifier i, with the number n among
\* its own.
Writes(r, t, n, s, i) ==
  /\ UNCHANGED <<cliVars, newest, welcomed, got, crossed, link, toGw>>
  /\ conn'[r] = s /\ sid'[r] = i
  /\ ToCli(s, Cli!Frame(t, i, <<r, n>>))
  /\ \A q \in Requests \ {r} :
       pc'[q] = pc[q] /\ conn'[q] = conn[q] /\ sid'[q] = sid[q] /\ sent'[q] = sent[q]
  /\ \/ /\ t = "open" /\ n = 0
        /\ pc[r] = "idle" /\ pc'[r] = "body" /\ sent'[r] = sent[r]
        /\ s = newest /\ streams[s][i] = None
     \/ /\ t # "open" /\ n = sent[r] + 1
        /\ pc[r] = "body" /\ conn[r] = s /\ sid[r] = i
        /\ \/ t = "data" /\ pc'[r] = "body" /\ sent'[r] = n
           \/ t = "end" /\ pc'[r] = "pipe" /\ sent'[r] = sent[r]
           \/ t = "rst" /\ pc'[r] = "done" /\ sent'[r] = sent[r]

LEMMA WriteCases ==
  ASSUME Types, Served, NEW r \in Requests, Request(r), ~Release(r)
  PROVE  \E t \in {"open", "data", "end", "rst"}, n \in Nat, s \in Conns, i \in Ids :
            Writes(r, t, n, s, i)
<1>1. CASE Open(r)
  <2>1. PICK i \in Ids \ Taken(newest) :
          /\ sid' = [sid EXCEPT ![r] = i]
          /\ conn' = [conn EXCEPT ![r] = newest]
          /\ ToCli(newest, Cli!Frame("open", i, <<r, 0>>))
    BY <1>1 DEF Open
  <2>2. newest \in Conns
    BY <1>1, EarlierConn DEF Open
  <2>3. /\ conn'[r] = newest /\ sid'[r] = i
        /\ \A q \in Requests \ {r} : conn'[q] = conn[q] /\ sid'[q] = sid[q]
    BY <2>1 DEF Types, RequestType
  <2>4. pc' = [pc EXCEPT ![r] = "body"] /\ sent' = sent /\ pc[r] = "idle"
    BY <1>1 DEF Open
  <2>5. pc'[r] = "body" /\ \A q \in Requests \ {r} : pc'[q] = pc[q]
    BY <2>4 DEF Types, RequestType
  <2>6. streams[newest][i] = None
    BY <2>1 DEF Taken
  <2>7. UNCHANGED <<cliVars, newest, welcomed, got, crossed, link, toGw>>
    BY <1>1 DEF Open
  <2>8. Writes(r, "open", 0, newest, i)
    BY <2>1, <2>2, <2>3, <2>4, <2>5, <2>6, <2>7 DEF Writes
  <2> QED
    BY <2>2, <2>8
<1>2. ASSUME SendData(r) \/ SendEnd(r) \/ Reset(r)
      PROVE  \E t \in {"open", "data", "end", "rst"}, n \in Nat, s \in Conns, i \in Ids :
            Writes(r, t, n, s, i)
  <2>1. /\ pc[r] = "body" /\ conn' = conn /\ sid' = sid
        /\ UNCHANGED <<cliVars, newest, welcomed, got, crossed, link, toGw>>
    BY <1>2 DEF SendData, SendEnd, Reset
  <2>2. sid[r] \in Ids /\ conn[r] \in Conns
    BY <2>1, EarlierConn DEF Served, Live
  <2>3. sent[r] + 1 \in Nat
    BY SentType
  <2>4. CASE SendData(r)
    <3>1. pc' = pc /\ sent' = [sent EXCEPT ![r] = sent[r] + 1]
      BY <2>4 DEF SendData
    <3>2. Writes(r, "data", sent[r] + 1, conn[r], sid[r])
      BY <2>1, <2>2, <2>4, <3>1 DEF SendData, Writes, Types, RequestType
    <3> QED
      BY <2>2, <2>3, <3>2
  <2>5. CASE SendEnd(r)
    <3>1. sent' = sent /\ pc' = [pc EXCEPT ![r] = "pipe"]
      BY <2>5 DEF SendEnd
    <3>2. Writes(r, "end", sent[r] + 1, conn[r], sid[r])
      BY <2>1, <2>2, <2>5, <3>1 DEF SendEnd, Writes, Types, RequestType
    <3> QED
      BY <2>2, <2>3, <3>2
  <2>6. CASE Reset(r)
    <3>1. sent' = sent /\ pc' = [pc EXCEPT ![r] = "done"]
      BY <2>6 DEF Reset
    <3>2. Writes(r, "rst", sent[r] + 1, conn[r], sid[r])
      BY <2>1, <2>2, <2>6, <3>1 DEF Reset, Writes, Types, RequestType
    <3> QED
      BY <2>2, <2>3, <3>2
  <2> QED
    BY <1>2, <2>4, <2>5, <2>6
<1> QED
  BY <1>1, <1>2 DEF Request

\* Frame f comes to be the last one, at position l, unless the connection is down.
Last(s, l, f) ==
  /\ \A z \in Conns, k \in Nat : \A g :
       At(z, k, g)' <=> \/ At(z, k, g)
                        \/ z = s /\ link[z] # "down" /\ k = l /\ g = f
  /\ \A k \in Nat : \A g : At(s, k, g) => k < l

LEMMA WrittenFrames ==
  ASSUME Types, NEW r \in Requests, NEW t \in {"open", "data", "end", "rst"}, NEW n \in Nat,
         NEW s \in Conns, NEW i \in Ids, Writes(r, t, n, s, i)
  PROVE  \E f \in StreamFrames, l \in Nat :
           /\ Owner(f) = r /\ Number(f) = n /\ f.type = t /\ f.id = i /\ l >= 1
           /\ Last(s, l, f)
<1> DEFINE f == Cli!Frame(t, i, <<r, n>>)
<1>1. ToCli(s, f)
  BY DEF Writes
<1>2. /\ f \in StreamFrames /\ Owner(f) = r /\ Number(f) = n /\ f.type = t /\ f.id = i
  BY FrameType
<1>3. f \in CliFrames
  BY <1>2 DEF CliFrames
<1> HIDE DEF f
<1>4. /\ Len(toCli[s]) \in Nat
      /\ \A z \in Conns, k \in Nat : \A g :
              At(z, k, g)' <=> \/ At(z, k, g)
                               \/ z = s /\ link[s] # "down" /\ k = Len(toCli[s]) + 1 /\ g = f
      /\ \A k \in Nat : \A g : At(s, k, g) => k < Len(toCli[s]) + 1
  BY <1>1, <1>3, Wrote
<1>5. PICK l \in Nat : l = Len(toCli[s]) + 1 /\ l >= 1
  BY <1>4
<1>6. Last(s, l, f)
  BY <1>4, <1>5 DEF Last
<1> QED
  BY <1>2, <1>5, <1>6

\* What has begun, or is on its way, is of a request that has been sent.
LEMMA StartedIsSent ==
  ASSUME Types, Served, Uploads, NEW s \in Conns, NEW k \in Nat, NEW r \in Requests, Starts(s, k, r)
  PROVE  pc[r] # "idle" /\ conn[r] = s /\ sid[r] \in Ids
<1>1. CASE \E g \in StreamFrames : At(s, k, g) /\ g.type = "open" /\ Owner(g) = r
  BY <1>1 DEF Uploads, InFlight, Sent, Served
<1>2. CASE k = 0 /\ conn[r] = s /\ \E i \in Ids, p \in Partial : pending[i] = p /\ p.meta = r
  <2>1. sid[r] \in Ids
    BY <1>2 DEF Uploads, Waiting, Begun
  <2>2. sid[r] # 0
    BY <2>1, IdsAreNumbers
  <2> QED
    BY <1>2, <2>1, <2>2 DEF Served
<1> QED
  BY <1>1, <1>2 DEF Starts

LEMMA UploadsWrite ==
  ASSUME Types, Served, Uploads, NEW r \in Requests, NEW t \in {"open", "data", "end", "rst"},
         NEW n \in Nat, NEW s \in Conns, NEW i \in Ids, Writes(r, t, n, s, i)
  PROVE  Uploads'
<1>p. PICK f \in StreamFrames, l \in Nat :
        Owner(f) = r /\ Number(f) = n /\ f.type = t /\ f.id = i /\ l >= 1 /\ Last(s, l, f)
  BY WrittenFrames
<1>1. /\ f \in StreamFrames /\ Owner(f) = r /\ Number(f) = n /\ f.type = t /\ f.id = i
      /\ l \in Nat /\ l >= 1
      /\ \A z \in Conns, k \in Nat : \A g :
           At(z, k, g)' <=> \/ At(z, k, g)
                            \/ z = s /\ link[z] # "down" /\ k = l /\ g = f
      /\ \A k \in Nat : \A g : At(s, k, g) => k < l
  BY <1>p DEF Last
<1>0. s = conn'[r] /\ i = sid'[r]
  BY DEF Writes
<1>2. /\ s \in Conns /\ i \in Ids
      /\ UNCHANGED <<pending, call, body, authed, crossed, link>>
      /\ \A q \in Requests \ {r} :
           pc'[q] = pc[q] /\ conn'[q] = conn[q] /\ sid'[q] = sid[q] /\ sent'[q] = sent[q]
  BY DEF Writes, cliVars
<1>3. \/ /\ t = "open" /\ n = 0
         /\ pc[r] = "idle" /\ pc'[r] = "body" /\ sent'[r] = sent[r]
         /\ streams[s][i] = None
      \/ /\ t # "open" /\ n = sent[r] + 1
         /\ pc[r] = "body" /\ s = conn[r] /\ i = sid[r]
         /\ \/ t = "data" /\ pc'[r] = "body" /\ sent'[r] = n
            \/ t = "end" /\ pc'[r] = "pipe" /\ sent'[r] = sent[r]
            \/ t = "rst" /\ pc'[r] = "done" /\ sent'[r] = sent[r]
  BY DEF Writes
<1>4. sent[r] \in Nat /\ pc[r] \in {"idle", "body"}
  BY <1>3, SentType
<1>5. \A z \in Conns, k \in Nat : \A q, m : Before(z, k, q, m) => Before(z, k, q, m)'
  BY <1>1 DEF Before
<1>6. \A z \in Conns : \A q, m : Comes(z, q, m) => Comes(z, q, m)'
  BY <1>1 DEF Comes
<1>7. \A z \in Conns, k \in Nat, m \in Nat : \A q : Opened(z, k, q, m) => Opened(z, k, q, m)'
  BY <1>1 DEF Opened
<1>8. \A z \in Conns, k \in Nat, g \in StreamFrames :
        At(z, k, g) /\ Owner(g) = r => pc[r] = "body" /\ z = s /\ g.type \notin Endings
  BY <1>2, <1>3, <1>4 DEF Uploads, InFlight, Sent, Endings
<1>9. ASSUME NEW z \in Conns, NEW q \in Requests \ {r}, NEW c, Came(z, q, c)
      PROVE  Came(z, q, c)'
  <2>1. pc'[q] = pc[q] /\ sent'[q] = sent[q] /\ link' = link
    BY <1>2
  <2>2. \A k \in Nat, g \in StreamFrames : At(z, k, g)' /\ Owner(g) = q => At(z, k, g)
    BY <1>1
  <2> QED
    BY <1>5, <1>6, <1>9, <2>1, <2>2 DEF Came
<1>10. ASSUME NEW c, pc[r] = "body", Came(s, r, c)
       PROVE  Came(s, r, c)'
  <2>1. n = sent[r] + 1 /\ n - 1 = sent[r]
    BY <1>3, <1>4, <1>10
  <2>2. ASSUME NEW k \in Nat, NEW g \in StreamFrames, At(s, k, g)', Owner(g) = r, Number(g) # c
        PROVE  Before(s, k, r, Number(g) - 1)'
    <3>1. CASE At(s, k, g)
      BY <1>2, <1>5, <1>10, <2>2, <3>1 DEF Came
    <3>2. CASE link[s] # "down" /\ k = l /\ g = f
      <4>1. Comes(s, r, sent[r])
        BY <1>1, <1>10, <2>1, <2>2, <3>2 DEF Came
      <4>2. Before(s, k, r, sent[r])
        BY <1>1, <3>2, <4>1 DEF Comes, Before
      <4>3. Number(g) - 1 = sent[r]
        BY <1>1, <2>1, <3>2
      <4> QED
        BY <1>2, <1>5, <4>2, <4>3
    <3> QED
      BY <1>1, <1>2, <2>2, <3>1, <3>2
  <2>3. ASSUME pc'[r] = "body", link'[s] # "down", sent'[r] + 1 # c
        PROVE  sent'[r] = n /\ Comes(s, r, n)'
    <3>1. sent'[r] = n /\ link[s] # "down"
      BY <1>2, <1>3, <1>10, <2>3
    <3>2. At(s, l, f)'
      BY <1>1, <1>2, <3>1
    <3> QED
      BY <1>1, <3>1, <3>2 DEF Comes
  <2> QED
    BY <2>2, <2>3 DEF Came
<1>a. ASSUME NEW z \in Conns, NEW q \in Requests, NEW c, Came(z, q, c),
             q = r => z = s /\ pc[r] = "body"
      PROVE  Came(z, q, c)'
  <2>1. CASE q = r
    <3>1. Came(s, r, c)
      BY <1>a, <2>1
    <3>2. Came(s, r, c)'
      BY <1>10, <1>a, <2>1, <3>1
    <3> QED
      BY <1>a, <2>1, <3>2 DEF Came, Before, Comes, At
  <2> QED
    BY <1>9, <1>a, <2>1
<1>11. ASSUME NEW z \in Conns, NEW k \in Nat, NEW g \in StreamFrames, At(z, k, g)
       PROVE  /\ Sent(z, g)' /\ InTurn(z, k, g)'
              /\ g.type = "open" => call'[Owner(g)] = "none" /\ Came(z, Owner(g), 0)'
  <2>1. /\ Sent(z, g) /\ InTurn(z, k, g) /\ Owner(g) \in Requests /\ Number(g) \in Nat
        /\ g.type = "open" => call[Owner(g)] = "none" /\ Came(z, Owner(g), 0)
    BY <1>11, OwnerType DEF Uploads, InFlight
  <2>2. Sent(z, g)'
    <3>1. CASE Owner(g) # r
      BY <1>2, <2>1, <3>1 DEF Sent
    <3>2. CASE Owner(g) = r
      <4>1. pc[r] = "body" /\ z = s /\ g.type \notin Endings
        BY <1>8, <1>11, <3>2
      <4>2. /\ conn'[r] = z /\ sid'[r] = g.id /\ pc'[r] # "idle"
            /\ \/ g.type = "open" /\ Number(g) = 0
               \/ g.type = "data" /\ Number(g) \in 1..sent[r]
        BY <1>3, <2>1, <3>2, <4>1, <1>0 DEF Sent, Endings
      <4>3. 1..sent[r] \subseteq 1..sent'[r]
        BY <1>3, <1>4
      <4> QED
        BY <3>2, <4>2, <4>3 DEF Sent
    <3> QED
      BY <3>1, <3>2
  <2>3. InTurn(z, k, g)'
    <3>1. \A j \in Nat, h \in StreamFrames : j < k /\ At(z, j, h)' => At(z, j, h)
      BY <1>1, <1>11
    <3> QED
      BY <2>1, <3>1 DEF InTurn
  <2>4. g.type = "open" => call'[Owner(g)] = "none" /\ Came(z, Owner(g), 0)'
    BY <1>2, <1>8, <1>9, <1>10, <1>11, <2>1
  <2> QED
    BY <2>2, <2>3, <2>4
<1>12. ASSUME link[s] # "down"
       PROVE  /\ Sent(s, f)' /\ InTurn(s, l, f)'
              /\ f.type = "open" => call'[Owner(f)] = "none" /\ Came(s, Owner(f), 0)'
  <2>1. Sent(s, f)'
    BY <1>1, <1>3, <1>4, <1>0 DEF Sent
  <2>2. InTurn(s, l, f)'
    <3> SUFFICES ASSUME NEW j \in Nat, NEW g \in StreamFrames, j < l, At(s, j, g)', Owner(g) = r
                 PROVE  Number(g) < n /\ g.type \notin Endings
      BY <1>1 DEF InTurn
    <3>1. At(s, j, g)
      BY <1>1, <1>2
    <3>2. pc[r] = "body" /\ g.type \notin Endings
      BY <1>2, <1>8, <3>1
    <3>3. Sent(s, g)
      BY <1>2, <3>1 DEF Uploads, InFlight
    <3>4. Number(g) = 0 \/ Number(g) \in 1..sent[r]
      BY <3>2, <3>3 DEF Sent, Endings
    <3> QED
      BY <1>3, <1>4, <3>2, <3>4
  <2>3. ASSUME t = "open" PROVE call'[r] = "none" /\ Came(s, r, 0)'
    <3>1. pc[r] = "idle" /\ n = 0 /\ sent'[r] = sent[r]
      BY <1>3, <2>3
    <3>2. call'[r] = "none" /\ sent[r] = 0
      BY <1>2, <3>1 DEF Served
    <3>3. \A k \in Nat, g \in StreamFrames : At(s, k, g)' /\ Owner(g) = r => g = f
      BY <1>1, <1>2, <1>8, <3>1
    <3>4. At(s, l, f)'
      BY <1>1, <1>2, <1>12
    <3>5. Comes(s, r, 0)'
      BY <1>1, <3>1, <3>4 DEF Comes
    <3> QED
      BY <1>1, <3>1, <3>2, <3>3, <3>5 DEF Came
  <2> QED
    BY <1>1, <2>1, <2>2, <2>3
<1>13. InFlight'
  <2> SUFFICES ASSUME NEW z \in Conns, NEW k \in Nat, NEW g \in StreamFrames, At(z, k, g)'
               PROVE  /\ Sent(z, g)' /\ InTurn(z, k, g)'
                      /\ g.type = "open" => call'[Owner(g)] = "none" /\ Came(z, Owner(g), 0)'
    BY DEF InFlight
  <2>1. CASE At(z, k, g)
    BY <1>11, <2>1
  <2>2. CASE z = s /\ link[z] # "down" /\ k = l /\ g = f
    BY <1>12, <2>2
  <2> QED
    BY <1>1, <2>1, <2>2
<1>14. Waiting'
  <2> SUFFICES ASSUME NEW j \in Ids, NEW p \in Partial, pending'[j] = p PROVE Begun(j, p)'
    BY DEF Waiting
  <2>1. Begun(j, p) /\ p.meta \in Requests /\ sid[p.meta] = j
    BY <1>2, MetaType DEF Uploads, Waiting, Begun
  <2>2. pc[p.meta] # "idle"
    BY <2>1, IdsAreNumbers DEF Served
  <2>3. sid'[p.meta] = j /\ conn'[p.meta] = conn[p.meta]
    BY <1>2, <1>3, <2>1, <2>2, <1>0
  <2>4. call'[p.meta] = "none" /\ conn'[p.meta] \in authed'
    BY <1>2, <2>1, <2>3 DEF Begun
  <2>5. ASSUME NEW z \in Conns, NEW k \in Nat, NEW g \in StreamFrames, At(z, k, g)', Owner(g) = p.meta
        PROVE  g.type # "open"
    BY <1>1, <1>3, <2>1, <2>2, <2>5 DEF Begun
  <2>6. ASSUME p.meta \notin crossed', NEW z \in Conns, conn'[p.meta] = z
        PROVE  Came(z, p.meta, Len(p.chunks) + 1)'
    <3>1. Came(z, p.meta, Len(p.chunks) + 1)
      BY <1>2, <2>1, <2>3, <2>6 DEF Begun
    <3>2. p.meta = r => z = s /\ pc[r] = "body"
      BY <1>0, <1>3, <2>2, <2>6
    <3> QED
      BY <1>a, <2>1, <3>1, <3>2
  <2>7. p.meta \notin crossed' =>
          /\ p.chunks = Numbered(p.meta, Len(p.chunks))
          /\ \A z \in Conns : conn'[p.meta] = z => Came(z, p.meta, Len(p.chunks) + 1)'
    BY <1>2, <2>1, <2>6 DEF Begun
  <2>8. \A z \in Conns, k \in Nat, g \in StreamFrames :
          At(z, k, g)' /\ Owner(g) = p.meta => g.type # "open"
    BY <2>5
  <2> QED
    BY <2>3, <2>4, <2>7, <2>8 DEF Begun
<1>15. Later'
  <2> SUFFICES ASSUME NEW z \in Conns, NEW k \in Nat, NEW a \in Requests, NEW q \in Requests \ {a},
                      conn'[q] = z, sid'[q] = sid'[a], Starts(z, k, a)'
               PROVE  After(z, k, a, q)'
    BY DEF Later
  <2>1. CASE z = s /\ link[z] # "down" /\ k = l /\ t = "open" /\ a = r
    <3>1. \A m \in Nat, g \in StreamFrames : ~(k < m /\ At(z, m, g)')
      BY <1>1, <2>1
    <3>2. \A m \in Nat : ~Opened(z, k, q, m)'
      BY <3>1 DEF Opened
    <3>3. pc'[q] # "body"
      BY <1>2, <1>3, <2>1, NoneIsNoRequest, <1>0 DEF Served, Live
    <3> QED
      BY <3>1, <3>2, <3>3 DEF After
  <2>2. CASE Starts(z, k, a)
    <3>1. pc[a] # "idle" /\ conn[a] = z /\ sid[a] \in Ids
      BY <2>2, StartedIsSent
    <3>2. sid'[a] = sid[a]
      BY <1>2, <1>3, <3>1, <1>0
    <3>3. pc[a] = "done" => pc'[a] = "done"
      BY <1>2, <1>3
    <3>4. CASE q # r
      <4>1. conn[q] = z /\ sid[q] = sid[a] /\ pc'[q] = pc[q] /\ link' = link
        BY <1>2, <3>2, <3>4
      <4>2. After(z, k, a, q)
        BY <2>2, <4>1 DEF Uploads, Later
      <4>3. \A m \in Nat, g \in StreamFrames : At(z, m, g)' /\ Owner(g) = q => At(z, m, g)
        BY <1>1, <3>4
      <4>4. \A m \in Nat : Opened(z, k, q, m)' => Opened(z, k, q, m)
        BY <4>3 DEF Opened
      <4>5. \A m \in Nat, g \in StreamFrames :
              k < m /\ At(z, m, g)' /\ Owner(g) = q => Opened(z, k, q, m)'
        BY <1>7, <4>2, <4>3 DEF After
      <4>6. pc'[q] = "body" /\ link'[z] # "down" => \E m \in Nat : Opened(z, k, q, m)'
        BY <1>7, <4>1, <4>2 DEF After
      <4>7. \A m \in Nat : Opened(z, k, q, m)' => pc'[a] = "done"
        BY <3>3, <4>2, <4>4 DEF After
      <4> QED
        BY <4>5, <4>6, <4>7 DEF After
    <3>5. CASE q = r /\ pc[r] = "body"
      <4>1. conn[q] = z /\ sid[q] = sid[a] /\ z = s /\ t # "open" /\ link' = link
        BY <1>2, <1>3, <3>2, <3>5, <1>0
      <4>2. After(z, k, a, q)
        BY <2>2, <4>1 DEF Uploads, Later
      <4>3. \A m \in Nat : Opened(z, k, q, m)' => Opened(z, k, q, m)
        BY <1>1, <4>1 DEF Opened
      <4>4. \A m \in Nat : Opened(z, k, q, m) => Opened(z, k, q, l)
        BY <1>1, <4>1 DEF Opened
      <4>5. ASSUME NEW m \in Nat, NEW g \in StreamFrames, k < m, At(z, m, g)', Owner(g) = q
            PROVE  Opened(z, k, q, m)'
        <5>1. CASE At(z, m, g)
          BY <1>7, <4>2, <4>5, <5>1 DEF After
        <5>2. CASE link[z] # "down" /\ m = l
          <6>1. Opened(z, k, q, l)
            BY <3>5, <4>2, <4>4, <5>2 DEF After
          <6> QED
            BY <1>1, <1>7, <5>2, <6>1
        <5> QED
          BY <1>1, <4>5, <5>1, <5>2
      <4>6. pc'[q] = "body" /\ link'[z] # "down" => \E m \in Nat : Opened(z, k, q, m)'
        BY <1>7, <3>5, <4>1, <4>2 DEF After
      <4>7. \A m \in Nat : Opened(z, k, q, m)' => pc'[a] = "done"
        BY <3>3, <4>2, <4>3 DEF After
      <4> QED
        BY <4>5, <4>6, <4>7 DEF After
    <3>6. CASE q = r /\ pc[r] = "idle"
      <4>1. z = s /\ sid[a] = i /\ t = "open" /\ link' = link /\ streams[s][i] = None
        BY <1>2, <1>3, <3>2, <3>6, <1>0
      <4>2. k < l
        BY <1>1, <2>2, <4>1 DEF Starts
      <4>3. \A m \in Nat, g \in StreamFrames : At(z, m, g)' /\ Owner(g) = q => m = l /\ link[z] # "down"
        BY <1>1, <1>8, <3>6
      <4>4. ASSUME link[z] # "down" PROVE Opened(z, k, q, l)'
        <5>1. At(z, l, f)' /\ f \in StreamFrames /\ f.type = "open" /\ Owner(f) = q /\ l \in Nat /\ l <= l
          BY <1>1, <3>6, <4>1, <4>4
        <5> QED
          BY <4>2, <5>1 DEF Opened
      <4>5. pc[a] = "done"
        <5>1. pc[a] \notin Live
          BY <3>1, <4>1, NoneIsNoRequest DEF Served
        <5> QED
          BY <3>1, <5>1 DEF Types, RequestType
      <4>6. \A m \in Nat, g \in StreamFrames :
              k < m /\ At(z, m, g)' /\ Owner(g) = q => Opened(z, k, q, m)'
        BY <4>3, <4>4
      <4>7. pc'[q] = "body" /\ link'[z] # "down" => \E m \in Nat : Opened(z, k, q, m)'
        BY <1>1, <4>1, <4>4
      <4> QED
        BY <3>3, <4>5, <4>6, <4>7 DEF After
    <3> QED
      BY <1>4, <3>4, <3>5, <3>6
  <2>3. ASSUME k = 0, conn'[a] = z, NEW j \in Ids, NEW p \in Partial, pending'[j] = p, p.meta = a
        PROVE  Starts(z, k, a)
    <3>1. sid[a] = j /\ pending[j] = p
      BY <1>2, <2>3 DEF Uploads, Waiting, Begun
    <3>2. pc[a] # "idle"
      BY <3>1, IdsAreNumbers DEF Served
    <3>3. conn'[a] = conn[a]
      BY <1>2, <1>3, <3>2, <1>0
    <3> QED
      BY <2>3, <3>1, <3>3 DEF Starts
  <2>4. ASSUME NEW g \in StreamFrames, At(z, k, g)', g.type = "open", Owner(g) = a
        PROVE  Starts(z, k, a) \/ (z = s /\ link[z] # "down" /\ k = l /\ t = "open" /\ a = r)
    BY <1>1, <2>4 DEF Starts
  <2> QED
    BY <2>1, <2>2, <2>3, <2>4 DEF Starts
<1>16. Given'
  <2> SUFFICES ASSUME NEW q \in Requests \ crossed', call'[q] # "none"
               PROVE  pc'[q] \in {"pipe", "done"} /\ body'[q] = Numbered(q, sent'[q])
    BY DEF Given, Numbered
  <2>1. pc[q] \in {"pipe", "done"} /\ body[q] = Numbered(q, sent[q])
    BY <1>2 DEF Uploads, Given
  <2>2. q # r
    BY <1>4, <2>1
  <2> QED
    BY <1>2, <2>1, <2>2
<1> QED
  BY <1>13, <1>14, <1>15, <1>16 DEF Uploads

\* The head h of those on s is taken, and the others come one place nearer.
Shifts(s, h) ==
  /\ At(s, 1, h)
  /\ \A g : At(s, 1, g) => g = h
  /\ \A k \in Nat : \A g : At(s, k, g)' <=> k >= 1 /\ At(s, k + 1, g)
  /\ \A z \in Conns \ {s}, k \in Nat : \A g : At(z, k, g)' <=> At(z, k, g)
  /\ UNCHANGED <<conn, sid, pc, sent, link>>

LEMMA HeadShifts ==
  ASSUME Types, NEW s \in Conns, toCli[s] # <<>>, toCli' = [toCli EXCEPT ![s] = Tail(@)],
         UNCHANGED <<conn, sid, pc, sent, link>>
  PROVE  Shifts(s, Head(toCli[s]))
<1>1. /\ At(s, 1, Head(toCli[s]))
      /\ \A k \in Nat : \A g : At(s, k, g)' => k >= 1 /\ k + 1 \in Nat /\ At(s, k + 1, g)
      /\ \A k \in Nat : \A g : At(s, k, g) /\ k # 1 => k - 1 \in Nat /\ At(s, k - 1, g)'
      /\ \A g : At(s, 1, g) => g = Head(toCli[s])
      /\ \A z \in Conns \ {s}, k \in Nat : \A g : At(z, k, g)' <=> At(z, k, g)
  BY TookHead
<1>2. ASSUME NEW k \in Nat, NEW g, k >= 1, At(s, k + 1, g) PROVE At(s, k, g)'
  <2>1. k + 1 \in Nat /\ k + 1 # 1 /\ (k + 1) - 1 = k
    BY <1>2
  <2>2. At(s, (k + 1) - 1, g)'
    BY <1>1, <1>2, <2>1
  <2> QED
    BY <2>1, <2>2
<1> QED
  BY <1>1, <1>2 DEF Shifts

LEMMA Nearer ==
  ASSUME Types, NEW s \in Conns, NEW h, Shifts(s, h), NEW k \in Nat, NEW g, At(s, k, g), k # 1
  PROVE  \E j \in Nat : j + 1 = k /\ j >= 1 /\ At(s, j, g)'
<1>1. k >= 1
  BY FrameAt
<1>2. PICK j \in Nat : j + 1 = k /\ j >= 1
  BY <1>1
<1> QED
  BY <1>2 DEF Shifts

LEMMA CameShifts ==
  ASSUME Types, NEW s \in Conns, NEW h, Shifts(s, h), NEW z \in Conns, NEW q \in Requests, NEW c,
         Came(z, q, c), h \in StreamFrames /\ Owner(h) = q => z # s
  PROVE  Came(z, q, c)'
<1>1. pc' = pc /\ sent' = sent /\ link' = link
  BY DEF Shifts
<1>2. CASE z # s
  <2>1. \A k \in Nat : \A g : At(z, k, g)' <=> At(z, k, g)
    BY <1>2 DEF Shifts
  <2> QED
    BY <1>1, <2>1 DEF Came, Before, Comes
<1>3. CASE z = s
  <2>1. ASSUME NEW k \in Nat, NEW f \in StreamFrames, At(s, k, f)', Owner(f) = q, Number(f) # c
        PROVE  Before(s, k, q, Number(f) - 1)'
    <3>1. k >= 1 /\ At(s, k + 1, f) /\ k + 1 \in Nat
      BY <2>1 DEF Shifts
    <3>2. Before(s, k + 1, q, Number(f) - 1)
      BY <1>3, <2>1, <3>1 DEF Came
    <3>3. PICK j \in Nat, g \in StreamFrames :
            j < k + 1 /\ At(s, j, g) /\ Owner(g) = q /\ Number(g) = Number(f) - 1
      BY <3>2 DEF Before
    <3>4. j # 1
      BY <1>3, <3>3 DEF Shifts
    <3>5. PICK m \in Nat : m + 1 = j /\ At(s, m, g)'
      BY <3>3, <3>4, Nearer
    <3>6. m < k
      BY <3>3, <3>5
    <3> QED
      BY <3>3, <3>5, <3>6 DEF Before
  <2>2. ASSUME Comes(s, q, sent[q])
        PROVE  Comes(s, q, sent[q])'
    <3>1. PICK j \in Nat, g \in StreamFrames : At(s, j, g) /\ Owner(g) = q /\ Number(g) = sent[q]
      BY <2>2 DEF Comes
    <3>2. j # 1
      BY <1>3, <3>1 DEF Shifts
    <3>3. PICK m \in Nat : At(s, m, g)'
      BY <3>1, <3>2, Nearer
    <3> QED
      BY <1>1, <3>1, <3>3 DEF Comes
  <2>3. pc[q] = "body" /\ link[s] # "down" /\ sent[q] + 1 # c => Comes(s, q, sent[q])'
    BY <1>3, <2>2 DEF Came
  <2> QED
    BY <1>1, <1>3, <2>1, <2>3 DEF Came
<1> QED
  BY <1>2, <1>3

\* The frames of its request that are behind the head come later in it.
LEMMA CameNext ==
  ASSUME Types, InFlight, NEW s \in Conns, NEW h \in StreamFrames, Shifts(s, h),
         Came(s, Owner(h), Number(h))
  PROVE  Came(s, Owner(h), Number(h) + 1)'
<1> DEFINE q == Owner(h)
           c == Number(h)
<1>1. pc' = pc /\ sent' = sent /\ link' = link /\ q \in Requests /\ c \in Nat /\ sent[q] \in Nat
  BY OwnerType, SentType DEF Shifts
<1>2. Sent(s, h) /\ Came(s, q, c)
  BY DEF InFlight, Shifts
<1> HIDE DEF q, c
<1>3. ASSUME NEW k \in Nat, NEW f \in StreamFrames, At(s, k, f)', Owner(f) = q, Number(f) # c + 1
      PROVE  Before(s, k, q, Number(f) - 1)'
  <2>1. k >= 1 /\ At(s, k + 1, f) /\ k + 1 \in Nat /\ 1 < k + 1 /\ Number(f) \in Nat
    BY <1>3, OwnerType DEF Shifts
  <2>2. Number(h) < Number(f)
    BY <1>3, <2>1 DEF InFlight, InTurn, Shifts, q
  <2>3. Number(f) # c /\ Number(f) - 1 # c
    BY <1>1, <1>3, <2>1, <2>2 DEF c
  <2>4. Before(s, k + 1, q, Number(f) - 1)
    BY <1>2, <1>3, <2>1, <2>3 DEF Came
  <2>5. PICK j \in Nat, g \in StreamFrames :
          j < k + 1 /\ At(s, j, g) /\ Owner(g) = q /\ Number(g) = Number(f) - 1
    BY <2>4 DEF Before
  <2>6. j # 1
    BY <2>3, <2>5 DEF Shifts, c
  <2>7. PICK m \in Nat : m + 1 = j /\ At(s, m, g)'
    BY <2>5, <2>6, Nearer
  <2>8. m < k
    BY <2>5, <2>7
  <2> QED
    BY <2>5, <2>7, <2>8 DEF Before
<1>4. ASSUME pc[q] = "body", link[s] # "down", sent[q] + 1 # c + 1
      PROVE  Comes(s, q, sent[q])'
  <2>1. c = 0 \/ c \in 1..sent[q]
    BY <1>2, <1>4 DEF Sent, q, c
  <2>2. sent[q] + 1 # c /\ sent[q] # c
    BY <1>1, <1>4, <2>1
  <2>3. PICK j \in Nat, g \in StreamFrames : At(s, j, g) /\ Owner(g) = q /\ Number(g) = sent[q]
    BY <1>2, <1>4, <2>2 DEF Came, Comes
  <2>4. j # 1
    BY <2>2, <2>3 DEF Shifts, c
  <2>5. PICK m \in Nat : At(s, m, g)'
    BY <2>3, <2>4, Nearer
  <2> QED
    BY <1>1, <2>3, <2>5 DEF Comes
<1>5. Came(s, q, c + 1)'
  BY <1>1, <1>3, <1>4 DEF Came, q, c
<1> QED
  BY <1>5 DEF q, c

LEMMA FlightShifts ==
  ASSUME Types, InFlight, NEW s \in Conns, NEW h, Shifts(s, h),
         NEW z \in Conns, NEW k \in Nat, NEW f \in StreamFrames, At(z, k, f)'
  PROVE  /\ Sent(z, f)' /\ InTurn(z, k, f)'
         /\ f.type = "open" => /\ call[Owner(f)] = "none" /\ Came(z, Owner(f), 0)'
                               /\ h \in StreamFrames /\ Owner(h) = Owner(f) => z # s
         /\ \E j \in Nat : k <= j /\ At(z, j, f)
<1>1. conn' = conn /\ sid' = sid /\ pc' = pc /\ sent' = sent
  BY DEF Shifts
<1>2. CASE z # s
  <2>1. \A j \in Nat : \A g : At(z, j, g)' <=> At(z, j, g)
    BY <1>2 DEF Shifts
  <2>2. At(z, k, f)
    BY <2>1
  <2>3. /\ Sent(z, f) /\ InTurn(z, k, f) /\ Owner(f) \in Requests
        /\ f.type = "open" => call[Owner(f)] = "none" /\ Came(z, Owner(f), 0)
    BY <2>2, OwnerType DEF InFlight
  <2>4. Sent(z, f)' /\ InTurn(z, k, f)'
    BY <1>1, <2>1, <2>3 DEF Sent, InTurn
  <2>5. f.type = "open" => Came(z, Owner(f), 0)'
    BY <1>2, <2>3, CameShifts
  <2> QED
    BY <1>2, <2>2, <2>3, <2>4, <2>5
<1>3. CASE z = s
  <2>1. k >= 1 /\ k + 1 \in Nat /\ At(s, k + 1, f) /\ 1 < k + 1
    BY <1>3 DEF Shifts
  <2>2. /\ Sent(s, f) /\ InTurn(s, k + 1, f) /\ Owner(f) \in Requests
        /\ f.type = "open" => call[Owner(f)] = "none" /\ Came(s, Owner(f), 0)
    BY <2>1, OwnerType DEF InFlight
  <2>3. Sent(s, f)'
    BY <1>1, <2>2 DEF Sent
  <2>4. \A j \in Nat, g \in StreamFrames : j < k /\ At(s, j, g)' => j + 1 < k + 1 /\ j + 1 \in Nat /\ At(s, j + 1, g)
    BY DEF Shifts
  <2>5. InTurn(s, k, f)'
    BY <2>2, <2>4 DEF InTurn
  <2>6. ASSUME f.type = "open"
        PROVE  ~(h \in StreamFrames /\ Owner(h) = Owner(f))
    <3>1. Number(f) = 0
      BY <2>2, <2>6 DEF Sent
    <3>2. ASSUME h \in StreamFrames, Owner(h) = Owner(f) PROVE FALSE
      <4>1. Number(h) < 0
        BY <2>1, <2>2, <3>1, <3>2 DEF InTurn, Shifts
      <4> QED
        BY <3>2, <4>1, OwnerType
    <3> QED
      BY <3>2
  <2>7. f.type = "open" => Came(s, Owner(f), 0)'
    BY <2>2, <2>6, CameShifts
  <2>8. k <= k + 1
    OBVIOUS
  <2>9. Sent(z, f)' /\ InTurn(z, k, f)'
    BY <1>3, <2>3, <2>5 DEF Sent, InTurn, At
  <2>10. f.type = "open" => Came(z, Owner(f), 0)'
    BY <1>3, <2>7 DEF Came, Before, Comes, At
  <2> QED
    BY <1>3, <2>1, <2>2, <2>6, <2>8, <2>9, <2>10
<1> QED
  BY <1>2, <1>3

LEMMA AfterShifts ==
  ASSUME Types, NEW s \in Conns, NEW h, Shifts(s, h), NEW k \in Nat, NEW m \in Nat,
         NEW a \in Requests, NEW q \in Requests, After(s, m, a, q),
         \/ m = k + 1
         \/ m = k /\ k = 0 /\ ~(h \in StreamFrames /\ h.type = "open" /\ Owner(h) = q)
  PROVE  After(s, k, a, q)'
<1>1. pc' = pc /\ link' = link
  BY DEF Shifts
<1>2. ASSUME NEW l \in Nat, Opened(s, k, q, l)'
      PROVE  Opened(s, m, q, l + 1)
  <2>1. PICK j \in Nat, g \in StreamFrames :
          k < j /\ j <= l /\ At(s, j, g)' /\ g.type = "open" /\ Owner(g) = q
    BY <1>2 DEF Opened
  <2>2. m < j + 1 /\ j + 1 <= l + 1 /\ j + 1 \in Nat /\ At(s, j + 1, g)
    BY <2>1 DEF Shifts
  <2> QED
    BY <2>1, <2>2 DEF Opened
<1>3. ASSUME NEW l \in Nat, Opened(s, m, q, l)
      PROVE  l >= 1 /\ Opened(s, k, q, l - 1)'
  <2>1. PICK j \in Nat, g \in StreamFrames :
          m < j /\ j <= l /\ At(s, j, g) /\ g.type = "open" /\ Owner(g) = q
    BY <1>3 DEF Opened
  <2>2. m = k + 1 => j # 1
    BY <2>1
  <2>3. m # k + 1 => j # 1
    BY <2>1 DEF Shifts
  <2>4. PICK i \in Nat : i + 1 = j /\ i >= 1 /\ At(s, i, g)'
    BY <2>1, <2>2, <2>3, Nearer
  <2>5. k < i /\ i <= l - 1 /\ l >= 1
    BY <2>1, <2>4
  <2> QED
    BY <2>1, <2>4, <2>5 DEF Opened
<1>4. ASSUME NEW l \in Nat, NEW f \in StreamFrames, k < l, At(s, l, f)', Owner(f) = q
      PROVE  Opened(s, k, q, l)'
  <2>1. m < l + 1 /\ l + 1 \in Nat /\ At(s, l + 1, f)
    BY <1>4 DEF Shifts
  <2>2. Opened(s, m, q, l + 1)
    BY <1>4, <2>1 DEF After
  <2>3. Opened(s, k, q, (l + 1) - 1)'
    BY <1>3, <2>1, <2>2
  <2>4. (l + 1) - 1 = l
    OBVIOUS
  <2> QED
    BY <2>3, <2>4
<1>5. ASSUME pc[q] = "body", link[s] # "down"
      PROVE  \E l \in Nat : Opened(s, k, q, l)'
  <2>1. PICK l \in Nat : Opened(s, m, q, l)
    BY <1>5 DEF After
  <2>2. l - 1 \in Nat /\ Opened(s, k, q, l - 1)'
    BY <1>3, <2>1
  <2> QED
    BY <2>2
<1>6. \A l \in Nat : Opened(s, k, q, l)' => pc[a] = "done"
  <2> SUFFICES ASSUME NEW l \in Nat, Opened(s, k, q, l)' PROVE pc[a] = "done"
    OBVIOUS
  <2>1. l + 1 \in Nat /\ Opened(s, m, q, l + 1)
    BY <1>2
  <2> QED
    BY <2>1 DEF After
<1> QED
  BY <1>1, <1>4, <1>5, <1>6 DEF After

\* What is not on s is left as it is.
LEMMA AfterElsewhere ==
  ASSUME Types, NEW s \in Conns, NEW h, Shifts(s, h), NEW z \in Conns \ {s}, NEW k \in Nat,
         NEW a \in Requests, NEW q \in Requests, After(z, k, a, q)
  PROVE  After(z, k, a, q)'
<1>1. pc' = pc /\ link' = link /\ \A l \in Nat : \A g : At(z, l, g)' <=> At(z, l, g)
  BY DEF Shifts
<1> QED
  BY <1>1 DEF After, Opened

\* What is pending after a step was before, or its OPEN is the head.
Entries(s, h) ==
  \A i \in Ids, p \in Partial : pending'[i] = p =>
    \/ /\ \E p0 \in Partial : pending[i] = p0 /\ p0.meta = p.meta
       /\ conn[p.meta] = s => ~(h \in StreamFrames /\ h.type = "open" /\ h.id = i)
    \/ h \in StreamFrames /\ h.type = "open" /\ Owner(h) = p.meta

LEMMA LaterShifts ==
  ASSUME Types, Uploads, NEW s \in Conns, NEW h, Shifts(s, h), Entries(s, h)
  PROVE  Later'
<1> SUFFICES ASSUME NEW z \in Conns, NEW k \in Nat, NEW a \in Requests, NEW q \in Requests \ {a},
                    conn'[q] = z, sid'[q] = sid'[a], Starts(z, k, a)'
             PROVE  After(z, k, a, q)'
  BY DEF Later
<1>1. conn' = conn /\ sid' = sid
  BY DEF Shifts
<1>2. \A m \in Nat : Starts(z, m, a) => After(z, m, a, q)
  BY <1>1 DEF Uploads, Later
<1>3. ASSUME NEW g \in StreamFrames, At(z, k, g)', g.type = "open", Owner(g) = a
      PROVE  After(z, k, a, q)'
  <2>1. CASE z = s
    <3>1. k + 1 \in Nat /\ At(s, k + 1, g)
      BY <1>3, <2>1 DEF Shifts
    <3>2. Starts(s, k + 1, a)
      BY <1>3, <3>1 DEF Starts
    <3>3. After(s, k + 1, a, q)
      BY <1>2, <2>1, <3>1, <3>2
    <3>4. After(s, k, a, q)'
      BY <3>1, <3>3, AfterShifts
    <3> QED
      BY <2>1, <3>4 DEF After, Opened, At
  <2>2. CASE z # s
    <3>1. At(z, k, g)
      BY <1>3, <2>2 DEF Shifts
    <3>2. Starts(z, k, a)
      BY <1>3, <3>1 DEF Starts
    <3> QED
      BY <1>2, <2>2, <3>2, AfterElsewhere
  <2> QED
    BY <2>1, <2>2
<1>4. ASSUME k = 0, conn[a] = z, NEW i \in Ids, NEW p \in Partial, pending'[i] = p, p.meta = a
      PROVE  After(z, k, a, q)'
  <2>1. CASE h \in StreamFrames /\ h.type = "open" /\ Owner(h) = a
    <3>1. At(s, 1, h) /\ conn[a] = s
      BY <2>1 DEF Shifts, Uploads, InFlight, Sent
    <3>2. Starts(s, 1, a)
      BY <2>1, <3>1 DEF Starts
    <3>3. After(s, 1, a, q)
      BY <1>2, <1>4, <3>1, <3>2
    <3>4. 1 \in Nat /\ 1 = k + 1
      BY <1>4
    <3>5. After(s, k, a, q)'
      BY <3>3, <3>4, AfterShifts
    <3> QED
      BY <1>4, <3>1, <3>5
  <2>2. ASSUME NEW p0 \in Partial, pending[i] = p0, p0.meta = a,
               conn[a] = s => ~(h \in StreamFrames /\ h.type = "open" /\ h.id = i)
        PROVE  After(z, k, a, q)'
    <3>1. Starts(z, k, a) /\ sid[a] = i
      BY <1>4, <2>2 DEF Starts, Uploads, Waiting, Begun
    <3>2. After(z, k, a, q)
      BY <1>2, <3>1
    <3>3. CASE z # s
      BY <3>2, <3>3, AfterElsewhere
    <3>4. CASE z = s
      <4>1. ~(h \in StreamFrames /\ h.type = "open" /\ Owner(h) = q)
        <5>1. At(s, 1, h)
          BY DEF Shifts
        <5>2. h \in StreamFrames => Sent(s, h)
          BY <5>1 DEF Uploads, InFlight
        <5> QED
          BY <1>1, <1>4, <2>2, <3>1, <3>4, <5>2 DEF Sent
      <4>2. After(s, k, a, q)
        BY <3>2, <3>4
      <4>3. After(s, k, a, q)'
        BY <1>4, <4>1, <4>2, AfterShifts
      <4> QED
        BY <3>4, <4>3 DEF After, Opened, At
    <3> QED
      BY <3>3, <3>4
  <2> QED
    BY <1>4, <2>1, <2>2 DEF Entries
<1> QED
  BY <1>1, <1>3, <1>4 DEF Starts

\* AUTH_OK, and what comes before it: no request of that socket is pending yet, and no
\* more of a request whose OPEN is dropped counts.
LEMMA UploadsDrop ==
  ASSUME Types, Uploads, NEW s \in Conns, Drops(s, Head(toCli[s]))
  PROVE  Uploads'
<1>0. PICK h : h = Head(toCli[s])
  OBVIOUS
<1>1. Shifts(s, h)
  BY <1>0, HeadShifts DEF Drops, gwVars, reqVars
<1>2. /\ pending' = pending /\ call' = call /\ body' = body /\ crossed' = crossed
      /\ conn' = conn /\ sid' = sid /\ pc' = pc /\ sent' = sent
      /\ authed \subseteq authed' /\ s \notin authed
  BY DEF Drops, gwVars, reqVars
<1>3. ASSUME NEW i \in Ids, NEW p \in Partial, pending[i] = p
      PROVE  Begun(i, p) /\ p.meta \in Requests /\ conn[p.meta] # s
  BY <1>2, <1>3, MetaType DEF Uploads, Waiting, Begun
<1>4. InFlight'
  <2> SUFFICES ASSUME NEW z \in Conns, NEW k \in Nat, NEW f \in StreamFrames, At(z, k, f)'
               PROVE  /\ Sent(z, f)' /\ InTurn(z, k, f)'
                      /\ f.type = "open" => call'[Owner(f)] = "none" /\ Came(z, Owner(f), 0)'
    BY DEF InFlight
  <2> QED
    BY <1>1, <1>2, FlightShifts DEF Uploads
<1>5. Waiting'
  <2> SUFFICES ASSUME NEW i \in Ids, NEW p \in Partial, pending'[i] = p PROVE Begun(i, p)'
    BY DEF Waiting
  <2>1. Begun(i, p) /\ p.meta \in Requests /\ conn[p.meta] # s
    BY <1>2, <1>3
  <2>2. \A z \in Conns, k \in Nat, f \in StreamFrames :
          At(z, k, f)' /\ Owner(f) = p.meta => f.type # "open"
    <3> SUFFICES ASSUME NEW z \in Conns, NEW k \in Nat, NEW f \in StreamFrames,
                        At(z, k, f)', Owner(f) = p.meta
                 PROVE  f.type # "open"
      OBVIOUS
    <3>1. \E j \in Nat : At(z, j, f)
      BY <1>1, FlightShifts DEF Uploads
    <3> QED
      BY <2>1, <3>1 DEF Begun
  <2>3. ASSUME p.meta \notin crossed, NEW z \in Conns, conn[p.meta] = z
        PROVE  Came(z, p.meta, Len(p.chunks) + 1)'
    <3>1. z # s /\ Came(z, p.meta, Len(p.chunks) + 1)
      BY <2>1, <2>3 DEF Begun
    <3> QED
      BY <1>1, <2>1, <3>1, CameShifts
  <2>4. p.meta \notin crossed => p.chunks = Numbered(p.meta, Len(p.chunks))
    BY <2>1 DEF Begun
  <2> QED
    BY <1>2, <2>1, <2>2, <2>3, <2>4 DEF Begun
<1>6. Entries(s, h)
  BY <1>2, <1>3 DEF Entries
<1>7. Later'
  BY <1>1, <1>6, LaterShifts
<1>8. Given'
  BY <1>2 DEF Uploads, Given
<1> QED
  BY <1>4, <1>5, <1>7, <1>8 DEF Uploads

LEMMA UploadsLoss ==
  ASSUME Types, Uploads, NEW s \in Conns, Loss(s)
  PROVE  Uploads'
<1>1. /\ pending' = pending /\ call' = call /\ body' = body /\ crossed' = crossed
      /\ conn' = conn /\ sid' = sid /\ pc' = pc /\ sent' = sent /\ authed' = authed
  BY DEF Loss, cliVars, gwVars, reqVars
<1>2. /\ link'[s] = "down" /\ \A z \in Conns \ {s} : link'[z] = link[z]
      /\ \A z \in Conns \ {s}, k \in Nat : \A g : At(z, k, g)' <=> At(z, k, g)
      /\ \A k \in Nat : \A g : ~At(s, k, g)'
  <2>1. toCli'[s] = <<>> /\ \A z \in Conns \ {s} : toCli'[z] = toCli[z]
    BY DEF Loss, Types, WireType
  <2>2. link'[s] = "down" /\ \A z \in Conns \ {s} : link'[z] = link[z]
    BY DEF Loss, Types, SocketType
  <2>3. \A z \in Conns \ {s}, k \in Nat : \A g : At(z, k, g)' <=> At(z, k, g)
    BY <2>1 DEF At
  <2>4. \A k \in Nat : \A g : ~At(s, k, g)'
    <3>1. \A k \in Nat : k \notin 1..Len(<<>>)
      OBVIOUS
    <3> QED
      BY <2>1, <3>1 DEF At
  <2> QED
    BY <2>2, <2>3, <2>4
<1>3. ASSUME NEW z \in Conns, NEW q \in Requests, NEW c, Came(z, q, c)
      PROVE  Came(z, q, c)'
  BY <1>1, <1>2, <1>3 DEF Came, Before, Comes
<1>4. InFlight'
  <2> SUFFICES ASSUME NEW z \in Conns \ {s}, NEW k \in Nat, NEW f \in StreamFrames, At(z, k, f)
               PROVE  /\ Sent(z, f)' /\ InTurn(z, k, f)'
                      /\ f.type = "open" => call'[Owner(f)] = "none" /\ Came(z, Owner(f), 0)'
    BY <1>2 DEF InFlight
  <2>1. /\ Sent(z, f) /\ InTurn(z, k, f) /\ Owner(f) \in Requests
        /\ f.type = "open" => call[Owner(f)] = "none" /\ Came(z, Owner(f), 0)
    BY OwnerType DEF Uploads, InFlight
  <2>2. Sent(z, f)' /\ InTurn(z, k, f)'
    BY <1>1, <1>2, <2>1 DEF Sent, InTurn
  <2> QED
    BY <1>1, <1>3, <2>1, <2>2
<1>5. Waiting'
  <2> SUFFICES ASSUME NEW i \in Ids, NEW p \in Partial, pending[i] = p PROVE Begun(i, p)'
    BY <1>1 DEF Waiting
  <2>1. Begun(i, p) /\ p.meta \in Requests
    BY MetaType DEF Uploads, Waiting
  <2>2. \A z \in Conns, k \in Nat, f \in StreamFrames :
          At(z, k, f)' /\ Owner(f) = p.meta => f.type # "open"
    BY <1>2, <2>1 DEF Begun
  <2>3. ASSUME p.meta \notin crossed, NEW z \in Conns, conn[p.meta] = z
        PROVE  Came(z, p.meta, Len(p.chunks) + 1)'
    BY <1>3, <2>1, <2>3 DEF Begun
  <2>4. p.meta \notin crossed => p.chunks = Numbered(p.meta, Len(p.chunks))
    BY <2>1 DEF Begun
  <2> QED
    BY <1>1, <2>1, <2>2, <2>3, <2>4 DEF Begun
<1>6. Later'
  <2> SUFFICES ASSUME NEW z \in Conns, NEW k \in Nat, NEW a \in Requests, NEW q \in Requests \ {a},
                      conn[q] = z, sid[q] = sid[a], Starts(z, k, a)'
               PROVE  After(z, k, a, q)'
    BY <1>1 DEF Later
  <2>1. CASE z # s
    <3>1. Starts(z, k, a)
      BY <1>1, <1>2, <2>1 DEF Starts
    <3>2. After(z, k, a, q)
      BY <3>1 DEF Uploads, Later
    <3>3. \A l \in Nat : Opened(z, k, q, l)' <=> Opened(z, k, q, l)
      BY <1>2, <2>1 DEF Opened
    <3> QED
      BY <1>1, <1>2, <2>1, <3>2, <3>3 DEF After
  <2>2. CASE z = s
    <3>1. \A l \in Nat : ~Opened(z, k, q, l)'
      BY <1>2, <2>2 DEF Opened
    <3> QED
      BY <1>2, <2>2, <3>1 DEF After
  <2> QED
    BY <2>1, <2>2
<1>7. Given'
  BY <1>1 DEF Uploads, Given
<1> QED
  BY <1>4, <1>5, <1>6, <1>7 DEF Uploads

\* A frame that comes for a pending request, which nothing of another connection has met
\* or meets now, is the next frame of that request.
LEMMA NextOfBody ==
  ASSUME Types, Uploads, NEW s \in Conns, NEW h \in StreamFrames, At(s, 1, h), h.type # "open",
         NEW p \in Partial, pending[h.id] = p, p.meta \notin crossed, p.meta \notin Meets(h)
  PROVE  /\ Owner(h) = p.meta /\ Number(h) = Len(p.chunks) + 1
         /\ p.chunks = Numbered(p.meta, Len(p.chunks)) /\ Came(s, p.meta, Len(p.chunks) + 1)
<1> DEFINE q == p.meta
           o == Owner(h)
<1>1. q \in Requests /\ o \in Requests /\ h.id \in Ids /\ Number(h) \in Nat
  BY OwnerType, MetaType DEF StreamFrames
<1>2. Begun(h.id, p) /\ Sent(s, h)
  BY <1>1 DEF Uploads, Waiting, InFlight
<1>3. conn[q] = conn[o] /\ conn[o] = s
  BY <1>2, NoneIsNoRequest DEF Meets, Sent, Owner
<1>4. o = q
  <2> SUFFICES ASSUME o # q PROVE FALSE
    OBVIOUS
  <2>1. Starts(s, 0, q) /\ conn[o] = s /\ sid[o] = sid[q]
    BY <1>1, <1>2, <1>3 DEF Starts, Begun, Sent
  <2>2. After(s, 0, q, o)
    BY <1>1, <2>1 DEF Uploads, Later
  <2>3. Opened(s, 0, o, 1)
    BY <2>2 DEF After
  <2>4. PICK j \in Nat, g \in StreamFrames : 0 < j /\ j <= 1 /\ At(s, j, g) /\ g.type = "open"
    BY <2>3 DEF Opened
  <2>5. j = 1
    BY <2>4
  <2> QED
    BY <2>4, <2>5 DEF At
<1>5. q \notin crossed
  OBVIOUS
<1>6. p.chunks = Numbered(q, Len(p.chunks)) /\ Came(s, q, Len(p.chunks) + 1)
  BY <1>2, <1>3, <1>4, <1>5 DEF Begun
<1>7. Number(h) = Len(p.chunks) + 1
  <2> SUFFICES ASSUME Number(h) # Len(p.chunks) + 1 PROVE FALSE
    OBVIOUS
  <2>1. Before(s, 1, q, Number(h) - 1)
    BY <1>4, <1>6 DEF Came
  <2>2. PICK j \in Nat, g \in StreamFrames : j < 1 /\ At(s, j, g)
    BY <2>1 DEF Before
  <2>3. j >= 1
    BY <2>2, FrameAt
  <2> QED
    BY <2>2, <2>3
<1> QED
  BY <1>4, <1>6, <1>7

LEMMA NumberedNext ==
  ASSUME NEW r \in Requests, NEW m \in Nat
  PROVE  Append(Numbered(r, m), <<r, m + 1>>) = Numbered(r, m + 1)
BY DEF Numbered

\* What handleFrame makes of the table and of the calls.
LEMMA HandledCases ==
  ASSUME Types, NEW h \in StreamFrames, Cli!OnStreamFrame(h)
  PROVE  /\ \A i \in Ids \ {h.id} : pending'[i] = pending[i]
         /\ \/ /\ h.type = "open" /\ pending'[h.id] = [meta |-> Owner(h), chunks |-> <<>>]
               /\ UNCHANGED <<call, callId, body>>
            \/ /\ h.type = "data" /\ UNCHANGED <<call, callId, body>>
               /\ pending'[h.id] = IF pending[h.id] = None THEN None
                                   ELSE Cli!AddChunk(pending[h.id], h.body)
            \/ /\ h.type = "end" /\ pending'[h.id] = None
               /\ LET p == pending[h.id]
                  IN  /\ p = None => UNCHANGED <<call, callId, body>>
                      /\ p # None => /\ call' = [call EXCEPT ![p.meta] = "request"]
                                     /\ callId' = [callId EXCEPT ![p.meta] = h.id]
                                     /\ body' = [body EXCEPT ![p.meta] = p.chunks]
            \/ h.type = "rst" /\ pending'[h.id] = None /\ UNCHANGED <<call, callId, body>>
<1>1. pending \in [Ids -> {None} \cup Partial] /\ h.id \in Ids
  BY DEF Types, CallType, StreamFrames
<1>2. CASE Cli!OnOpen(h)
  BY <1>1, <1>2 DEF Cli!OnOpen, Cli!callVars, Owner
<1>3. CASE Cli!OnData(h)
  BY <1>1, <1>3 DEF Cli!OnData, Cli!callVars
<1>4. CASE Cli!OnEnd(h)
  <2>1. pending' = [pending EXCEPT ![h.id] = None] /\ h.type = "end"
    BY <1>4 DEF Cli!OnEnd
  <2>2. pending[h.id] = None => UNCHANGED <<call, callId, body>>
    BY <1>4 DEF Cli!OnEnd, Cli!callVars
  <2>3. pending[h.id] # None =>
          /\ call' = [call EXCEPT ![pending[h.id].meta] = "request"]
          /\ callId' = [callId EXCEPT ![pending[h.id].meta] = h.id]
          /\ body' = [body EXCEPT ![pending[h.id].meta] = pending[h.id].chunks]
    BY <1>4 DEF Cli!OnEnd
  <2> QED
    BY <1>1, <2>1, <2>2, <2>3
<1>5. CASE Cli!OnRst(h)
  BY <1>1, <1>5 DEF Cli!OnRst, Cli!callVars
<1> QED
  BY <1>2, <1>3, <1>4, <1>5 DEF Cli!OnStreamFrame

LEMMA UploadsTake ==
  ASSUME Types, Uploads, NEW s \in Conns, Takes(s, Head(toCli[s]))
  PROVE  Uploads'
<1>0. PICK h \in StreamFrames : h = Head(toCli[s])
  BY TakenType
<1>1. Shifts(s, h)
  BY <1>0, HeadShifts DEF Takes, gwVars, reqVars
<1>2. /\ crossed' = crossed \cup Meets(h)
      /\ conn' = conn /\ sid' = sid /\ pc' = pc /\ sent' = sent
      /\ authed' = authed /\ s \in authed
  BY <1>0 DEF Takes, gwVars, reqVars
<1>3. Cli!OnStreamFrame(h)
  BY <1>0 DEF Takes
<1> DEFINE i == h.id
           o == Owner(h)
<1>4. /\ \A j \in Ids \ {i} : pending'[j] = pending[j]
      /\ \/ /\ h.type = "open" /\ pending'[i] = [meta |-> o, chunks |-> <<>>]
            /\ UNCHANGED <<call, body>>
         \/ /\ h.type = "data" /\ UNCHANGED <<call, body>>
            /\ pending'[i] = IF pending[i] = None THEN None ELSE Cli!AddChunk(pending[i], h.body)
         \/ /\ h.type = "end" /\ pending'[i] = None
            /\ pending[i] = None => UNCHANGED <<call, body>>
            /\ pending[i] # None => /\ call' = [call EXCEPT ![pending[i].meta] = "request"]
                                    /\ body' = [body EXCEPT ![pending[i].meta] = pending[i].chunks]
         \/ h.type = "rst" /\ pending'[i] = None /\ UNCHANGED <<call, body>>
  BY <1>3, HandledCases
<1>5. i \in Ids /\ o \in Requests /\ Number(h) \in Nat /\ At(s, 1, h)
  BY <1>1, OwnerType DEF StreamFrames, Shifts
<1>6. Sent(s, h) /\ (h.type = "open" => call[o] = "none" /\ Came(s, o, 0))
  BY <1>5 DEF Uploads, InFlight
<1>7. ASSUME NEW j \in Ids, NEW p \in Partial, pending[j] = p
      PROVE  Begun(j, p) /\ p.meta \in Requests /\ sid[p.meta] = j
  BY <1>7, MetaType DEF Uploads, Waiting, Begun
<1>8. pending[i] # None => pending[i] \in Partial
  BY <1>5 DEF Types, CallType
\* Only the call of the request that was pending under the identifier changes.
<1>9. \A q \in Requests : /\ call'[q] # "none" /\ call[q] = "none" =>
                                h.type = "end" /\ pending[i] # None /\ q = pending[i].meta
                          /\ call[q] # "none" => call'[q] # "none"
                          /\ call[q] # "none" => body'[q] = body[q]
  <2> SUFFICES ASSUME NEW q \in Requests
               PROVE  /\ call'[q] # "none" /\ call[q] = "none" =>
                            h.type = "end" /\ pending[i] # None /\ q = pending[i].meta
                      /\ call[q] # "none" => call'[q] # "none"
                      /\ call[q] # "none" => body'[q] = body[q]
    OBVIOUS
  <2>1. call \in [Requests -> {"none", "request", "stream", "over"}]
        /\ body \in [Requests -> Seq(Requests \X Nat)]
    BY DEF Types, CallType
  <2>2. pending[i] # None => call[pending[i].meta] = "none"
    BY <1>5, <1>7, <1>8 DEF Begun
  <2> HIDE DEF i, o
  <2>3. CASE UNCHANGED <<call, body>>
    BY <2>3
  <2>4. CASE /\ h.type = "end" /\ pending[i] # None
             /\ call' = [call EXCEPT ![pending[i].meta] = "request"]
             /\ body' = [body EXCEPT ![pending[i].meta] = pending[i].chunks]
    BY <2>1, <2>2, <2>4
  <2> QED
    BY <1>4, <2>3, <2>4
<1> HIDE DEF i, o
<1>10. InFlight'
  <2> SUFFICES ASSUME NEW z \in Conns, NEW k \in Nat, NEW f \in StreamFrames, At(z, k, f)'
               PROVE  /\ Sent(z, f)' /\ InTurn(z, k, f)'
                      /\ f.type = "open" => call'[Owner(f)] = "none" /\ Came(z, Owner(f), 0)'
    BY DEF InFlight
  <2>1. /\ Sent(z, f)' /\ InTurn(z, k, f)'
        /\ f.type = "open" => call[Owner(f)] = "none" /\ Came(z, Owner(f), 0)'
        /\ \E j \in Nat : At(z, j, f)
    BY <1>1, FlightShifts DEF Uploads
  <2>2. ASSUME f.type = "open", call'[Owner(f)] # "none"
        PROVE  FALSE
    <3>1. pending[i] # None /\ Owner(f) = pending[i].meta
      BY <1>9, <2>1, <2>2, OwnerType
    <3>2. Begun(i, pending[i])
      BY <1>5, <1>7, <1>8, <3>1
    <3> QED
      BY <2>1, <2>2, <3>1, <3>2 DEF Begun
  <2> QED
    BY <2>1, <2>2
<1>11. \A p \in Partial, z \in Conns, k \in Nat, f \in StreamFrames :
         /\ \A y \in Conns, l \in Nat, g \in StreamFrames :
              At(y, l, g) /\ Owner(g) = p.meta => g.type # "open"
         /\ At(z, k, f)' /\ Owner(f) = p.meta
         => f.type # "open"
  BY <1>1, FlightShifts DEF Uploads
<1>12. ASSUME NEW j \in Ids \ {i}, NEW p \in Partial, pending'[j] = p
       PROVE  Begun(j, p)'
  <2>1. pending[j] = p /\ Begun(j, p) /\ p.meta \in Requests /\ sid[p.meta] = j
    BY <1>4, <1>7, <1>12
  <2>2. p.meta # o
    BY <1>6, <2>1 DEF Sent, i, o
  <2>3. call'[p.meta] = "none"
    <3>1. pending[i] # None => pending[i].meta # p.meta
      BY <1>5, <1>7, <1>8, <2>1
    <3> QED
      BY <1>9, <2>1, <3>1 DEF Begun
  <2>4. \A z \in Conns, k \in Nat, f \in StreamFrames :
          At(z, k, f)' /\ Owner(f) = p.meta => f.type # "open"
    BY <1>11, <2>1 DEF Begun
  <2>5. ASSUME p.meta \notin crossed, NEW z \in Conns, conn[p.meta] = z
        PROVE  Came(z, p.meta, Len(p.chunks) + 1)'
    <3>1. Came(z, p.meta, Len(p.chunks) + 1)
      BY <2>1, <2>5 DEF Begun
    <3> QED
      BY <1>1, <2>1, <2>2, <3>1, CameShifts DEF o
  <2>6. p.meta \notin crossed => p.chunks = Numbered(p.meta, Len(p.chunks))
    BY <2>1 DEF Begun
  <2> QED
    BY <1>2, <2>1, <2>3, <2>4, <2>5, <2>6 DEF Begun
<1>13. ASSUME h.type = "open", NEW p \in Partial, pending'[i] = p
       PROVE  Begun(i, p)'
  <2>1. p.meta = o /\ p.chunks = <<>> /\ call' = call /\ sid[o] = i /\ conn[o] = s /\ Number(h) = 0
    BY <1>4, <1>6, <1>13 DEF Sent, i, o
  <2>2. Len(p.chunks) = 0 /\ p.chunks = Numbered(p.meta, 0)
    BY <2>1 DEF Numbered
  <2>3. \A z \in Conns, k \in Nat, f \in StreamFrames :
          At(z, k, f)' /\ Owner(f) = p.meta => f.type # "open"
    <3> SUFFICES ASSUME NEW z \in Conns, NEW k \in Nat, NEW f \in StreamFrames,
                        At(z, k, f)', Owner(f) = p.meta, f.type = "open"
                 PROVE  FALSE
      OBVIOUS
    <3>1. Sent(z, f)' /\ z # s
      BY <1>1, <2>1, FlightShifts DEF Uploads, o
    <3> QED
      BY <1>2, <2>1, <3>1 DEF Sent
  <2>4. Came(s, Owner(h), Number(h))
    BY <1>6, <1>13, <2>1 DEF o, Came, Before, Comes
  <2>5. Came(s, Owner(h), Number(h) + 1)'
    BY <1>1, <2>4, CameNext DEF Uploads
  <2>6. Number(h) + 1 = Len(p.chunks) + 1 /\ Owner(h) = p.meta
    BY <2>1, <2>2 DEF o
  <2>7. Came(s, p.meta, Len(p.chunks) + 1)'
    BY <2>5, <2>6 DEF Came, Before, Comes, At
  <2>8. \A z \in Conns : conn[p.meta] = z => Came(z, p.meta, Len(p.chunks) + 1)'
    BY <2>1, <2>7 DEF Came, Before, Comes, At
  <2>9. /\ sid'[p.meta] = i /\ call'[p.meta] = "none" /\ conn'[p.meta] \in authed'
        /\ p.chunks = Numbered(p.meta, Len(p.chunks))
    BY <1>2, <1>6, <1>13, <2>1, <2>2
  <2> QED
    BY <1>2, <2>3, <2>8, <2>9 DEF Begun
<1>14. ASSUME h.type = "data", NEW p \in Partial, pending'[i] = p
       PROVE  Begun(i, p)'
  <2>1. PICK p0 \in Partial : pending[i] = p0
    BY <1>4, <1>8, <1>14, NoneIsNoRequest
  <2>2. p = Cli!AddChunk(p0, h.body) /\ call' = call
    BY <1>4, <1>14, <2>1, NoneIsNoRequest
  <2>3. p.meta = p0.meta /\ p.chunks = Append(p0.chunks, h.body) /\ p0.chunks \in Seq(Requests \X Nat)
    BY <2>2 DEF Cli!AddChunk, Partial
  <2>4. Begun(i, p0) /\ p0.meta \in Requests
    BY <1>5, <1>7, <2>1
  <2>5. \A z \in Conns, k \in Nat, f \in StreamFrames :
          At(z, k, f)' /\ Owner(f) = p0.meta => f.type # "open"
    BY <1>11, <2>4 DEF Begun
  <2>6. ASSUME p.meta \notin crossed'
        PROVE  /\ p.chunks = Numbered(p.meta, Len(p.chunks))
               /\ \A z \in Conns : conn[p.meta] = z => Came(z, p.meta, Len(p.chunks) + 1)'
    <3>1. /\ o = p0.meta /\ Number(h) = Len(p0.chunks) + 1
          /\ p0.chunks = Numbered(p0.meta, Len(p0.chunks)) /\ Came(s, p0.meta, Len(p0.chunks) + 1)
      BY <1>2, <1>5, <1>14, <2>1, <2>3, <2>6, NextOfBody DEF i, o
    <3>2. h.body = <<p0.meta, Len(p0.chunks) + 1>> /\ Len(p0.chunks) \in Nat
      BY <2>3, <3>1, LenProperties DEF o, Owner, Number, StreamFrames
    <3>3. Len(p.chunks) = Len(p0.chunks) + 1
      BY <2>3, AppendProperties DEF StreamFrames
    <3>4. p.chunks = Numbered(p.meta, Len(p.chunks))
      BY <2>3, <2>4, <3>1, <3>2, <3>3, NumberedNext
    <3>5. Came(s, Owner(h), Number(h))
      BY <3>1 DEF o
    <3>6. Came(s, Owner(h), Number(h) + 1)'
      BY <1>1, <3>5, CameNext DEF Uploads
    <3>7. Number(h) + 1 = Len(p.chunks) + 1 /\ Owner(h) = p.meta /\ conn[p.meta] = s
      BY <1>6, <2>3, <3>1, <3>3 DEF o, Sent
    <3>8. \A z \in Conns : conn[p.meta] = z => Came(z, p.meta, Len(p.chunks) + 1)'
      BY <3>6, <3>7 DEF Came, Before, Comes, At
    <3> QED
      BY <3>4, <3>8
  <2> QED
    BY <1>2, <2>2, <2>3, <2>4, <2>5, <2>6 DEF Begun
<1>15. Waiting'
  <2> SUFFICES ASSUME NEW j \in Ids, NEW p \in Partial, pending'[j] = p PROVE Begun(j, p)'
    BY DEF Waiting
  <2>1. CASE j # i
    BY <1>12, <2>1
  <2>2. CASE j = i
    <3>1. h.type \in {"open", "data"}
      BY <1>4, <2>2, NoneIsNoRequest
    <3>2. Begun(i, p)'
      BY <1>13, <1>14, <2>2, <3>1
    <3> QED
      BY <2>2, <3>2 DEF Begun
  <2> QED
    BY <2>1, <2>2
<1>16. Entries(s, h)
  <2> SUFFICES ASSUME NEW j \in Ids, NEW p \in Partial, pending'[j] = p
               PROVE  \/ /\ \E p0 \in Partial : pending[j] = p0 /\ p0.meta = p.meta
                         /\ ~(h \in StreamFrames /\ h.type = "open" /\ h.id = j)
                      \/ h.type = "open" /\ Owner(h) = p.meta
    BY DEF Entries
  <2>1. CASE j # i
    BY <1>4, <2>1 DEF i
  <2>2. CASE j = i /\ h.type = "open"
    BY <1>4, <2>2 DEF o
  <2>3. CASE j = i /\ h.type # "open"
    <3>1. pending[i] \in Partial /\ p = Cli!AddChunk(pending[i], h.body)
      BY <1>4, <1>8, <2>3, NoneIsNoRequest
    <3>2. p.meta = pending[i].meta
      BY <3>1 DEF Cli!AddChunk, Partial
    <3> QED
      BY <2>3, <3>1, <3>2
  <2> QED
    BY <2>1, <2>2, <2>3
<1>17. Later'
  BY <1>1, <1>16, LaterShifts
<1>18. Given'
  <2> SUFFICES ASSUME NEW q \in Requests \ crossed', call'[q] # "none"
               PROVE  pc[q] \in {"pipe", "done"} /\ body'[q] = Numbered(q, sent[q])
    BY <1>2 DEF Given
  <2>1. CASE call[q] # "none"
    BY <1>2, <1>9, <2>1 DEF Uploads, Given
  <2>2. CASE call[q] = "none"
    <3>1. h.type = "end" /\ pending[i] # None /\ q = pending[i].meta
      BY <1>9, <2>2
    <3>2. PICK p \in Partial : pending[i] = p
      BY <1>8, <3>1
    <3>3. o = q /\ Number(h) = Len(p.chunks) + 1 /\ p.chunks = Numbered(q, Len(p.chunks))
      BY <1>2, <1>5, <3>1, <3>2, NextOfBody DEF i, o
    <3>4. body'[q] = p.chunks
      BY <1>4, <3>1, <3>2 DEF Types, CallType
    <3>5. Number(h) = sent[q] + 1 /\ pc[q] \in {"pipe", "done"}
      BY <1>6, <3>1, <3>3 DEF Sent, o
    <3>6. Len(p.chunks) \in Nat /\ sent[q] \in Nat
      BY SentType, LenProperties DEF Partial
    <3>7. Len(p.chunks) = sent[q]
      BY <3>3, <3>5, <3>6
    <3> QED
      BY <3>3, <3>4, <3>5, <3>7
  <2> QED
    BY <2>1, <2>2
<1> QED
  BY <1>10, <1>15, <1>17, <1>18 DEF Uploads

\* The two halves of Served.
Table ==
  /\ \A r \in Requests : pc[r] \in Live => streams[conn[r]][sid[r]] = r
  /\ \A s \in Conns, i \in Ids, r \in Requests :
       streams[s][i] = r => conn[r] = s /\ sid[r] = i /\ pc[r] \in Live
  /\ \A r \in Requests : pc[r] # "idle" => conn[r] \in 1..newest /\ sid[r] \in Ids
  /\ \A r \in Requests : pc[r] = "idle" => /\ conn[r] = 0 /\ sid[r] = 0 /\ sent[r] = 0
                                           /\ call[r] = "none"

Silent == \A s \in Conns : link[s] = "down" => toCli[s] = <<>> /\ toGw[s] = <<>>

LEMMA ServedParts == (Served <=> Table /\ Silent) /\ (Served' <=> Table' /\ Silent')
BY DEF Served, Table, Silent

LEMMA ToCliSilent ==
  ASSUME Types, Silent, NEW s, NEW f, ToCli(s, f), link' = link, toGw' = toGw
  PROVE  Silent'
<1> SUFFICES ASSUME NEW z \in Conns, link[z] = "down" PROVE toCli'[z] = <<>> /\ toGw'[z] = <<>>
  BY DEF Silent
<1>1. toCli[z] = <<>> /\ toGw[z] = <<>>
  BY DEF Silent
<1>2. toCli'[z] = toCli[z]
  BY DEF ToCli, Types, WireType
<1> QED
  BY <1>1, <1>2

LEMMA TableOpen ==
  ASSUME Types, Table, NEW r \in Requests, Open(r)
  PROVE  Table'
<1>1. PICK i \in Ids \ Taken(newest) :
        /\ streams' = [streams EXCEPT ![newest][i] = r]
        /\ sid' = [sid EXCEPT ![r] = i]
        /\ conn' = [conn EXCEPT ![r] = newest]
  BY DEF Open
<1>2. /\ pc' = [pc EXCEPT ![r] = "body"] /\ sent' = sent /\ call' = call /\ newest' = newest
      /\ pc[r] = "idle" /\ newest \in Conns /\ newest \in 1..newest
  BY EarlierConn DEF Open, cliVars
<1>3. streams[newest][i] = None /\ i \in Ids
  BY <1>1 DEF Taken
<1>4. /\ pc'[r] = "body" /\ sid'[r] = i /\ conn'[r] = newest
      /\ \A q \in Requests \ {r} : pc'[q] = pc[q] /\ sid'[q] = sid[q] /\ conn'[q] = conn[q]
  BY <1>1, <1>2 DEF Types, RequestType
<1>5. /\ streams'[newest][i] = r
      /\ \A z \in Conns, j \in Ids : z # newest \/ j # i => streams'[z][j] = streams[z][j]
  BY <1>1, <1>2, <1>3 DEF Types, RequestType
<1>6. ASSUME NEW q \in Requests, pc'[q] \in Live PROVE streams'[conn'[q]][sid'[q]] = q
  <2>1. CASE q = r
    BY <1>4, <1>5, <2>1
  <2>2. CASE q # r
    <3>1. streams[conn[q]][sid[q]] = q /\ conn[q] \in Conns /\ sid[q] \in Ids
      BY <1>4, <1>6, <2>2, EarlierConn DEF Table, Live
    <3> QED
      BY <1>3, <1>4, <1>5, <2>2, <3>1, NoneIsNoRequest
  <2> QED
    BY <2>1, <2>2
<1>7. ASSUME NEW z \in Conns, NEW j \in Ids, NEW q \in Requests, streams'[z][j] = q
      PROVE  conn'[q] = z /\ sid'[q] = j /\ pc'[q] \in Live
  <2>1. CASE z = newest /\ j = i
    BY <1>4, <1>5, <1>7, <2>1 DEF Live
  <2>2. CASE z # newest \/ j # i
    <3>1. streams[z][j] = q
      BY <1>5, <1>7, <2>2
    <3>2. conn[q] = z /\ sid[q] = j /\ pc[q] \in Live
      BY <3>1 DEF Table
    <3>3. q # r
      BY <1>2, <3>2 DEF Live
    <3> QED
      BY <1>4, <3>2, <3>3
  <2> QED
    BY <2>1, <2>2
<1>8. \A q \in Requests : /\ pc'[q] # "idle" => conn'[q] \in 1..newest' /\ sid'[q] \in Ids
                          /\ pc'[q] = "idle" => /\ conn'[q] = 0 /\ sid'[q] = 0 /\ sent'[q] = 0
                                                /\ call'[q] = "none"
  BY <1>2, <1>3, <1>4 DEF Table
<1> QED
  BY <1>6, <1>7, <1>8 DEF Table

LEMMA TableRelease ==
  ASSUME Types, Table, NEW r \in Requests, Release(r) \/ Reset(r)
  PROVE  Table'
<1>1. /\ streams' = [streams EXCEPT ![conn[r]][sid[r]] = None]
      /\ pc' = [pc EXCEPT ![r] = "done"] /\ pc[r] \in Live
      /\ UNCHANGED <<conn, sid, sent, newest, call>>
  BY DEF Release, Reset, cliVars, Live
<1>2. conn[r] \in Conns /\ sid[r] \in Ids
  BY <1>1, EarlierConn DEF Table, Live
<1>3. /\ streams'[conn[r]][sid[r]] = None
      /\ \A z \in Conns, j \in Ids : z # conn[r] \/ j # sid[r] => streams'[z][j] = streams[z][j]
      /\ pc'[r] = "done" /\ \A q \in Requests \ {r} : pc'[q] = pc[q]
  BY <1>1, <1>2 DEF Types, RequestType
<1>4. ASSUME NEW q \in Requests, pc'[q] \in Live PROVE streams'[conn'[q]][sid'[q]] = q
  <2>1. q # r
    BY <1>3, <1>4 DEF Live
  <2>2. streams[conn[q]][sid[q]] = q /\ conn[q] \in Conns /\ sid[q] \in Ids
    BY <1>3, <1>4, <2>1, EarlierConn DEF Table, Live
  <2>3. streams[conn[r]][sid[r]] = r
    BY <1>1 DEF Table
  <2> QED
    BY <1>1, <1>3, <2>1, <2>2, <2>3
<1>5. ASSUME NEW z \in Conns, NEW j \in Ids, NEW q \in Requests, streams'[z][j] = q
      PROVE  conn'[q] = z /\ sid'[q] = j /\ pc'[q] \in Live
  <2>1. z # conn[r] \/ j # sid[r]
    BY <1>3, <1>5, NoneIsNoRequest
  <2>2. streams[z][j] = q
    BY <1>3, <1>5, <2>1
  <2>3. conn[q] = z /\ sid[q] = j /\ pc[q] \in Live
    BY <2>2 DEF Table
  <2> QED
    BY <1>1, <1>3, <2>1, <2>3
<1>6. \A q \in Requests : /\ pc'[q] # "idle" => conn'[q] \in 1..newest' /\ sid'[q] \in Ids
                          /\ pc'[q] = "idle" => /\ conn'[q] = 0 /\ sid'[q] = 0 /\ sent'[q] = 0
                                                /\ call'[q] = "none"
  BY <1>1, <1>3 DEF Table, Live
<1> QED
  BY <1>4, <1>5, <1>6 DEF Table

LEMMA ServedGateway ==
  ASSUME Types, Served,
         \/ \E s \in Conns : Register(s) \/ WriteAuthOK(s) \/ Dispatch(s)
         \/ \E r \in Requests : Request(r)
  PROVE  Served'
<1>0. Table /\ Silent
  BY ServedParts
<1>1. ASSUME NEW s \in Conns, Register(s) PROVE Served'
  <2>1. 1..newest \subseteq 1..newest'
    BY <1>1, LaterConn DEF Register
  <2>2. Table'
    BY <1>0, <1>1, <2>1 DEF Register, Table, cliVars, reqVars
  <2>3. Silent'
    BY <1>0, <1>1 DEF Register, Silent
  <2> QED
    BY <2>2, <2>3, ServedParts
<1>2. ASSUME NEW s \in Conns, WriteAuthOK(s) PROVE Served'
  <2>1. Table'
    BY <1>0, <1>2 DEF WriteAuthOK, Table, cliVars, reqVars
  <2>2. Silent'
    BY <1>0, <1>2, ToCliSilent DEF WriteAuthOK
  <2> QED
    BY <2>1, <2>2, ServedParts
<1>3. ASSUME NEW s \in Conns, Dispatch(s) PROVE Served'
  <2>1. Table'
    <3>1. UNCHANGED <<call, newest, streams, conn, sid, pc, sent>>
      BY <1>3 DEF Dispatch, cliVars
    <3> QED
      BY <1>0, <3>1 DEF Table
  <2>2. Silent'
    <3>1. /\ toGw[s] # <<>> /\ link' = link /\ toCli' = toCli
          /\ \A z \in Conns \ {s} : toGw'[z] = toGw[z]
      BY <1>3 DEF Dispatch, Types, WireType
    <3> QED
      BY <1>0, <3>1 DEF Silent
  <2> QED
    BY <2>1, <2>2, ServedParts
<1>4. ASSUME NEW r \in Requests, Open(r) PROVE Served'
  <2>1. link' = link /\ toGw' = toGw /\ \E i : ToCli(newest, Cli!Frame("open", i, <<r, 0>>))
    BY <1>4 DEF Open
  <2>2. Silent'
    BY <1>0, <2>1, ToCliSilent
  <2> QED
    BY <1>0, <1>4, <2>2, TableOpen, ServedParts
<1>5. ASSUME NEW r \in Requests, SendData(r) \/ SendEnd(r) PROVE Served'
  <2>1. /\ pc[r] = "body" /\ pc'[r] \in Live /\ \A q \in Requests \ {r} : pc'[q] = pc[q]
        /\ \A q \in Requests \ {r} : sent'[q] = sent[q]
        /\ UNCHANGED <<streams, conn, sid, newest, call>>
    BY <1>5 DEF SendData, SendEnd, cliVars, Live, Types, RequestType
  <2>2. Table'
    BY <1>0, <2>1 DEF Table, Live
  <2>3. Silent'
    BY <1>0, <1>5, ToCliSilent DEF SendData, SendEnd
  <2> QED
    BY <2>2, <2>3, ServedParts
<1>6. ASSUME NEW r \in Requests, Release(r) \/ Reset(r) PROVE Served'
  <2>1. Silent'
    <3>1. CASE Release(r)
      BY <1>0, <3>1 DEF Release, Silent
    <3>2. CASE Reset(r)
      BY <1>0, <3>2, ToCliSilent DEF Reset
    <3> QED
      BY <1>6, <3>1, <3>2
  <2> QED
    BY <1>0, <1>6, <2>1, TableRelease, ServedParts
<1> QED
  BY <1>1, <1>2, <1>3, <1>4, <1>5, <1>6 DEF Request

LEMMA ServedCli ==
  ASSUME Types, Served, Uploads, Calls,
         \/ \E s \in Conns : HandleFrame(s) \/ Loss(s)
         \/ \E z \in {0} \cup Conns : Clears(z)
         \/ \E r \in Requests : HandleStream(r)
  PROVE  Served'
<1>0. Table /\ Silent
  BY ServedParts
<1>1. ASSUME UNCHANGED <<streams, conn, sid, pc, sent, newest>>,
             \A q \in Requests : call[q] = "none" /\ pc[q] = "idle" => call'[q] = "none"
      PROVE  Table'
  BY <1>0, <1>1 DEF Table
<1>2. ASSUME NEW s \in Conns, Takes(s, Head(toCli[s])) PROVE Served'
  <2>0. PICK h \in StreamFrames : h = Head(toCli[s])
    BY <1>2, TakenType
  <2>1. Cli!OnStreamFrame(h) /\ h.id \in Ids
    BY <1>2, <2>0 DEF Takes, StreamFrames
  <2>2. UNCHANGED call \/ (pending[h.id] # None /\ call' = [call EXCEPT ![pending[h.id].meta] = "request"])
    BY <2>1, HandledCases
  <2>3. pending[h.id] # None => pending[h.id] \in Partial
    BY <2>1 DEF Types, CallType
  <2>4. pending[h.id] # None => sid[pending[h.id].meta] \in Ids /\ pending[h.id].meta \in Requests
    BY <2>1, <2>3, MetaType DEF Uploads, Waiting, Begun
  <2>5. pending[h.id] # None => pc[pending[h.id].meta] # "idle"
    BY <1>0, <2>4, IdsAreNumbers DEF Table
  <2>6. \A q \in Requests : call[q] = "none" /\ pc[q] = "idle" => call'[q] = "none"
    BY <2>2, <2>4, <2>5 DEF Types, CallType
  <2>7. Table'
    BY <1>1, <1>2, <2>6 DEF Takes, gwVars, reqVars
  <2>8. /\ toCli[s] # <<>> /\ link' = link /\ toGw' = toGw
        /\ \A z \in Conns \ {s} : toCli'[z] = toCli[z]
    BY <1>2 DEF Takes, Types, WireType
  <2>9. Silent'
    BY <1>0, <2>8 DEF Silent
  <2> QED
    BY <2>7, <2>9, ServedParts
<1>3. ASSUME NEW s \in Conns, Drops(s, Head(toCli[s])) PROVE Served'
  <2>1. Table'
    BY <1>1, <1>3 DEF Drops, gwVars, reqVars
  <2>2. /\ toCli[s] # <<>> /\ link' = link /\ toGw' = toGw
        /\ \A z \in Conns \ {s} : toCli'[z] = toCli[z]
    BY <1>3 DEF Drops, Types, WireType
  <2>3. Silent'
    BY <1>0, <2>2 DEF Silent
  <2> QED
    BY <2>1, <2>3, ServedParts
<1>4. ASSUME NEW r \in Requests, NEW t \in Cli!AnswerTypes, Answers(r, t) PROVE Served'
  <2>1. call[r] # "none" /\ \A q \in Requests \ {r} : call'[q] = call[q]
    BY <1>4, AnswerCases DEF Answers
  <2>2. Table'
    BY <1>1, <1>4, <2>1 DEF Answers, gwVars, reqVars
  <2>3. /\ link' = link /\ toCli' = toCli
        /\ \A z \in Conns : link[z] = "down" => toGw'[z] = toGw[z]
    BY <1>4 DEF Answers, Types, WireType
  <2>4. Silent'
    BY <1>0, <2>3 DEF Silent
  <2> QED
    BY <2>2, <2>4, ServedParts
<1>5. ASSUME NEW s \in Conns, Loss(s) PROVE Served'
  <2>1. Table'
    BY <1>1, <1>5 DEF Loss, cliVars, gwVars, reqVars
  <2>2. toCli'[s] = <<>> /\ toGw'[s] = <<>>
    BY <1>5 DEF Loss, Types, WireType
  <2>3. \A z \in Conns \ {s} : toCli'[z] = toCli[z] /\ toGw'[z] = toGw[z] /\ link'[z] = link[z]
    BY <1>5 DEF Loss, Types, WireType, SocketType
  <2>4. Silent'
    BY <1>0, <2>2, <2>3 DEF Silent
  <2> QED
    BY <2>1, <2>4, ServedParts
<1>6. ASSUME NEW z \in {0} \cup Conns, Clears(z) PROVE Served'
  <2>1. Table'
    BY <1>1, <1>6 DEF Clears, ClearPending, gwVars, reqVars
  <2>2. /\ toCli' = toCli /\ toGw' = toGw
        /\ \A s \in Conns : link'[s] = link[s] \/ link'[s] = "parting"
    BY <1>6 DEF Clears, ClearPending
  <2>3. Silent'
    BY <1>0, <2>2 DEF Silent
  <2> QED
    BY <2>1, <2>3, ServedParts
<1> QED
  BY <1>2, <1>3, <1>4, <1>5, <1>6, HandleFrameCases, HandleStreamCases

-----------------------------------------------------------------------------
\* Calls and Welcome.
LEMMA CallsTake ==
  ASSUME Types, Served, Uploads, Calls, NEW s \in Conns, Takes(s, Head(toCli[s]))
  PROVE  Calls'
<1>0. PICK h \in StreamFrames : h = Head(toCli[s])
  BY TakenType
<1>1. Cli!OnStreamFrame(h) /\ h.id \in Ids
  BY <1>0 DEF Takes, StreamFrames
<1>2. /\ via' = [q \in Requests |-> IF call'[q] # call[q] THEN proxy ELSE via[q]]
      /\ authed' = authed /\ pc' = pc /\ sid' = sid /\ s \in authed
  BY DEF Takes, gwVars, reqVars
<1>3. proxy \in authed
  BY <1>2 DEF Types, SocketType
<1>4. CASE UNCHANGED <<call, callId>>
  BY <1>2, <1>4 DEF Calls
<1>5. CASE /\ pending[h.id] # None
           /\ call' = [call EXCEPT ![pending[h.id].meta] = "request"]
           /\ callId' = [callId EXCEPT ![pending[h.id].meta] = h.id]
  <2>1. pending[h.id] \in Partial
    BY <1>1, <1>5 DEF Types, CallType
  <2>2. PICK r \in Requests : r = pending[h.id].meta
    BY <2>1, MetaType
  <2>3. sid[r] = h.id /\ call[r] = "none"
    BY <1>1, <2>1, <2>2 DEF Uploads, Waiting, Begun
  <2>4. pc[r] # "idle"
    BY <1>1, <2>3, IdsAreNumbers DEF Served
  <2>5. /\ call'[r] = "request" /\ callId'[r] = h.id
        /\ \A q \in Requests \ {r} : call'[q] = call[q] /\ callId'[q] = callId[q]
    BY <1>5, <2>2 DEF Types, CallType
  <2>6. via'[r] = proxy /\ \A q \in Requests \ {r} : via'[q] = via[q]
    BY <1>2, <2>3, <2>5
  <2> QED
    BY <1>2, <1>3, <2>3, <2>4, <2>5, <2>6 DEF Calls
<1> QED
  BY <1>1, <1>4, <1>5, HandledCases

LEMMA CallsStep ==
  ASSUME Types, Served, Uploads, Calls, [Next]_vars
  PROVE  Calls'
<1>1. CASE UNCHANGED vars
  BY <1>1 DEF Calls, vars, cliVars, gwVars, reqVars
<1>2. ASSUME NEW r \in Requests, Request(r) PROVE Calls'
  <2>1. /\ UNCHANGED <<call, callId, via, authed>>
        /\ \A q \in Requests : pc[q] # "idle" => pc'[q] # "idle" /\ sid'[q] = sid[q]
    BY <1>2 DEF Request, Open, SendData, SendEnd, Release, Reset, cliVars, Types, RequestType, Live
  <2> QED
    BY <2>1 DEF Calls
<1>3. ASSUME NEW s \in Conns, Register(s) \/ WriteAuthOK(s) \/ Dispatch(s) \/ Loss(s)
      PROVE  Calls'
  BY <1>3 DEF Calls, Register, WriteAuthOK, Dispatch, Loss, cliVars, gwVars, reqVars
<1>4. ASSUME NEW s \in Conns, Drops(s, Head(toCli[s])) PROVE Calls'
  <2>1. UNCHANGED <<call, callId, via, pc, sid>> /\ authed \subseteq authed'
    BY <1>4 DEF Drops, gwVars, reqVars
  <2> QED
    BY <2>1 DEF Calls
<1>5. ASSUME NEW r \in Requests, NEW t \in Cli!AnswerTypes, Answers(r, t) PROVE Calls'
  <2>1. /\ callId' = callId /\ call[r] # "none" /\ UNCHANGED <<via, authed, pc, sid>>
        /\ \A q \in Requests \ {r} : call'[q] = call[q]
    BY <1>5, AnswerCases DEF Answers, gwVars, reqVars
  <2> QED
    BY <2>1 DEF Calls
<1>6. ASSUME NEW z \in {0} \cup Conns, Clears(z) PROVE Calls'
  BY <1>6 DEF Calls, Clears, ClearPending, gwVars, reqVars
<1> QED
  BY <1>1, <1>2, <1>3, <1>4, <1>5, <1>6, CallsTake, HandleFrameCases, HandleStreamCases, PauseCases
  DEF Next

LEMMA Cases ==
  ASSUME Types, Served, [Next]_vars
  PROVE  \/ UNCHANGED vars
         \/ \E r \in Requests : Release(r)
         \/ \E r \in Requests, t \in Cli!AnswerTypes : Answers(r, t)
         \/ \E r \in Requests, t \in {"open", "data", "end", "rst"}, n \in Nat, s \in Conns, i \in Ids :
              Writes(r, t, n, s, i)
         \/ \E s \in Conns : \/ Register(s) \/ WriteAuthOK(s) \/ Dispatch(s) \/ Loss(s)
                             \/ Takes(s, Head(toCli[s])) \/ Drops(s, Head(toCli[s]))
         \/ \E z \in {0} \cup Conns : Clears(z)
<1>1. ASSUME NEW r \in Requests, Request(r) \/ HandleStream(r)
      PROVE  \/ Release(r)
             \/ \E t \in Cli!AnswerTypes : Answers(r, t)
             \/ \E t \in {"open", "data", "end", "rst"}, n \in Nat, s \in Conns, i \in Ids :
                  Writes(r, t, n, s, i)
  BY <1>1, WriteCases, HandleStreamCases
<1>2. ASSUME NEW s \in Conns, HandleFrame(s)
      PROVE  Takes(s, Head(toCli[s])) \/ Drops(s, Head(toCli[s]))
  BY <1>2, HandleFrameCases
<1> QED
  BY <1>1, <1>2, PauseCases DEF Next

LEMMA WelcomeStep ==
  ASSUME Types, Served, Welcome, [Next]_vars
  PROVE  Welcome'
<1>1. ASSUME toCli' = toCli, welcomed' = welcomed PROVE Welcome'
  BY <1>1 DEF Welcome, At
<1>2. ASSUME NEW s \in Conns, NEW h, Shifts(s, h), welcomed' = welcomed PROVE Welcome'
  <2> SUFFICES ASSUME NEW z \in Conns, NEW k \in Nat, At(z, k, AuthFrame)' PROVE z \in welcomed
    BY <1>2 DEF Welcome
  <2>1. \E j \in Nat : At(z, j, AuthFrame)
    <3>1. CASE z = s
      <4>1. k + 1 \in Nat /\ At(s, k + 1, AuthFrame)
        BY <1>2, <3>1 DEF Shifts
      <4> QED
        BY <3>1, <4>1
    <3>2. CASE z # s
      BY <1>2, <3>2 DEF Shifts
    <3> QED
      BY <3>1, <3>2
  <2> QED
    BY <2>1 DEF Welcome
<1>3. ASSUME NEW s \in Conns, Loss(s) PROVE Welcome'
  <2>1. toCli'[s] = <<>> /\ \A z \in Conns \ {s} : toCli'[z] = toCli[z]
    BY <1>3 DEF Loss, Types, WireType
  <2>2. welcomed' = welcomed
    BY <1>3 DEF Loss, gwVars
  <2>3. \A k \in Nat : k \notin 1..Len(<<>>)
    OBVIOUS
  <2> QED
    BY <2>1, <2>2, <2>3 DEF Welcome, At
<1>4. ASSUME NEW s \in Conns, Takes(s, Head(toCli[s])) \/ Drops(s, Head(toCli[s])) PROVE Welcome'
  <2>1. Shifts(s, Head(toCli[s]))
    BY <1>4, HeadShifts DEF Takes, Drops, gwVars, reqVars
  <2>2. welcomed' = welcomed
    BY <1>4 DEF Takes, Drops, gwVars
  <2> QED
    BY <1>2, <2>1, <2>2
<1>5. ASSUME NEW r \in Requests, NEW t \in {"open", "data", "end", "rst"}, NEW n \in Nat,
             NEW s \in Conns, NEW i \in Ids, Writes(r, t, n, s, i)
      PROVE  Welcome'
  <2>1. PICK f \in StreamFrames, l \in Nat : Last(s, l, f)
    BY <1>5, WrittenFrames
  <2>2. \A z \in Conns, k \in Nat : At(z, k, AuthFrame)' => At(z, k, AuthFrame)
    BY <2>1, AuthIsNoStream DEF Last
  <2>3. welcomed' = welcomed
    BY <1>5 DEF Writes
  <2> QED
    BY <2>2, <2>3 DEF Welcome
<1>6. ASSUME NEW s \in Conns, WriteAuthOK(s) PROVE Welcome'
  <2>1. ToCli(s, AuthFrame) /\ AuthFrame \in CliFrames /\ welcomed' = welcomed \cup {s}
    BY <1>6 DEF WriteAuthOK, AuthFrame, CliFrames
  <2>2. \A z \in Conns, k \in Nat : At(z, k, AuthFrame)' => At(z, k, AuthFrame) \/ z = s
    BY <2>1, Wrote
  <2> QED
    BY <2>1, <2>2 DEF Welcome
<1>7. CASE UNCHANGED vars \/ \E r \in Requests : Release(r)
  BY <1>1, <1>7 DEF vars, gwVars, Release
<1>8. ASSUME NEW r \in Requests, NEW t \in Cli!AnswerTypes, Answers(r, t) PROVE Welcome'
  BY <1>1, <1>8 DEF Answers, gwVars
<1>9. ASSUME NEW s \in Conns, Register(s) \/ Dispatch(s) PROVE Welcome'
  BY <1>1, <1>9 DEF Register, Dispatch, gwVars
<1>10. ASSUME NEW z \in {0} \cup Conns, Clears(z) PROVE Welcome'
  BY <1>1, <1>10 DEF Clears, ClearPending, gwVars
<1> QED
  BY <1>3, <1>4, <1>5, <1>6, <1>7, <1>8, <1>9, <1>10, Cases

LEMMA RestCases ==
  ASSUME Types, Served, Uploads, Calls,
         \/ UNCHANGED vars
         \/ \E r \in Requests : Release(r)
         \/ \E r \in Requests, t \in Cli!AnswerTypes : Answers(r, t)
         \/ \E s \in Conns : Register(s) \/ WriteAuthOK(s) \/ Dispatch(s)
         \/ \E z \in {0} \cup Conns : Clears(z)
  PROVE  Rests
<1>1. CASE UNCHANGED vars
  BY <1>1 DEF Rests, vars, cliVars, gwVars, reqVars, At
<1>2. ASSUME NEW r \in Requests, Release(r) PROVE Rests
  <2>1. \A q \in Requests : pc'[q] = pc[q] \/ (pc[q] \in Live /\ pc'[q] = "done")
    BY <1>2 DEF Release, Types, RequestType, Live
  <2> QED
    BY <1>2, <2>1 DEF Rests, Release, cliVars, At
<1>3. ASSUME NEW r \in Requests, NEW t \in Cli!AnswerTypes, Answers(r, t) PROVE Rests
  <2>1. /\ pending' = pending /\ body' = body /\ call[r] # "none" /\ call'[r] # "none"
        /\ \A q \in Requests \ {r} : call'[q] = call[q]
    BY <1>3, AnswerCases DEF Answers
  <2> QED
    BY <1>3, <2>1 DEF Rests, Answers, gwVars, reqVars, At
<1>4. ASSUME NEW s \in Conns, Register(s) \/ Dispatch(s) PROVE Rests
  BY <1>4 DEF Rests, Register, Dispatch, cliVars, reqVars, At
<1>5. ASSUME NEW s \in Conns, WriteAuthOK(s) PROVE Rests
  <2>1. ToCli(s, AuthFrame) /\ AuthFrame \in CliFrames
    BY <1>5 DEF WriteAuthOK, AuthFrame, CliFrames
  <2>2. \A z \in Conns, k \in Nat, f \in StreamFrames : At(z, k, f)' <=> At(z, k, f)
    BY <2>1, Wrote, AuthIsNoStream
  <2> QED
    BY <1>5, <2>2 DEF Rests, WriteAuthOK, cliVars, reqVars
<1>6. ASSUME NEW z \in {0} \cup Conns, Clears(z) PROVE Rests
  <2>1. \A s \in Conns : link'[s] # "down" => link[s] # "down"
    BY <1>6 DEF Clears
  <2>2. \A i \in Ids : pending'[i] = None
    BY <1>6 DEF Clears, ClearPending
  <2> QED
    BY <1>6, <2>1, <2>2, NoneIsNoRequest DEF Rests, Clears, ClearPending, gwVars, reqVars, At
<1> QED
  BY <1>1, <1>2, <1>3, <1>4, <1>5, <1>6

LEMMA UploadsStep ==
  ASSUME Types, Served, Uploads, Calls, [Next]_vars
  PROVE  Uploads'
BY Cases, RestCases, UploadsRest, UploadsWrite, UploadsTake, UploadsDrop, UploadsLoss

LEMMA TypesStep ==
  ASSUME Types, Served, Uploads, Calls, Welcome, [Next]_vars
  PROVE  Types' /\ Served'
<1>1. CASE UNCHANGED vars
  <2>1. Types'
    BY <1>1 DEF vars, cliVars, gwVars, reqVars, Types, CallType, SocketType, RequestType, WireType
  <2>2. Served'
    BY <1>1 DEF vars, cliVars, gwVars, reqVars, Served
  <2> QED
    BY <2>1, <2>2
<1>2. CASE \/ \E s \in Conns : Register(s) \/ WriteAuthOK(s) \/ Dispatch(s)
           \/ \E r \in Requests : Request(r)
  BY <1>2, TypesOfGateway, ServedGateway
<1>3. CASE \/ \E s \in Conns : HandleFrame(s) \/ Loss(s)
           \/ \E r \in Requests : HandleStream(r)
           \/ PauseUnlinked \/ \E s \in Conns : Pause(s)
  BY <1>3, TypesOfCli, ServedCli, PauseCases
<1> QED
  BY <1>1, <1>2, <1>3 DEF Next

SocketInv == Types /\ Served /\ Calls /\ Welcome /\ Uploads

LEMMA CliIds == Cli!Ids = Ids
BY DEF Cli!Ids, Ids, Cli!MaxId, MaxId

LEMMA SocketInit ==
  ASSUME Init
  PROVE  SocketInv
<1> USE DEF Init
<1>0. pending = [i \in Ids |-> None] /\ call = [r \in Requests |-> "none"]
  BY CliIds DEF Cli!CliInit
<1>1. Types
  <2>1. 0 \in 0..MaxChunks /\ 0 \in 0..MaxBody
    BY TunnelSocketsAssumption
  <2>2. <<>> \in Seq(Requests \X Nat) /\ <<>> \in Seq(CliFrames) /\ <<>> \in Seq(AnswerFrames)
    OBVIOUS
  <2>3. CallType
    <3>1. /\ pending = [i \in Ids |-> None] /\ call = [r \in Requests |-> "none"]
          /\ callId = [r \in Requests |-> 0] /\ body = [r \in Requests |-> <<>>]
          /\ chunks = [r \in Requests |-> 0]
      BY CliIds DEF Cli!CliInit
    <3> QED
      BY <2>1, <2>2, <3>1 DEF CallType
  <2>4. SocketType /\ RequestType /\ WireType
    BY <2>1, <2>2 DEF SocketType, RequestType, WireType
  <2> QED
    BY <2>3, <2>4 DEF Types
<1>2. Served
  BY NoneIsNoRequest DEF Served, Cli!CliInit, Live
<1>3. \A s \in Conns, k \in Nat : \A f : ~At(s, k, f)
  <2>1. \A k \in Nat : k \notin 1..Len(<<>>)
    OBVIOUS
  <2> QED
    BY <2>1 DEF At
<1>4. Calls /\ Welcome
  BY <1>3 DEF Calls, Welcome, Cli!CliInit
<1>5. Uploads
  BY <1>0, <1>3, NoneIsNoRequest DEF Uploads, InFlight, Waiting, Later, Given, Starts
<1> QED
  BY <1>1, <1>2, <1>4, <1>5 DEF SocketInv

LEMMA SocketStep ==
  ASSUME SocketInv, [Next]_vars
  PROVE  SocketInv'
BY TypesStep, CallsStep, WelcomeStep, UploadsStep DEF SocketInv

\* The variables keep their types: this.proxy is that of a socket AUTH_OK has come on, and
\* AUTH_OK is written on connections that have been registered.
THEOREM TypeCorrect == Spec => []TypeOK
<1>1. ASSUME SocketInv PROVE TypeOK
  <2>1. Types
    BY <1>1 DEF SocketInv
  <2>2. Cli!TypeOK
    BY <2>1, CliIds DEF Types, CallType, Cli!TypeOK, Partial
  <2>3. authed \subseteq Conns
    BY <2>1, EarlierConn DEF Types, SocketType
  <2>4. pc \in [Requests -> {"idle", "body", "pipe", "done"}]
    <3>1. {"idle"} \cup Live \cup {"done"} = {"idle", "body", "pipe", "done"}
      BY DEF Live
    <3> QED
      BY <2>1, <3>1 DEF Types, RequestType
  <2> QED
    BY <2>1, <2>2, <2>3, <2>4 DEF Types, SocketType, RequestType, TypeOK
<1> QED
  BY <1>1, SocketInit, SocketStep, PTL DEF Spec

\* The body that the local server is given is whole, and nobody else's, on whatever
\* connections requests come and go.
THEOREM WholeBody == Spec => []BodyWhole
<1>1. SocketInv => BodyWhole
  BY DEF SocketInv, Uploads, Given, BodyWhole, Numbered
<1> QED
  BY <1>1, SocketInit, SocketStep, PTL DEF Spec

-----------------------------------------------------------------------------
\* The way back.  Frame f is the k-th of those on their way to the gateway on s, or of
\* those that r has been given.
Going(s, k, f) == k \in 1..Len(toGw[s]) /\ toGw[s][k] = f
Has(r, k, f)   == k \in 1..Len(got[r]) /\ got[r][k] = f

\* How a frame of q can come to r.
Home(r, q) ==
  \/ q = r
  \/ conn[q] = conn[r] /\ sid[q] = sid[r] /\ pc[q] = "done" /\ ~Answered(q)
  \/ via[q] # conn[q] /\ via[q] = conn[r]

NoneGoing(q) == \A s \in Conns, k \in Nat, f \in AnswerFrames : Going(s, k, f) => Owner(f) # q

\* A frame on its way is of a call that answers on this socket, and after the last frame
\* of a call nothing of it comes.
OnItsWay ==
  \A s \in Conns, k \in Nat, f \in AnswerFrames : Going(s, k, f) =>
    /\ via[Owner(f)] = s /\ call[Owner(f)] # "none" /\ f.id = sid[Owner(f)]
    /\ f.type \in Endings =>
         /\ call[Owner(f)] = "over"
         /\ \A l \in Nat, g \in AnswerFrames : k < l /\ Going(s, l, g) => Owner(g) # Owner(f)

Received ==
  \A r \in Requests, k \in Nat, f \in AnswerFrames : Has(r, k, f) =>
    pc[r] # "idle" /\ call[Owner(f)] # "none" /\ Home(r, Owner(f))

AllCame == \A r \in Requests : Answered(r) => call[r] = "over" /\ NoneGoing(r)

Replies == OnItsWay /\ Received /\ AllCame

LEMMA AnswerOwner == \A f \in AnswerFrames : Owner(f) \in Requests /\ Number(f) \in Nat
BY DEF AnswerFrames, Owner, Number

\* Steps that neither answer nor deliver.
Idles ==
  /\ \A s \in Conns, k \in Nat : \A f : Going(s, k, f)' => Going(s, k, f)
  /\ got' = got
  /\ \A q \in Requests : call[q] # "none" =>
       call'[q] # "none" /\ via'[q] = via[q] /\ (call[q] = "over" => call'[q] = "over")
  /\ \A q \in Requests : pc[q] # "idle" =>
       /\ pc'[q] # "idle" /\ conn'[q] = conn[q] /\ sid'[q] = sid[q]
       /\ pc[q] = "done" => pc'[q] = "done"

LEMMA RepliesIdle ==
  ASSUME Types, Calls, Replies, Idles
  PROVE  Replies'
<1>1. /\ \A s \in Conns, k \in Nat : \A f : Going(s, k, f)' => Going(s, k, f)
      /\ got' = got
  BY DEF Idles
<1>2. \A r \in Requests : Answered(r)' <=> Answered(r)
  BY <1>1 DEF Answered
<1>3. \A q \in Requests : call[q] # "none" =>
        /\ call'[q] # "none" /\ via'[q] = via[q] /\ (call[q] = "over" => call'[q] = "over")
        /\ pc[q] # "idle" /\ conn'[q] = conn[q] /\ sid'[q] = sid[q]
        /\ pc[q] = "done" => pc'[q] = "done"
  BY DEF Idles, Calls
<1>4. OnItsWay'
  <2> SUFFICES ASSUME NEW s \in Conns, NEW k \in Nat, NEW f \in AnswerFrames, Going(s, k, f)
               PROVE  /\ via'[Owner(f)] = s /\ call'[Owner(f)] # "none" /\ f.id = sid'[Owner(f)]
                      /\ f.type \in Endings =>
                           /\ call'[Owner(f)] = "over"
                           /\ \A l \in Nat, g \in AnswerFrames :
                                k < l /\ Going(s, l, g)' => Owner(g) # Owner(f)
    BY <1>1 DEF OnItsWay
  <2> QED
    BY <1>1, <1>3, AnswerOwner DEF Replies, OnItsWay
<1>5. Received'
  <2> SUFFICES ASSUME NEW r \in Requests, NEW k \in Nat, NEW f \in AnswerFrames, Has(r, k, f)'
               PROVE  pc'[r] # "idle" /\ call'[Owner(f)] # "none" /\ Home(r, Owner(f))'
    BY DEF Received
  <2>1. Has(r, k, f)
    BY <1>1 DEF Has
  <2>2. pc[r] # "idle" /\ call[Owner(f)] # "none" /\ Home(r, Owner(f)) /\ Owner(f) \in Requests
    BY <2>1, AnswerOwner DEF Replies, Received
  <2>3. pc'[r] # "idle" /\ conn'[r] = conn[r] /\ sid'[r] = sid[r]
    BY <2>2 DEF Idles
  <2>4. Home(r, Owner(f))'
    BY <1>2, <1>3, <2>2, <2>3 DEF Home
  <2> QED
    BY <1>3, <2>2, <2>3, <2>4
<1>6. AllCame'
  <2> SUFFICES ASSUME NEW r \in Requests, Answered(r)' PROVE call'[r] = "over" /\ NoneGoing(r)'
    BY DEF AllCame
  <2>1. call[r] = "over" /\ NoneGoing(r)
    BY <1>2 DEF Replies, AllCame
  <2>2. NoneGoing(r)'
    BY <1>1, <2>1 DEF NoneGoing
  <2> QED
    BY <1>3, <2>1, <2>2
<1> QED
  BY <1>4, <1>5, <1>6 DEF Replies

\* A step of handleStream: its frame is put behind the others on the call's socket.
LEMMA RepliesAnswer ==
  ASSUME Types, Served, Calls, Replies, NEW r \in Requests, NEW t \in Cli!AnswerTypes, Answers(r, t)
  PROVE  Replies'
<1>1. /\ call[r] \in {"request", "stream"}
      /\ call'[r] = IF t \in Endings THEN "over" ELSE "stream"
      /\ \A q \in Requests \ {r} : call'[q] = call[q]
  BY AnswerCases DEF Answers
<1>2. /\ UNCHANGED <<via, got, pc, conn, sid>>
  BY DEF Answers, gwVars, reqVars
<1>3. via[r] \in Conns /\ callId[r] = sid[r] /\ callId[r] \in Ids
  BY <1>1, EarlierConn DEF Calls, Served, Types, SocketType
<1>4. PICK f \in AnswerFrames : f = Cli!AnswerFrame(r, t) /\ Owner(f) = r /\ f.type = t /\ f.id = sid[r]
  BY <1>3, AnswerCases DEF Answers
<1>5. PICK s \in Conns, l \in Nat :
        /\ s = via[r]
        /\ \A z \in Conns, k \in Nat : \A g : Going(z, k, g)' => Going(z, k, g) \/ (z = s /\ k = l /\ g = f)
        /\ \A k \in Nat : \A g : Going(s, k, g) => k < l
  <2>1. PICK s \in Conns : s = via[r]
    BY <1>3
  <2>2. toGw[s] \in Seq(AnswerFrames)
    BY DEF Types, WireType
  <2>3. PICK l \in Nat : l = Len(toGw[s]) + 1
    BY <2>2, LenProperties
  <2>4. /\ Len(Append(toGw[s], f)) = l
        /\ \A k \in 1..Len(toGw[s]) : Append(toGw[s], f)[k] = toGw[s][k]
        /\ Append(toGw[s], f)[l] = f
    BY <2>2, <2>3, AppendProperties
  <2>5. toGw'[s] \in {toGw[s], Append(toGw[s], f)} /\ \A z \in Conns \ {s} : toGw'[z] = toGw[z]
    BY <1>4, <2>1 DEF Answers, Types, WireType
  <2>6. \A k \in Nat : k \in 1..l => k \in 1..Len(toGw[s]) \/ k = l
    BY <2>2, <2>3, LenProperties
  <2>7. \A k \in Nat : \A g : Going(s, k, g)' => Going(s, k, g) \/ (k = l /\ g = f)
    BY <2>4, <2>5, <2>6 DEF Going
  <2>8. \A z \in Conns \ {s}, k \in Nat : \A g : Going(z, k, g)' => Going(z, k, g)
    BY <2>5 DEF Going
  <2>9. \A k \in Nat : \A g : Going(s, k, g) => k < l
    BY <2>2, <2>3, LenProperties DEF Going
  <2> QED
    BY <2>1, <2>7, <2>8, <2>9
<1>6. \A q \in Requests : Answered(q)' <=> Answered(q)
  BY <1>2 DEF Answered
<1>7. ~Answered(r) /\ \A z \in Conns, k \in Nat, g \in AnswerFrames :
        Going(z, k, g) /\ Owner(g) = r => g.type \notin Endings
  BY <1>1 DEF Replies, AllCame, OnItsWay
<1>8. OnItsWay'
  <2> SUFFICES ASSUME NEW z \in Conns, NEW k \in Nat, NEW g \in AnswerFrames, Going(z, k, g)'
               PROVE  /\ via[Owner(g)] = z /\ call'[Owner(g)] # "none" /\ g.id = sid[Owner(g)]
                      /\ g.type \in Endings =>
                           /\ call'[Owner(g)] = "over"
                           /\ \A m \in Nat, h \in AnswerFrames :
                                k < m /\ Going(z, m, h)' => Owner(h) # Owner(g)
    BY <1>2 DEF OnItsWay
  <2>1. CASE Going(z, k, g)
    <3>1. /\ via[Owner(g)] = z /\ call[Owner(g)] # "none" /\ g.id = sid[Owner(g)]
          /\ g.type \in Endings =>
               /\ call[Owner(g)] = "over"
               /\ \A m \in Nat, h \in AnswerFrames : k < m /\ Going(z, m, h) => Owner(h) # Owner(g)
      BY <2>1 DEF Replies, OnItsWay
    <3>2. call'[Owner(g)] # "none" /\ (call[Owner(g)] = "over" => call'[Owner(g)] = "over")
      BY <1>1, <3>1, AnswerOwner
    <3>3. g.type \in Endings => Owner(g) # r
      BY <1>7, <2>1
    <3> QED
      BY <1>4, <1>5, <3>1, <3>2, <3>3
  <2>2. CASE z = s /\ k = l /\ g = f
    <3>1. \A m \in Nat : \A h : ~(k < m /\ Going(z, m, h)')
      BY <1>5, <2>2
    <3> QED
      BY <1>1, <1>4, <1>5, <2>2, <3>1
  <2> QED
    BY <1>5, <2>1, <2>2
<1>9. Received'
  <2> SUFFICES ASSUME NEW q \in Requests, NEW k \in Nat, NEW g \in AnswerFrames, Has(q, k, g)'
               PROVE  pc[q] # "idle" /\ call'[Owner(g)] # "none" /\ Home(q, Owner(g))'
    BY <1>2 DEF Received
  <2>1. Has(q, k, g)
    BY <1>2 DEF Has
  <2>2. pc[q] # "idle" /\ call[Owner(g)] # "none" /\ Home(q, Owner(g)) /\ Owner(g) \in Requests
    BY <2>1, AnswerOwner DEF Replies, Received
  <2>3. Home(q, Owner(g))'
    BY <1>2, <1>6, <2>2 DEF Home
  <2> QED
    BY <1>1, <2>2, <2>3
<1>10. AllCame'
  <2> SUFFICES ASSUME NEW q \in Requests, Answered(q) PROVE call'[q] = "over" /\ NoneGoing(q)'
    BY <1>6 DEF AllCame
  <2>1. call[q] = "over" /\ NoneGoing(q) /\ q # r
    BY <1>7 DEF Replies, AllCame
  <2>2. NoneGoing(q)'
    BY <1>4, <1>5, <2>1 DEF NoneGoing
  <2> QED
    BY <1>1, <2>1, <2>2
<1> QED
  BY <1>8, <1>9, <1>10 DEF Replies

\* The reader of s takes the first frame: the others come one place nearer, and the
\* request that the frame's identifier stands for is given it.
LEMMA Dispatched ==
  ASSUME Types, NEW s \in Conns, Dispatch(s)
  PROVE  \E h \in AnswerFrames :
           /\ Going(s, 1, h) /\ streams[s][h.id] \in Requests \cup {None}
           /\ \A k \in Nat : \A g : Going(s, k, g)' => k >= 1 /\ Going(s, k + 1, g)
           /\ \A k \in Nat : \A g : k >= 1 /\ Going(s, k + 1, g) => Going(s, k, g)'
           /\ \A z \in Conns \ {s}, k \in Nat : \A g : Going(z, k, g)' <=> Going(z, k, g)
           /\ \A r \in Requests : r # streams[s][h.id] => got'[r] = got[r]
           /\ \A r \in Requests : r = streams[s][h.id] => got'[r] = Append(got[r], h)
<1> DEFINE n == Len(toGw[s])
<1>1. toGw[s] \in Seq(AnswerFrames) /\ toGw[s] # <<>>
  BY DEF Dispatch, Types, WireType
<1>2. PICK h \in AnswerFrames : h = Head(toGw[s])
  BY <1>1, HeadTailProperties
<1>3. n \in Nat /\ n >= 1
  BY <1>1, LenProperties, EmptySeq
<1>4. /\ h = toGw[s][1] /\ Len(Tail(toGw[s])) = n - 1
      /\ \A k \in 1..(n - 1) : Tail(toGw[s])[k] = toGw[s][k + 1]
  BY <1>1, <1>2, HeadTailProperties
<1>5. toGw'[s] = Tail(toGw[s]) /\ \A z \in Conns \ {s} : toGw'[z] = toGw[z]
  BY <1>1 DEF Dispatch, Types, WireType
<1>6. h.id \in Ids /\ streams[s][h.id] \in Requests \cup {None}
  BY DEF AnswerFrames, Types, RequestType
<1>7. got' = IF streams[s][h.id] = None THEN got
             ELSE [got EXCEPT ![streams[s][h.id]] = Append(@, h)]
  BY <1>2 DEF Dispatch
<1> HIDE DEF n
<1>8. \A k \in Nat : /\ k \in 1..(n - 1) => k >= 1 /\ k + 1 \in 1..n
                     /\ k >= 1 /\ k + 1 \in 1..n => k \in 1..(n - 1)
  BY <1>3
<1>9. \A k \in Nat : \A g : Going(s, k, g)' <=> k \in 1..(n - 1) /\ toGw[s][k + 1] = g
  BY <1>4, <1>5 DEF Going
<1>10. \A k \in Nat : \A g : Going(s, k, g) <=> k \in 1..n /\ toGw[s][k] = g
  BY DEF Going, n
<1>11. \A k \in Nat : k + 1 \in Nat
  OBVIOUS
<1>12. /\ \A k \in Nat : \A g : Going(s, k, g)' => k >= 1 /\ Going(s, k + 1, g)
       /\ \A k \in Nat : \A g : k >= 1 /\ Going(s, k + 1, g) => Going(s, k, g)'
  BY <1>8, <1>9, <1>10, <1>11
<1>13. Going(s, 1, h)
  BY <1>3, <1>4 DEF Going, n
<1>14. \A z \in Conns \ {s}, k \in Nat : \A g : Going(z, k, g)' <=> Going(z, k, g)
  BY <1>5 DEF Going
<1>15. /\ \A r \in Requests : r # streams[s][h.id] => got'[r] = got[r]
       /\ \A r \in Requests : r = streams[s][h.id] => got'[r] = Append(got[r], h)
  BY <1>6, <1>7, NoneIsNoRequest DEF Types, WireType
<1> QED
  BY <1>6, <1>12, <1>13, <1>14, <1>15

\* What a request has been given one frame more of.
LEMMA OneMore ==
  ASSUME Types, NEW r \in Requests, NEW h \in AnswerFrames, got'[r] = Append(got[r], h)
  PROVE  /\ \A k \in Nat : \A g : Has(r, k, g)' => Has(r, k, g) \/ g = h
         /\ Answered(r)' => Answered(r) \/ (Owner(h) = r /\ h.type \in Endings)
<1>1. got[r] \in Seq(AnswerFrames)
  BY DEF Types, WireType
<1>2. PICK l \in Nat : l = Len(got[r])
  BY <1>1, LenProperties
<1>3. /\ Len(Append(got[r], h)) = l + 1
      /\ \A k \in 1..l : Append(got[r], h)[k] = got[r][k]
      /\ Append(got[r], h)[l + 1] = h
  BY <1>1, <1>2, AppendProperties
<1>4. \A k \in 1..(l + 1) : k \in 1..l \/ k = l + 1
  BY <1>2
<1>5. \A k \in Nat : \A g : Has(r, k, g)' => Has(r, k, g) \/ g = h
  BY <1>2, <1>3, <1>4 DEF Has
<1>6. \A k \in 1..(l + 1) : Append(got[r], h)[k] = h \/ (k \in 1..l /\ Append(got[r], h)[k] = got[r][k])
  BY <1>3, <1>4
<1>7. Answered(r)' => Answered(r) \/ (Owner(h) = r /\ h.type \in Endings)
  BY <1>2, <1>3, <1>6 DEF Answered, Owner, Endings
<1> QED
  BY <1>5, <1>7

LEMMA RepliesDispatch ==
  ASSUME Types, Served, Calls, Replies, NEW s \in Conns, Dispatch(s)
  PROVE  Replies'
<1>0. PICK h \in AnswerFrames :
        /\ Going(s, 1, h) /\ streams[s][h.id] \in Requests \cup {None}
        /\ \A k \in Nat : \A g : Going(s, k, g)' => k >= 1 /\ Going(s, k + 1, g)
        /\ \A k \in Nat : \A g : k >= 1 /\ Going(s, k + 1, g) => Going(s, k, g)'
        /\ \A z \in Conns \ {s}, k \in Nat : \A g : Going(z, k, g)' <=> Going(z, k, g)
        /\ \A r \in Requests : r # streams[s][h.id] => got'[r] = got[r]
        /\ \A r \in Requests : r = streams[s][h.id] => got'[r] = Append(got[r], h)
  BY Dispatched
<1>1. UNCHANGED <<via, call, conn, sid, pc>>
  BY DEF Dispatch, cliVars
<1>2. PICK q \in Requests : q = Owner(h)
  BY AnswerOwner
<1>3. /\ via[q] = s /\ call[q] # "none" /\ h.id = sid[q] /\ pc[q] # "idle"
      /\ h.type \in Endings =>
           /\ call[q] = "over"
           /\ \A l \in Nat, g \in AnswerFrames : 1 < l /\ Going(s, l, g) => Owner(g) # q
  <2>1. 1 \in Nat /\ Going(s, 1, h)
    BY <1>0
  <2>2. /\ via[q] = s /\ call[q] # "none" /\ h.id = sid[q]
        /\ h.type \in Endings =>
             /\ call[q] = "over"
             /\ \A l \in Nat, g \in AnswerFrames : 1 < l /\ Going(s, l, g) => Owner(g) # q
    BY <1>2, <2>1 DEF Replies, OnItsWay
  <2>3. pc[q] # "idle"
    BY <2>2 DEF Calls
  <2> QED
    BY <2>2, <2>3
<1>4. ~Answered(q)
  BY <1>0, <1>2 DEF Replies, AllCame, NoneGoing
<1>5. \A z \in Conns, k \in Nat : \A g : Going(z, k, g)' =>
        \E j \in Nat : k <= j /\ Going(z, j, g) /\ (z = s => 1 < j /\ j = k + 1)
  <2> SUFFICES ASSUME NEW z \in Conns, NEW k \in Nat, NEW g, Going(z, k, g)'
               PROVE  \E j \in Nat : k <= j /\ Going(z, j, g) /\ (z = s => 1 < j /\ j = k + 1)
    OBVIOUS
  <2>1. CASE z = s
    <3>1. Going(s, k, g)'
      BY <2>1 DEF Going
    <3>2. k + 1 \in Nat /\ k <= k + 1 /\ 1 < k + 1 /\ Going(s, k + 1, g)
      BY <1>0, <3>1
    <3> QED
      BY <2>1, <3>2
  <2>2. CASE z # s
    BY <1>0, <2>2
  <2> QED
    BY <2>1, <2>2
<1>6. OnItsWay'
  <2> SUFFICES ASSUME NEW z \in Conns, NEW k \in Nat, NEW f \in AnswerFrames, Going(z, k, f)'
               PROVE  /\ via[Owner(f)] = z /\ call[Owner(f)] # "none" /\ f.id = sid[Owner(f)]
                      /\ f.type \in Endings =>
                           /\ call[Owner(f)] = "over"
                           /\ \A l \in Nat, g \in AnswerFrames :
                                k < l /\ Going(z, l, g)' => Owner(g) # Owner(f)
    BY <1>1 DEF OnItsWay
  <2>1. PICK j \in Nat : k <= j /\ Going(z, j, f) /\ (z = s => j = k + 1)
    BY <1>5
  <2>2. /\ via[Owner(f)] = z /\ call[Owner(f)] # "none" /\ f.id = sid[Owner(f)]
        /\ f.type \in Endings =>
             /\ call[Owner(f)] = "over"
             /\ \A l \in Nat, g \in AnswerFrames : j < l /\ Going(z, l, g) => Owner(g) # Owner(f)
    BY <2>1 DEF Replies, OnItsWay
  <2>3. ASSUME f.type \in Endings, NEW l \in Nat, NEW g \in AnswerFrames, k < l, Going(z, l, g)'
        PROVE  Owner(g) # Owner(f)
    <3>1. CASE z = s
      <4>1. PICK m \in Nat : Going(z, m, g) /\ m = l + 1
        BY <1>5, <2>3, <3>1
      <4>2. j < m
        BY <2>1, <2>3, <3>1, <4>1
      <4> QED
        BY <2>2, <2>3, <4>1, <4>2
    <3>2. CASE z # s
      <4>1. Going(z, l, g) /\ Going(z, k, f)
        BY <1>0, <2>3, <3>2
      <4> QED
        BY <2>3, <4>1 DEF Replies, OnItsWay
    <3> QED
      BY <3>1, <3>2
  <2> QED
    BY <2>2, <2>3
<1>7. ASSUME NEW r \in Requests, r = streams[s][h.id]
      PROVE  pc[r] # "idle" /\ Home(r, q)
  <2>1. h.id \in Ids
    BY DEF AnswerFrames
  <2>2. conn[r] = s /\ sid[r] = h.id /\ pc[r] \in Live
    BY <1>7, <2>1 DEF Served
  <2>3. CASE q = r
    BY <2>2, <2>3 DEF Home, Live
  <2>4. CASE q # r /\ via[q] = conn[q]
    <3>1. pc[q] \notin Live
      BY <1>3, <1>7, <2>4 DEF Served
    <3>2. pc[q] = "done"
      BY <1>3, <3>1 DEF Types, RequestType
    <3> QED
      BY <1>3, <1>4, <2>2, <2>4, <3>2 DEF Home, Live
  <2>5. CASE via[q] # conn[q]
    BY <1>3, <2>2, <2>5 DEF Home, Live
  <2> QED
    BY <2>3, <2>4, <2>5
<1>8. \A r \in Requests : pc[r] = "done" => got'[r] = got[r]
  <2> SUFFICES ASSUME NEW r \in Requests, r = streams[s][h.id] PROVE pc[r] # "done"
    BY <1>0
  <2>1. h.id \in Ids
    BY DEF AnswerFrames
  <2> QED
    BY <2>1 DEF Served, Live
<1>9. ASSUME NEW r \in Requests, NEW p \in Requests, Home(r, p)
      PROVE  Home(r, p)'
  <2>1. pc[p] = "done" => (Answered(p)' <=> Answered(p))
    BY <1>8 DEF Answered
  <2> QED
    BY <1>1, <1>9, <2>1 DEF Home
<1>10. Received'
  <2> SUFFICES ASSUME NEW r \in Requests, NEW k \in Nat, NEW f \in AnswerFrames, Has(r, k, f)'
               PROVE  pc[r] # "idle" /\ call[Owner(f)] # "none" /\ Home(r, Owner(f))'
    BY <1>1 DEF Received
  <2>1. CASE Has(r, k, f)
    <3>1. pc[r] # "idle" /\ call[Owner(f)] # "none" /\ Home(r, Owner(f)) /\ Owner(f) \in Requests
      BY <2>1, AnswerOwner DEF Replies, Received
    <3> QED
      BY <1>9, <3>1
  <2>2. CASE r = streams[s][h.id] /\ f = h
    <3>1. pc[r] # "idle" /\ Home(r, q)
      BY <1>7, <2>2
    <3>2. Home(r, Owner(f)) /\ Owner(f) \in Requests
      BY <1>2, <2>2, <3>1
    <3>3. Home(r, Owner(f))'
      BY <1>9, <3>2
    <3> QED
      BY <1>2, <1>3, <2>2, <3>1, <3>3
  <2>3. Has(r, k, f) \/ (r = streams[s][h.id] /\ f = h)
    <3>1. CASE r = streams[s][h.id]
      BY <1>0, <3>1, OneMore
    <3>2. CASE r # streams[s][h.id]
      BY <1>0, <3>2 DEF Has
    <3> QED
      BY <3>1, <3>2
  <2> QED
    BY <2>1, <2>2, <2>3
<1>11. AllCame'
  <2> SUFFICES ASSUME NEW r \in Requests, Answered(r)' PROVE call[r] = "over" /\ NoneGoing(r)'
    BY <1>1 DEF AllCame
  <2>1. Answered(r) \/ (q = r /\ h.type \in Endings)
    <3>1. CASE r = streams[s][h.id]
      BY <1>0, <1>2, <3>1, OneMore
    <3>2. CASE r # streams[s][h.id]
      BY <1>0, <3>2 DEF Answered
    <3> QED
      BY <3>1, <3>2
  <2>2. CASE Answered(r)
    <3>1. call[r] = "over" /\ NoneGoing(r)
      BY <2>2 DEF Replies, AllCame
    <3> QED
      BY <1>5, <3>1 DEF NoneGoing
  <2>3. CASE q = r /\ h.type \in Endings
    <3> SUFFICES ASSUME NEW z \in Conns, NEW k \in Nat, NEW f \in AnswerFrames, Going(z, k, f)'
                 PROVE  Owner(f) # r
      BY <1>3, <2>3 DEF NoneGoing
    <3>1. PICK j \in Nat : Going(z, j, f) /\ (z = s => 1 < j)
      BY <1>5
    <3>2. via[Owner(f)] = z
      BY <3>1 DEF Replies, OnItsWay
    <3> QED
      BY <1>3, <2>3, <3>1, <3>2
  <2> QED
    BY <2>1, <2>2, <2>3
<1> QED
  BY <1>6, <1>10, <1>11 DEF Replies

\* The rest of the steps.
LEMMA IdlesStep ==
  ASSUME Types, Served, Calls, Uploads,
         \/ UNCHANGED vars
         \/ \E r \in Requests : Release(r)
         \/ \E r \in Requests, t \in {"open", "data", "end", "rst"}, n \in Nat, s \in Conns, i \in Ids :
              Writes(r, t, n, s, i)
         \/ \E s \in Conns : \/ Register(s) \/ WriteAuthOK(s) \/ Loss(s)
                             \/ Takes(s, Head(toCli[s])) \/ Drops(s, Head(toCli[s]))
         \/ \E z \in {0} \cup Conns : Clears(z)
  PROVE  Idles
<1>1. ASSUME UNCHANGED <<toGw, got, via, conn, sid>>,
             \A q \in Requests : call[q] # "none" => call'[q] = call[q],
             \A q \in Requests : pc'[q] = pc[q] \/ (pc[q] # "idle" /\ pc'[q] = "done")
      PROVE  Idles
  BY <1>1 DEF Idles, Going
<1>2. CASE UNCHANGED vars
  BY <1>1, <1>2 DEF vars, cliVars, gwVars, reqVars
<1>3. ASSUME NEW r \in Requests, Release(r) PROVE Idles
  <2>1. \A q \in Requests : pc'[q] = pc[q] \/ (pc[q] # "idle" /\ pc'[q] = "done")
    BY <1>3 DEF Release, Types, RequestType
  <2> QED
    BY <1>1, <1>3, <2>1 DEF Release, cliVars
<1>4. ASSUME NEW r \in Requests, NEW t \in {"open", "data", "end", "rst"}, NEW n \in Nat,
             NEW s \in Conns, NEW i \in Ids, Writes(r, t, n, s, i)
      PROVE  Idles
  <2>1. UNCHANGED <<toGw, got, via, call>>
    BY <1>4 DEF Writes, cliVars
  <2>2. \A q \in Requests : pc[q] # "idle" =>
          /\ pc'[q] # "idle" /\ conn'[q] = conn[q] /\ sid'[q] = sid[q]
          /\ pc[q] = "done" => pc'[q] = "done"
    BY <1>4 DEF Writes
  <2> QED
    BY <2>1, <2>2 DEF Idles, Going
<1>5. ASSUME NEW s \in Conns, Register(s) \/ WriteAuthOK(s) PROVE Idles
  BY <1>1, <1>5 DEF Register, WriteAuthOK, cliVars, gwVars, reqVars
<1>6. ASSUME NEW s \in Conns, Loss(s) PROVE Idles
  <2>1. UNCHANGED <<got, via, call, pc, conn, sid>>
    BY <1>6 DEF Loss, cliVars, gwVars, reqVars
  <2>2. toGw'[s] = <<>> /\ \A z \in Conns \ {s} : toGw'[z] = toGw[z]
    BY <1>6 DEF Loss, Types, WireType
  <2>3. \A k \in Nat : k \notin 1..Len(<<>>)
    OBVIOUS
  <2>4. \A z \in Conns, k \in Nat : \A f : Going(z, k, f)' => Going(z, k, f)
    BY <2>2, <2>3 DEF Going
  <2> QED
    BY <2>1, <2>4 DEF Idles
<1>7. ASSUME NEW s \in Conns, Takes(s, Head(toCli[s])) PROVE Idles
  <2>0. PICK h \in StreamFrames : h = Head(toCli[s])
    BY <1>7, TakenType
  <2>1. Cli!OnStreamFrame(h) /\ h.id \in Ids
    BY <1>7, <2>0 DEF Takes, StreamFrames
  <2>2. UNCHANGED call \/ (pending[h.id] # None /\ call' = [call EXCEPT ![pending[h.id].meta] = "request"])
    BY <2>1, HandledCases
  <2>3. pending[h.id] # None => call[pending[h.id].meta] = "none" /\ pending[h.id].meta \in Requests
    BY <2>1, MetaType DEF Uploads, Waiting, Begun, Types, CallType
  <2>4. \A q \in Requests : call[q] # "none" => call'[q] = call[q]
    BY <2>2, <2>3 DEF Types, CallType
  <2>5. UNCHANGED <<toGw, got, pc, conn, sid>>
    BY <1>7 DEF Takes, gwVars, reqVars
  <2>6. \A q \in Requests : call[q] # "none" => via'[q] = via[q]
    BY <1>7, <2>4 DEF Takes
  <2> QED
    BY <2>4, <2>5, <2>6 DEF Idles, Going
<1>8. ASSUME NEW s \in Conns, Drops(s, Head(toCli[s])) PROVE Idles
  BY <1>1, <1>8 DEF Drops, gwVars, reqVars
<1>9. ASSUME NEW z \in {0} \cup Conns, Clears(z) PROVE Idles
  BY <1>1, <1>9 DEF Clears, ClearPending, gwVars, reqVars
<1> QED
  BY <1>2, <1>3, <1>4, <1>5, <1>6, <1>7, <1>8, <1>9

LEMMA RepliesStep ==
  ASSUME SocketInv, Replies, [Next]_vars
  PROVE  Replies'
<1>1. Types /\ Served /\ Calls /\ Uploads
  BY DEF SocketInv
<1>2. ASSUME NEW r \in Requests, NEW t \in Cli!AnswerTypes, Answers(r, t) PROVE Replies'
  BY <1>1, <1>2, RepliesAnswer
<1>3. ASSUME NEW s \in Conns, Dispatch(s) PROVE Replies'
  BY <1>1, <1>3, RepliesDispatch
<1>4. CASE Idles
  BY <1>1, <1>4, RepliesIdle
<1> QED
  BY <1>1, <1>2, <1>3, <1>4, Cases, IdlesStep

LEMMA RepliesInit ==
  ASSUME Init
  PROVE  Replies
<1>1. \A k \in Nat : k \notin 1..Len(<<>>)
  OBVIOUS
<1>2. \A s \in Conns, k \in Nat : \A f : ~Going(s, k, f)
  BY <1>1 DEF Init, Going
<1>3. \A r \in Requests, k \in Nat : \A f : ~Has(r, k, f)
  BY <1>1 DEF Init, Has
<1>4. \A r \in Requests : ~Answered(r)
  BY DEF Init, Answered
<1> QED
  BY <1>2, <1>3, <1>4 DEF Replies, OnItsWay, Received, AllCame

\* A visitor is given an answer that is not his own only where identifiers are used again
\* or the other's call began on another socket, whatever is lost, parted or renewed.
THEOREM AnswersGoHome == Spec => []AnswerGoesHome
<1>1. ASSUME SocketInv, Replies PROVE AnswerGoesHome
  <2> SUFFICES ASSUME NEW r \in Requests, NEW k \in 1..Len(got[r])
               PROVE  Home(r, got[r][k].body[1])
    BY DEF AnswerGoesHome, Home
  <2>1. got[r] \in Seq(AnswerFrames)
    BY <1>1 DEF SocketInv, Types, WireType
  <2>2. got[r][k] \in AnswerFrames /\ k \in Nat
    BY <2>1, ElementOfSeq, LenProperties
  <2>3. PICK f \in AnswerFrames : f = got[r][k]
    BY <2>2
  <2>4. Has(r, k, f)
    BY <2>3 DEF Has
  <2>5. Home(r, Owner(f))
    BY <1>1, <2>2, <2>4 DEF Replies, Received
  <2> QED
    BY <2>3, <2>5 DEF Owner
<1> QED
  BY <1>1, SocketInit, SocketStep, RepliesInit, RepliesStep, PTL DEF Spec

-----------------------------------------------------------------------------
\* The first connection as long as it is up and the only one.
Sole == newest <= 1 /\ link[1] = "up"

\* A frame of r is on its way to the CLI, r is in pendingStreams, or the last frame of its
\* answer is on its way or has come.
Put(r, t) == \E k \in Nat, f \in StreamFrames : At(1, k, f) /\ f.type = t /\ Owner(f) = r
Holds(r)  == \E i \in Ids, p \in Partial : pending[i] = p /\ p.meta = r
Ended(r) ==
  \/ Answered(r)
  \/ \E k \in Nat, f \in AnswerFrames : Going(1, k, f) /\ Owner(f) = r /\ f.type \in Endings

\* AUTH_OK has come, or is on its way ahead of the frames of the requests after it.
Greeted == 1 \in welcomed => 1 \in authed \/ \E k \in Nat : At(1, k, AuthFrame)

GreetedFirst ==
  \A k \in Nat, f \in StreamFrames :
    At(1, k, f) /\ f.type = "open" /\ Owner(f) \notin early =>
      1 \in authed \/ \E j \in Nat : j < k /\ At(1, j, AuthFrame)

\* What there must be of a request for its answer to come.
InHand(r) ==
  /\ call[r] = "none" => Holds(r) \/ Put(r, "open")
  /\ call[r] = "none" /\ pc[r] = "pipe" => Put(r, "end")
  /\ call[r] = "over" => Ended(r)

\* The requests that AnswerComes says nothing of.
Excepted == early \cup crossed

Coming ==
  Sole => /\ Greeted /\ GreetedFirst
          /\ \A r \in Requests \ Excepted : pc[r] \in Live => InHand(r)

LEMMA OneIsConn == 1 \in Conns /\ 1 \in Nat
BY TunnelSocketsAssumption DEF Conns

LEMMA SoleFacts ==
  ASSUME Types, Served, Calls, Sole
  PROVE  /\ \A s \in Conns : s \in 1..newest => s = 1
         /\ authed \subseteq {1} /\ welcomed \subseteq {1}
         /\ \A r \in Requests : pc[r] # "idle" => conn[r] = 1
         /\ \A r \in Requests : call[r] # "none" => via[r] = 1
         /\ newest # 0 => newest = 1
<1>1. newest \in Nat /\ 1..newest \subseteq Conns
  BY EarlierConn
<1>2. \A n \in Nat : n <= 1 => 1..n \subseteq {1} /\ (n # 0 => n = 1)
  OBVIOUS
<1>3. 1..newest \subseteq {1} /\ (newest # 0 => newest = 1)
  BY <1>1, <1>2 DEF Sole
<1> QED
  BY <1>3 DEF Types, SocketType, Served, Calls

\* Steps that leave the requests in hand as they are, those that end a call included.
Quiet ==
  /\ \A k \in Nat : \A f : At(1, k, f)' <=> At(1, k, f)
  /\ UNCHANGED <<pending, early, welcomed>> /\ crossed \subseteq crossed'
  /\ authed \subseteq authed'
  /\ \A r \in Requests : pc'[r] = pc[r] \/ pc'[r] = "done"
  /\ \A r \in Requests : call'[r] = "none" <=> call[r] = "none"
  /\ \A r \in Requests : pc[r] \in Live /\ call'[r] = "over" =>
       Ended(r)' \/ (call[r] = "over" /\ ~Ended(r))

LEMMA ComingQuiet ==
  ASSUME Types, Coming, Sole, Quiet
  PROVE  Coming'
<1>1. \A k \in Nat : \A f : At(1, k, f)' <=> At(1, k, f)
  BY DEF Quiet
<1>2. \A r \in Requests : \A t : Put(r, t)' <=> Put(r, t)
  BY <1>1 DEF Put
<1>3. \A r \in Requests : Holds(r)' <=> Holds(r)
  BY DEF Quiet, Holds
<1>4. Greeted' /\ GreetedFirst'
  <2>1. Greeted /\ GreetedFirst
    BY DEF Coming
  <2>2. early' = early /\ welcomed' = welcomed /\ authed \subseteq authed'
    BY DEF Quiet
  <2>3. Greeted'
    BY <1>1, <2>1, <2>2 DEF Greeted
  <2>4. GreetedFirst'
    BY <1>1, <2>1, <2>2 DEF GreetedFirst
  <2> QED
    BY <2>3, <2>4
<1>5. \A r \in Requests \ Excepted' : pc'[r] \in Live => InHand(r)'
  <2> SUFFICES ASSUME NEW r \in Requests, r \notin Excepted', pc'[r] \in Live PROVE InHand(r)'
    OBVIOUS
  <2>1. r \notin Excepted /\ pc'[r] = pc[r] /\ pc[r] \in Live
    BY DEF Quiet, Live, Excepted
  <2>2. InHand(r)
    BY <2>1 DEF Coming
  <2>3. (call'[r] = "none" <=> call[r] = "none") /\ (call'[r] = "over" => Ended(r)')
    BY <2>1, <2>2 DEF Quiet, InHand
  <2> QED
    BY <1>2, <1>3, <2>1, <2>2, <2>3 DEF InHand
<1> QED
  BY <1>4, <1>5 DEF Coming

\* What has come of an answer stays.
LEMMA EndedStays ==
  ASSUME NEW r \in Requests, Ended(r), UNCHANGED <<got, toGw>>
  PROVE  Ended(r)'
BY DEF Ended, Answered, Going

LEMMA QuietSteps ==
  ASSUME Types, Served, Calls, Sole, Sole',
         \/ UNCHANGED vars
         \/ \E r \in Requests : Release(r)
         \/ \E s \in Conns : Register(s) \/ Loss(s)
         \/ \E s \in Conns \ {1} : Takes(s, Head(toCli[s])) \/ Drops(s, Head(toCli[s])) \/ WriteAuthOK(s)
  PROVE  Quiet
<1>0. ASSUME UNCHANGED <<toCli, pending, early, crossed, welcomed, authed, call, got, toGw>>,
             \A r \in Requests : pc'[r] = pc[r] \/ pc'[r] = "done"
      PROVE  Quiet
  BY <1>0, EndedStays DEF Quiet, At
<1>1. CASE UNCHANGED vars
  BY <1>0, <1>1 DEF vars, cliVars, gwVars, reqVars
<1>2. ASSUME NEW r \in Requests, Release(r) PROVE Quiet
  <2>1. \A q \in Requests : pc'[q] = pc[q] \/ pc'[q] = "done"
    BY <1>2 DEF Release, Types, RequestType
  <2> QED
    BY <1>0, <1>2, <2>1 DEF Release, cliVars
<1>3. ASSUME NEW s \in Conns, Register(s) PROVE Quiet
  BY <1>0, <1>3 DEF Register, cliVars, reqVars
<1>4. ASSUME NEW s \in Conns, Loss(s) PROVE FALSE
  <2>1. s \in 1..newest
    BY <1>4 DEF Loss
  <2>2. s = 1
    BY <2>1, SoleFacts
  <2>3. link'[s] # "up"
    BY <1>4 DEF Loss, Types, SocketType
  <2> QED
    BY <2>2, <2>3 DEF Sole
<1>5. ASSUME NEW s \in Conns \ {1}, Takes(s, Head(toCli[s])) PROVE FALSE
  BY <1>5, SoleFacts DEF Takes
<1>6. ASSUME NEW s \in Conns \ {1}, WriteAuthOK(s) PROVE FALSE
  BY <1>6, SoleFacts DEF WriteAuthOK
<1>7. ASSUME NEW s \in Conns \ {1}, Drops(s, Head(toCli[s])) PROVE Quiet
  <2>1. toCli'[1] = toCli[1]
    BY <1>7, OneIsConn DEF Drops, Types, WireType
  <2>2. UNCHANGED <<pending, early, crossed, welcomed, call, got, toGw, pc>> /\ authed \subseteq authed'
    BY <1>7 DEF Drops, gwVars, reqVars
  <2> QED
    BY <2>1, <2>2, EndedStays DEF Quiet, At
<1> QED
  BY <1>1, <1>2, <1>3, <1>4, <1>5, <1>6, <1>7

LEMMA QuietAnswer ==
  ASSUME Types, Served, Calls, Sole, NEW r \in Requests, NEW t \in Cli!AnswerTypes, Answers(r, t)
  PROVE  Quiet
<1>1. /\ call[r] \in {"request", "stream"}
      /\ call'[r] = IF t \in Endings THEN "over" ELSE "stream"
      /\ \A q \in Requests \ {r} : call'[q] = call[q]
      /\ pending' = pending
  BY AnswerCases DEF Answers
<1>2. UNCHANGED <<got, pc, toCli, early, crossed, welcomed, authed>>
  BY DEF Answers, gwVars, reqVars
<1>3. via[r] = 1 /\ callId[r] \in Ids
  BY <1>1, SoleFacts DEF Calls, Served
<1>4. PICK f \in AnswerFrames : f = Cli!AnswerFrame(r, t) /\ Owner(f) = r /\ f.type = t
  BY <1>3, AnswerCases DEF Answers
<1>5. toGw[1] \in Seq(AnswerFrames) /\ toGw'[1] = Append(toGw[1], f)
  BY <1>3, <1>4, OneIsConn DEF Answers, Types, WireType, Sole
<1>6. PICK l \in Nat : l = Len(toGw[1])
  BY <1>5, LenProperties
<1>7. /\ Len(toGw'[1]) = l + 1 /\ toGw'[1][l + 1] = f
      /\ \A k \in 1..l : toGw'[1][k] = toGw[1][k]
  BY <1>5, <1>6, AppendProperties
<1>8. l + 1 \in Nat /\ l + 1 \in 1..(l + 1) /\ \A k \in 1..l : k \in 1..(l + 1)
  BY <1>6
<1>9. Going(1, l + 1, f)' /\ \A k \in Nat : \A g : Going(1, k, g) => Going(1, k, g)'
  BY <1>6, <1>7, <1>8 DEF Going
<1>10. t \in Endings => Ended(r)'
  BY <1>4, <1>8, <1>9 DEF Ended
<1>11. \A q \in Requests : Ended(q) => Ended(q)'
  BY <1>2, <1>9 DEF Ended, Answered
<1> QED
  BY <1>1, <1>2, <1>10, <1>11 DEF Quiet, At

\* A request that is given a frame keeps the others, and has its answer with the last.
LEMMA GivenFrame ==
  ASSUME Types, NEW r \in Requests, NEW h \in AnswerFrames, got'[r] = Append(got[r], h)
  PROVE  /\ Answered(r) => Answered(r)'
         /\ Owner(h) = r /\ h.type \in Endings => Answered(r)'
<1>1. got[r] \in Seq(AnswerFrames)
  BY DEF Types, WireType
<1>2. PICK l \in Nat : l = Len(got[r])
  BY <1>1, LenProperties
<1>3. /\ Len(got'[r]) = l + 1 /\ got'[r][l + 1] = h
      /\ \A k \in 1..l : got'[r][k] = got[r][k]
  BY <1>1, <1>2, AppendProperties
<1>4. l + 1 \in 1..(l + 1) /\ \A k \in 1..l : k \in 1..(l + 1)
  BY <1>2
<1>5. Answered(r) => Answered(r)'
  BY <1>2, <1>3, <1>4 DEF Answered
<1>6. Owner(h) = r /\ h.type \in Endings => Answered(r)'
  BY <1>3, <1>4 DEF Answered, Owner, Endings
<1> QED
  BY <1>5, <1>6

LEMMA QuietDispatch ==
  ASSUME Types, Served, Calls, Replies, Sole, NEW s \in Conns, Dispatch(s)
  PROVE  Quiet
<1>1. UNCHANGED <<pending, early, crossed, welcomed, authed, pc, call, toCli>>
  BY DEF Dispatch, cliVars
<1>2. PICK h \in AnswerFrames :
        /\ Going(s, 1, h) /\ streams[s][h.id] \in Requests \cup {None}
        /\ \A k \in Nat : \A g : k >= 1 /\ Going(s, k + 1, g) => Going(s, k, g)'
        /\ \A z \in Conns \ {s}, k \in Nat : \A g : Going(z, k, g)' <=> Going(z, k, g)
        /\ \A r \in Requests : r # streams[s][h.id] => got'[r] = got[r]
        /\ \A r \in Requests : r = streams[s][h.id] => got'[r] = Append(got[r], h)
  BY Dispatched
<1>3. \A r \in Requests : Answered(r) => Answered(r)'
  <2> SUFFICES ASSUME NEW r \in Requests, Answered(r) PROVE Answered(r)'
    OBVIOUS
  <2>1. CASE r = streams[s][h.id]
    BY <1>2, <2>1, GivenFrame
  <2>2. CASE r # streams[s][h.id]
    BY <1>2, <2>2 DEF Answered
  <2> QED
    BY <2>1, <2>2
<1>4. ASSUME NEW r \in Requests, pc[r] \in Live, Ended(r)
      PROVE  Ended(r)'
  <2>1. CASE Answered(r)
    BY <1>3, <2>1 DEF Ended
  <2>2. ASSUME NEW k \in Nat, NEW f \in AnswerFrames, Going(1, k, f), Owner(f) = r, f.type \in Endings
        PROVE  Ended(r)'
    <3>1. CASE s # 1
      <4>1. Going(1, k, f)'
        BY <1>2, <2>2, <3>1, OneIsConn
      <4> QED
        BY <2>2, <4>1 DEF Ended
    <3>2. CASE s = 1 /\ k = 1
      <4>1. f = h
        BY <1>2, <2>2, <3>2 DEF Going
      <4>2. h.id = sid[r] /\ via[r] = s
        BY <1>2, <2>2, <3>2, <4>1 DEF Replies, OnItsWay
      <4>3. conn[r] = s
        BY <1>4, <3>2, SoleFacts DEF Live
      <4>4. r = streams[s][h.id]
        BY <1>4, <4>2, <4>3 DEF Served
      <4>5. Answered(r)'
        BY <1>2, <2>2, <4>1, <4>4, GivenFrame
      <4> QED
        BY <4>5 DEF Ended
    <3>3. CASE s = 1 /\ k # 1
      <4>1. k >= 1
        BY <2>2, LenProperties, OneIsConn DEF Going, Types, WireType
      <4>2. PICK j \in Nat : j >= 1 /\ k = j + 1
        <5>1. k - 1 \in Nat /\ k - 1 >= 1 /\ k = (k - 1) + 1
          BY <3>3, <4>1
        <5> QED
          BY <5>1
      <4>3. Going(1, j, f)'
        BY <1>2, <2>2, <3>3, <4>2
      <4> QED
        BY <2>2, <4>3 DEF Ended
    <3> QED
      BY <3>1, <3>2, <3>3
  <2> QED
    BY <1>4, <2>1, <2>2 DEF Ended
<1> QED
  BY <1>1, <1>4 DEF Quiet, At

\* AUTH_OK is written.
LEMMA ComingWelcome ==
  ASSUME Types, Served, Calls, Coming, Sole, WriteAuthOK(1)
  PROVE  Coming'
<1>1. ToCli(1, AuthFrame) /\ AuthFrame \in CliFrames
  BY DEF WriteAuthOK, AuthFrame, CliFrames
<1>2. UNCHANGED <<pending, authed, call, pc, early, crossed, got, toGw>>
  BY DEF WriteAuthOK, cliVars, reqVars
<1>3. PICK l \in Nat :
        \A k \in Nat : \A g : At(1, k, g)' <=> At(1, k, g) \/ (k = l /\ g = AuthFrame)
  <2>1. link[1] # "down"
    BY DEF Sole
  <2>2. Len(toCli[1]) \in Nat
    BY <1>1, Wrote, OneIsConn
  <2>3. PICK l \in Nat : l = Len(toCli[1]) + 1
    BY <2>2
  <2>4. \A k \in Nat : \A g : At(1, k, g)' <=> At(1, k, g) \/ (k = l /\ g = AuthFrame)
    BY <1>1, <2>1, <2>3, Wrote, OneIsConn
  <2> QED
    BY <2>4
<1>4. Greeted'
  BY <1>3 DEF Greeted
<1>5. GreetedFirst'
  <2>1. GreetedFirst
    BY DEF Coming
  <2> QED
    BY <1>2, <1>3, <2>1, AuthIsNoStream DEF GreetedFirst
<1>6. \A r \in Requests \ Excepted' : pc'[r] \in Live => InHand(r)'
  <2> SUFFICES ASSUME NEW r \in Requests \ Excepted, pc[r] \in Live PROVE InHand(r)'
    BY <1>2 DEF Excepted
  <2>1. InHand(r)
    BY DEF Coming
  <2>2. \A t : Put(r, t) => Put(r, t)'
    BY <1>3 DEF Put
  <2>3. Holds(r) => Holds(r)'
    BY <1>2 DEF Holds
  <2>4. Ended(r) => Ended(r)'
    BY <1>2, EndedStays
  <2> QED
    BY <1>2, <2>1, <2>2, <2>3, <2>4 DEF InHand
<1> QED
  BY <1>4, <1>5, <1>6 DEF Coming

\* A request writes a frame.
LEMMA ComingWrite ==
  ASSUME Types, Served, Calls, Coming, Sole, NEW r \in Requests, Request(r), ~Release(r)
  PROVE  Coming'
<1>1. PICK t \in {"open", "data", "end", "rst"}, n \in Nat, s \in Conns, i \in Ids :
        Writes(r, t, n, s, i)
  BY WriteCases
<1>2. PICK f \in StreamFrames, l \in Nat :
        Owner(f) = r /\ Number(f) = n /\ f.type = t /\ f.id = i /\ l >= 1 /\ Last(s, l, f)
  BY <1>1, WrittenFrames
<1>3. s = 1
  <2>1. pc[r] = "idle" => s = newest /\ newest # 0
    BY <1>1, ConnsAreNumbers DEF Writes
  <2>2. pc[r] # "idle" => conn[r] = s
    BY <1>1 DEF Writes
  <2> QED
    BY <2>1, <2>2, SoleFacts
<1>4. UNCHANGED <<pending, call, authed, crossed, welcomed, got, toGw>>
  BY <1>1 DEF Writes, cliVars
<1>5. /\ early \subseteq early'
      /\ pc[r] = "idle" /\ r \notin early' => 1 \in welcomed
  <2>1. pc[r] = "idle" => Open(r)
    BY DEF Request, SendData, SendEnd, Release, Reset
  <2>2. Open(r) => newest = 1
    BY SoleFacts DEF Open
  <2>3. Open(r) => early \subseteq early' /\ (r \notin early' => newest \in welcomed)
    BY DEF Open
  <2>4. ~Open(r) => early' = early
    BY DEF Request, SendData, SendEnd, Release, Reset
  <2> QED
    BY <2>1, <2>2, <2>3, <2>4
<1>6. /\ At(1, l, f)'
      /\ \A k \in Nat : \A g : At(1, k, g) => At(1, k, g)' /\ k < l
      /\ \A k \in Nat : \A g : At(1, k, g)' => At(1, k, g) \/ (k = l /\ g = f)
  BY <1>2, <1>3, OneIsConn DEF Last, Sole
<1>7. Greeted /\ GreetedFirst /\ \A q \in Requests \ Excepted : pc[q] \in Live => InHand(q)
  BY DEF Coming
<1>8. Greeted'
  BY <1>4, <1>6, <1>7 DEF Greeted
<1>9. GreetedFirst'
  <2> SUFFICES ASSUME NEW k \in Nat, NEW g \in StreamFrames, At(1, k, g)', g.type = "open",
                      Owner(g) \notin early'
               PROVE  1 \in authed \/ \E j \in Nat : j < k /\ At(1, j, AuthFrame)'
    BY <1>4 DEF GreetedFirst
  <2>1. CASE At(1, k, g)
    <3>1. Owner(g) \notin early
      BY <1>5
    <3>2. 1 \in authed \/ \E j \in Nat : j < k /\ At(1, j, AuthFrame)
      BY <1>7, <2>1, <3>1 DEF GreetedFirst
    <3> QED
      BY <1>6, <3>2
  <2>2. CASE k = l /\ g = f
    <3>1. t = "open" /\ pc[r] = "idle" /\ r \notin early'
      BY <1>1, <1>2, <2>2 DEF Writes
    <3>2. 1 \in authed \/ \E j \in Nat : At(1, j, AuthFrame)
      BY <1>5, <1>7, <3>1 DEF Greeted
    <3> QED
      BY <1>6, <2>2, <3>2
  <2> QED
    BY <1>6, <2>1, <2>2
<1>10. \A q \in Requests : \A u : Put(q, u) => Put(q, u)'
  BY <1>6 DEF Put
<1>11. Put(r, t)'
  BY <1>2, <1>6 DEF Put
<1>12. \A q \in Requests : (Holds(q) => Holds(q)') /\ (Ended(q) => Ended(q)')
  BY <1>4, EndedStays DEF Holds
<1>13. ASSUME NEW q \in Requests, q \notin Excepted', pc'[q] \in Live
       PROVE  InHand(q)'
  <2>0. q \notin Excepted
    BY <1>4, <1>5, <1>13 DEF Excepted
  <2>1. CASE q # r
    <3>1. pc'[q] = pc[q]
      BY <1>1, <2>1 DEF Writes
    <3>2. InHand(q)
      BY <1>7, <1>13, <2>0, <3>1
    <3> QED
      BY <1>4, <1>10, <1>12, <3>1, <3>2 DEF InHand
  <2>2. CASE q = r /\ pc[r] = "idle"
    <3>1. call[r] = "none"
      BY <2>2 DEF Served
    <3>2. t = "open" /\ pc'[r] = "body"
      BY <1>1, <2>2 DEF Writes
    <3> QED
      BY <1>4, <1>11, <2>2, <3>1, <3>2 DEF InHand
  <2>3. CASE q = r /\ pc[r] # "idle"
    <3>1. pc[r] = "body" /\ (pc'[r] = "pipe" => t = "end")
      BY <1>1, <2>3 DEF Writes
    <3>2. InHand(r)
      BY <1>7, <2>0, <2>3, <3>1 DEF Live
    <3>3. pc'[r] = "pipe" => Put(r, "end")'
      BY <1>11, <3>1 DEF Put, At
    <3> QED
      BY <1>4, <1>10, <1>12, <2>3, <3>2, <3>3 DEF InHand
  <2> QED
    BY <2>1, <2>2, <2>3
<1> QED
  BY <1>8, <1>9, <1>13 DEF Coming

LEMMA Shifted ==
  ASSUME NEW h, Shifts(1, h)
  PROVE  /\ At(1, 1, h)
         /\ \A k \in Nat : \A g : At(1, k, g)' => k >= 1 /\ k + 1 \in Nat /\ At(1, k + 1, g)
         /\ \A k \in Nat : \A g : At(1, k, g) /\ g # h =>
              k > 1 /\ \E j \in Nat : k = j + 1 /\ At(1, j, g)'
<1>1. \A k \in Nat : \A g : At(1, k, g)' <=> k >= 1 /\ At(1, k + 1, g)
  BY DEF Shifts
<1>2. \A k \in Nat : k + 1 \in Nat
  OBVIOUS
<1>3. ASSUME NEW k \in Nat, NEW g, At(1, k, g), g # h
      PROVE  k > 1 /\ \E j \in Nat : k = j + 1 /\ At(1, j, g)'
  <2>1. k # 1
    BY <1>3 DEF Shifts
  <2>2. k \in 1..Len(toCli[1])
    BY <1>3 DEF At
  <2>3. k >= 1
    BY <2>2
  <2>4. k > 1 /\ k - 1 \in Nat /\ k - 1 >= 1 /\ k = (k - 1) + 1
    BY <2>1, <2>3
  <2>5. PICK j \in Nat : j >= 1 /\ k = j + 1
    BY <2>4
  <2> QED
    BY <1>1, <1>3, <2>4, <2>5
<1> QED
  BY <1>1, <1>2, <1>3 DEF Shifts

\* The OPEN of a request comes before its END.
LEMMA OpenFirst ==
  ASSUME Uploads, NEW h \in StreamFrames, Shifts(1, h), h.type \in Endings
  PROVE  ~Put(Owner(h), "open")
<1> SUFFICES ASSUME NEW k \in Nat, NEW f \in StreamFrames,
                    At(1, k, f), f.type = "open", Owner(f) = Owner(h)
             PROVE  FALSE
  BY DEF Put
<1>1. f # h
  BY DEF Endings
<1>2. 1 < k /\ At(1, 1, h)
  BY <1>1, Shifted
<1>3. InTurn(1, k, f)
  BY OneIsConn DEF Uploads, InFlight
<1> QED
  BY <1>2, <1>3, OneIsConn DEF InTurn

\* The handlers are switched, or a frame that came too early is forgotten.
LEMMA ComingDrop ==
  ASSUME Types, Served, Calls, Uploads, Coming, Sole, Drops(1, Head(toCli[1]))
  PROVE  Coming'
<1>0. PICK h : h = Head(toCli[1])
  OBVIOUS
<1>1. Shifts(1, h)
  BY <1>0, HeadShifts, OneIsConn DEF Drops, gwVars, reqVars
<1>2. /\ UNCHANGED <<pending, call, pc, welcomed, early, crossed, got, toGw>>
      /\ 1 \notin authed /\ authed \subseteq authed'
      /\ h.type = "authok" => 1 \in authed'
  BY <1>0 DEF Drops, gwVars, reqVars
<1>3. Greeted /\ GreetedFirst /\ \A r \in Requests \ Excepted : pc[r] \in Live => InHand(r)
  BY DEF Coming
<1>4. h = AuthFrame => 1 \in authed'
  BY <1>2 DEF AuthFrame, Cli!Frame
<1>5. ASSUME NEW k \in Nat, At(1, k, AuthFrame)
      PROVE  1 \in authed' \/ \E j \in Nat : k = j + 1 /\ At(1, j, AuthFrame)'
  BY <1>1, <1>4, <1>5, Shifted
<1>6. Greeted'
  BY <1>2, <1>3, <1>5 DEF Greeted
<1>7. GreetedFirst'
  <2> SUFFICES ASSUME NEW k \in Nat, NEW f \in StreamFrames, At(1, k, f)', f.type = "open",
                      Owner(f) \notin early, 1 \notin authed'
               PROVE  \E j \in Nat : j < k /\ At(1, j, AuthFrame)'
    BY <1>2 DEF GreetedFirst
  <2>1. k + 1 \in Nat /\ At(1, k + 1, f)
    BY <1>1, Shifted
  <2>2. PICK m \in Nat : m < k + 1 /\ At(1, m, AuthFrame)
    BY <1>2, <1>3, <2>1 DEF GreetedFirst
  <2>3. PICK j \in Nat : m = j + 1 /\ At(1, j, AuthFrame)'
    BY <1>5, <2>2
  <2>4. j < k
    BY <2>2, <2>3
  <2> QED
    BY <2>3, <2>4
\* An OPEN that this request was not early with is not the one that is forgotten.
<1>8. ASSUME NEW r \in Requests \ Excepted, pc[r] \in Live, call[r] = "none"
      PROVE  Put(r, "open")' /\ (pc[r] = "pipe" => Put(r, "end")')
  <2>1. ~Holds(r)
    BY <1>2, <1>8, SoleFacts DEF Holds, Uploads, Waiting, Begun, Live
  <2>2. InHand(r)
    BY <1>3, <1>8
  <2>3. PICK k \in Nat, f \in StreamFrames : At(1, k, f) /\ f.type = "open" /\ Owner(f) = r
    BY <1>8, <2>1, <2>2 DEF InHand, Put
  <2>4. f # h
    <3>1. PICK j \in Nat : j < k /\ At(1, j, AuthFrame)
      BY <1>2, <1>3, <1>8, <2>3 DEF GreetedFirst, Excepted
    <3>2. j >= 1
      <4>1. j \in 1..Len(toCli[1])
        BY <3>1 DEF At
      <4> QED
        BY <4>1
    <3>3. k # 1
      BY <3>1, <3>2
    <3>4. CASE j = 1
      BY <1>1, <3>1, <3>4, AuthIsNoStream DEF Shifts
    <3>5. CASE j # 1
      <4>1. h \notin StreamFrames \/ f # h
        <5> SUFFICES ASSUME f = h, h \in StreamFrames PROVE FALSE
          OBVIOUS
        <5>1. At(1, 1, h) /\ 1 < k
          BY <1>1, <3>1, <3>2 DEF Shifts
        <5>2. InTurn(1, k, f)
          BY <2>3, OneIsConn DEF Uploads, InFlight
        <5>3. Number(h) < Number(f)
          BY <5>1, <5>2, OneIsConn DEF InTurn
        <5> QED
          BY <5>3, OwnerType
      <4> QED
        BY <4>1
    <3> QED
      BY <3>4, <3>5
  <2>5. Put(r, "open")'
    BY <1>1, <2>3, <2>4, Shifted DEF Put
  <2>6. ASSUME pc[r] = "pipe" PROVE Put(r, "end")'
    <3>1. PICK m \in Nat, g \in StreamFrames : At(1, m, g) /\ g.type = "end" /\ Owner(g) = r
      BY <1>8, <2>2, <2>6 DEF InHand, Put
    <3>2. g # h
      BY <1>1, <2>3, <3>1, OpenFirst DEF Endings, Put
    <3> QED
      BY <1>1, <3>1, <3>2, Shifted DEF Put
  <2> QED
    BY <2>5, <2>6
<1>9. ASSUME NEW r \in Requests \ Excepted, pc[r] \in Live PROVE InHand(r)'
  <2>1. Ended(r) => Ended(r)'
    BY <1>2, EndedStays
  <2>2. InHand(r)
    BY <1>3, <1>9
  <2>3. CASE call[r] = "none"
    BY <1>2, <1>8, <1>9, <2>3 DEF InHand
  <2>4. CASE call[r] # "none"
    BY <1>2, <2>1, <2>2, <2>4 DEF InHand
  <2> QED
    BY <2>3, <2>4
<1> QED
  BY <1>2, <1>6, <1>7, <1>9 DEF Coming, Excepted

\* handleFrame: nobody takes the place in pendingStreams of a request that is being served.
LEMMA ComingTake ==
  ASSUME Types, Served, Calls, Uploads, Coming, Sole, Takes(1, Head(toCli[1]))
  PROVE  Coming'
<1>0. PICK h \in StreamFrames : h = Head(toCli[1])
  BY TakenType, OneIsConn
<1>1. Shifts(1, h)
  BY <1>0, HeadShifts, OneIsConn DEF Takes, gwVars, reqVars
<1>2. /\ UNCHANGED <<pc, welcomed, early, authed, got, toGw>> /\ 1 \in authed
      /\ crossed \subseteq crossed'
  BY <1>0 DEF Takes, gwVars, reqVars
<1>3. PICK i \in Ids, o \in Requests : i = h.id /\ o = Owner(h)
  BY OwnerType DEF StreamFrames
<1>4. At(1, 1, h) /\ Sent(1, h) /\ conn[o] = 1 /\ sid[o] = i
  BY <1>1, <1>3, OneIsConn DEF Shifts, Uploads, InFlight, Sent
<1>5. /\ \A j \in Ids \ {i} : pending'[j] = pending[j]
      /\ h.type = "open" => pending'[i] = [meta |-> o, chunks |-> <<>>]
      /\ h.type = "data" /\ pending[i] # None => pending'[i] = Cli!AddChunk(pending[i], h.body)
      /\ h.type \in {"open", "data", "end", "rst"}
      /\ \/ call' = call /\ (pending[i] = None \/ h.type # "end")
         \/ pending[i] # None /\ call' = [call EXCEPT ![pending[i].meta] = "request"]
  BY <1>0, <1>3, HandledCases DEF Takes, StreamFrames
<1>6. ASSUME NEW j \in Ids, NEW p \in Partial, pending[j] = p
      PROVE  Begun(j, p) /\ p.meta \in Requests /\ sid[p.meta] = j /\ call[p.meta] = "none"
  BY <1>6, MetaType DEF Uploads, Waiting, Begun
<1>7. pending[i] # None => pending[i] \in Partial
  BY DEF Types, CallType
<1>8. ASSUME NEW p \in Partial, pending[i] = p, pc[p.meta] \in Live
      PROVE  o = p.meta
  <2>1. PICK r \in Requests : r = p.meta
    BY <1>6, <1>8
  <2>2. sid[r] = i /\ conn[r] = 1
    BY <1>6, <1>8, <2>1, SoleFacts DEF Live
  <2>3. 0 \in Nat /\ Starts(1, 0, r)
    BY <1>8, <2>1, <2>2 DEF Starts
  <2> SUFFICES ASSUME o # r PROVE FALSE
    BY <2>1
  <2>4. After(1, 0, r, o)
    BY <1>4, <2>2, <2>3, OneIsConn DEF Uploads, Later
  <2>5. Opened(1, 0, o, 1)
    BY <1>3, <1>4, <2>4, OneIsConn DEF After
  <2>6. pc[r] = "done"
    BY <2>4, <2>5, OneIsConn DEF After
  <2> QED
    BY <1>8, <2>1, <2>6 DEF Live
<1>9. \A q \in Requests : /\ call'[q] = "none" => call[q] = "none"
                          /\ call'[q] = "over" => call[q] = "over"
                          /\ pending[i] # None /\ h.type = "end" /\ q = pending[i].meta =>
                               call'[q] = "request"
  <2>1. pending[i] # None => pending[i].meta \in Requests
    BY <1>7, MetaType
  <2>2. call \in [Requests -> {"none", "request", "stream", "over"}]
    BY DEF Types, CallType
  <2> QED
    BY <1>5, <2>1, <2>2
<1>10. ASSUME NEW r \in Requests \ Excepted, pc[r] \in Live PROVE InHand(r)'
  <2>1. InHand(r)
    BY <1>10 DEF Coming
  <2>2. Ended(r) => Ended(r)'
    BY <1>2, EndedStays
  <2>3. ASSUME call'[r] = "none" PROVE Holds(r)' \/ Put(r, "open")'
    <3>1. Holds(r) \/ Put(r, "open")
      BY <1>9, <2>1, <2>3 DEF InHand
    <3>2. ASSUME NEW k \in Nat, NEW f \in StreamFrames, At(1, k, f), f.type = "open", Owner(f) = r
          PROVE  Holds(r)' \/ Put(r, "open")'
      <4>1. CASE f = h
        <5>1. pending'[i] = [meta |-> r, chunks |-> <<>>]
          BY <1>3, <1>5, <3>2, <4>1
        <5>2. [meta |-> r, chunks |-> <<>>] \in Partial
          BY DEF Partial
        <5> QED
          BY <5>1, <5>2 DEF Holds
      <4>2. CASE f # h
        BY <1>1, <3>2, <4>2, Shifted DEF Put
      <4> QED
        BY <4>1, <4>2
    <3>3. ASSUME NEW j \in Ids, NEW p \in Partial, pending[j] = p, p.meta = r
          PROVE  Holds(r)'
      <4>1. CASE j # i
        BY <1>5, <3>3, <4>1 DEF Holds
      <4>2. CASE j = i
        <5>1. o = r /\ p # None
          BY <1>8, <1>10, <3>3, <4>2, NoneIsNoRequest
        <5>2. CASE h.type = "open"
          <6>1. [meta |-> r, chunks |-> <<>>] \in Partial
            BY DEF Partial
          <6> QED
            BY <1>5, <5>1, <5>2, <6>1 DEF Holds
        <5>3. CASE h.type = "data"
          <6>1. h.body \in Requests \X Nat
            BY DEF StreamFrames
          <6>2. Append(p.chunks, h.body) \in Seq(Requests \X Nat)
            BY <6>1, AppendProperties DEF Partial
          <6>3. Cli!AddChunk(p, h.body) \in Partial /\ Cli!AddChunk(p, h.body).meta = r
            BY <3>3, <6>2 DEF Cli!AddChunk, Partial
          <6>4. pending'[i] = Cli!AddChunk(p, h.body)
            BY <1>5, <3>3, <4>2, <5>1, <5>3
          <6> QED
            BY <6>3, <6>4 DEF Holds
        <5>4. CASE h.type = "end"
          BY <1>9, <2>3, <3>3, <4>2, <5>1, <5>4
        <5>5. CASE h.type = "rst"
          BY <1>3, <1>4, <1>10, <5>1, <5>5 DEF Sent, Live
        <5> QED
          BY <1>5, <5>2, <5>3, <5>4, <5>5
      <4> QED
        BY <4>1, <4>2
    <3> QED
      BY <3>1, <3>2, <3>3 DEF Holds, Put
  <2>4. ASSUME call'[r] = "none", pc[r] = "pipe" PROVE Put(r, "end")'
    <3>1. (Holds(r) \/ Put(r, "open")) /\ Put(r, "end")
      BY <1>9, <2>1, <2>4 DEF InHand
    <3>2. PICK k \in Nat, f \in StreamFrames : At(1, k, f) /\ f.type = "end" /\ Owner(f) = r
      BY <3>1 DEF Put
    <3>3. f # h
      <4> SUFFICES ASSUME f = h PROVE FALSE
        OBVIOUS
      <4>1. h.type = "end" /\ o = r
        BY <1>3, <3>2
      <4>2. ~Put(r, "open")
        BY <1>1, <1>3, <4>1, OpenFirst DEF Endings
      <4>3. PICK j \in Ids, p \in Partial : pending[j] = p /\ p.meta = r
        BY <3>1, <4>2 DEF Holds
      <4>4. j = i /\ p # None
        BY <1>4, <1>6, <4>1, <4>3, NoneIsNoRequest
      <4> QED
        BY <1>9, <2>4, <4>1, <4>3, <4>4
    <3> QED
      BY <1>1, <3>2, <3>3, Shifted DEF Put
  <2>5. call'[r] = "over" => Ended(r)'
    BY <1>9, <2>1, <2>2 DEF InHand
  <2> QED
    BY <1>2, <2>3, <2>4, <2>5 DEF InHand
<1>11. Greeted' /\ GreetedFirst'
  BY <1>2 DEF Greeted, GreetedFirst
<1> QED
  BY <1>2, <1>10, <1>11 DEF Coming, Excepted

\* The first connection has been the only one, and up, if it is.
LEMMA SoleBefore ==
  ASSUME Types, Served, [Next]_vars, Sole'
  PROVE  Sole
<1>1. newest \in Nat
  BY EarlierConn
<1>2. /\ newest' \in {newest, newest + 1}
      /\ link' = link \/ \E s \in Conns : Pause(s) \/ Loss(s)
  <2>1. CASE UNCHANGED vars
    BY <2>1 DEF vars, gwVars
  <2>2. ASSUME NEW r \in Requests, Request(r) PROVE newest' = newest /\ link' = link
    BY <2>2 DEF Request, Open, SendData, SendEnd, Release, Reset
  <2>3. ASSUME NEW r \in Requests, HandleStream(r) PROVE newest' = newest /\ link' = link
    BY <2>3 DEF HandleStream, gwVars
  <2>4. ASSUME NEW s \in Conns, Register(s) \/ WriteAuthOK(s) \/ Dispatch(s) \/ HandleFrame(s)
        PROVE  newest' \in {newest, newest + 1} /\ link' = link
    BY <2>4 DEF Register, WriteAuthOK, Dispatch, HandleFrame, gwVars
  <2>5. ASSUME NEW s \in Conns, Pause(s) \/ Loss(s) PROVE newest' = newest
    BY <2>5 DEF Pause, ClearPending, Loss, gwVars
  <2>6. CASE PauseUnlinked
    BY <2>6 DEF PauseUnlinked, ClearPending, gwVars
  <2> QED
    BY <2>1, <2>2, <2>3, <2>4, <2>5, <2>6 DEF Next
<1>4. ASSUME NEW s \in Conns, Pause(s) \/ Loss(s) PROVE link'[1] = "up" => link[1] = "up"
  BY <1>4, OneIsConn DEF Pause, Loss, Types, SocketType
<1>5. newest' <= 1 /\ link'[1] = "up"
  BY DEF Sole
<1>6. newest <= 1
  BY <1>1, <1>2, <1>5
<1> QED
  BY <1>2, <1>4, <1>5, <1>6 DEF Sole

\* A pause: on the connection there is, or of uploads that are excepted from then on.
LEMMA ComingClears ==
  ASSUME Types, Served, Calls, Uploads, Coming, Sole, Sole', NEW z \in {0} \cup Conns, Clears(z)
  PROVE  Coming'
<1>1. z # 1
  BY OneIsConn DEF Clears, Sole
<1>2. /\ UNCHANGED <<toCli, pc, call, conn, authed, welcomed, early, got, toGw>>
      /\ crossed' = crossed \cup Elsewhere(z)
  BY DEF Clears, ClearPending, gwVars, reqVars
<1>3. Greeted' /\ GreetedFirst'
  BY <1>2 DEF Coming, Greeted, GreetedFirst, At
<1>4. ASSUME NEW r \in Requests \ Excepted', pc[r] \in Live PROVE InHand(r)'
  <2>1. InHand(r)
    BY <1>2, <1>4 DEF Coming, Excepted
  <2>2. ~Holds(r)
    <3> SUFFICES ASSUME NEW i \in Ids, NEW p \in Partial, pending[i] = p, p.meta = r
                 PROVE  FALSE
      BY DEF Holds
    <3>1. conn[r] = 1
      BY SoleFacts DEF Uploads, Waiting, Begun
    <3>2. p # None
      BY NoneIsNoRequest
    <3>3. r \in Elsewhere(z)
      BY <1>1, <3>1, <3>2 DEF Elsewhere
    <3> QED
      BY <1>2, <1>4, <3>3 DEF Excepted
  <2>3. \A t : Put(r, t)' <=> Put(r, t)
    BY <1>2 DEF Put, At
  <2>4. Ended(r) => Ended(r)'
    BY <1>2, EndedStays
  <2> QED
    BY <1>2, <2>1, <2>2, <2>3, <2>4 DEF InHand
<1> QED
  BY <1>2, <1>3, <1>4 DEF Coming

LEMMA ComingStep ==
  ASSUME SocketInv, Replies, Coming, [Next]_vars
  PROVE  Coming'
<1> SUFFICES ASSUME Sole' PROVE Coming'
  BY DEF Coming
<1>1. Types /\ Served /\ Calls /\ Uploads
  BY DEF SocketInv
<1>2. Sole
  BY <1>1, SoleBefore
<1>3. CASE Quiet
  BY <1>1, <1>2, <1>3, ComingQuiet
<1>4. ASSUME NEW r \in Requests, Request(r), ~Release(r) PROVE Coming'
  BY <1>1, <1>2, <1>4, ComingWrite
<1>5. ASSUME NEW r \in Requests, NEW t \in Cli!AnswerTypes, Answers(r, t) PROVE Coming'
  BY <1>1, <1>2, <1>3, <1>5, QuietAnswer
<1>6. ASSUME NEW s \in Conns, Dispatch(s) PROVE Coming'
  BY <1>1, <1>2, <1>3, <1>6, QuietDispatch
<1>7. CASE Takes(1, Head(toCli[1])) \/ Drops(1, Head(toCli[1])) \/ WriteAuthOK(1)
  BY <1>1, <1>2, <1>7, ComingTake, ComingDrop, ComingWelcome
<1>8. CASE \/ UNCHANGED vars
           \/ \E r \in Requests : Release(r)
           \/ \E s \in Conns : Register(s) \/ Loss(s)
           \/ \E s \in Conns \ {1} : Takes(s, Head(toCli[s])) \/ Drops(s, Head(toCli[s])) \/ WriteAuthOK(s)
  BY <1>1, <1>2, <1>3, <1>8, QuietSteps
<1>9. ASSUME NEW r \in Requests, HandleStream(r) PROVE Coming'
  BY <1>5, <1>9, HandleStreamCases
<1>10. ASSUME NEW s \in Conns, HandleFrame(s) PROVE Coming'
  BY <1>7, <1>8, <1>10, HandleFrameCases
<1>11. CASE PauseUnlinked \/ \E s \in Conns : Pause(s)
  BY <1>1, <1>2, <1>11, PauseCases, ComingClears
<1> QED
  BY <1>4, <1>6, <1>7, <1>8, <1>9, <1>10, <1>11 DEF Next

\* What is asked after AUTH_OK, on a connection that stays and stays the only one, is
\* answered: nothing of it is lost between the handlers, the table and the call.
THEOREM AnswersCome == Spec => []AnswerComes
<1>1. ASSUME Init PROVE Coming
  <2>1. welcomed = {} /\ \A r \in Requests : pc[r] \notin Live
    BY <1>1 DEF Init, Live
  <2>2. \A k \in Nat : \A f : ~At(1, k, f)
    <3>1. \A k \in Nat : k \notin 1..Len(<<>>)
      OBVIOUS
    <3> QED
      BY <1>1, <3>1, OneIsConn DEF Init, At
  <2> QED
    BY <2>1, <2>2 DEF Coming, Greeted, GreetedFirst
<1>2. ASSUME SocketInv, Replies, Coming PROVE AnswerComes
  <2> SUFFICES ASSUME NEW r \in Requests \ (early \cup crossed), newest = 1, link[1] = "up", NothingUnderWay(r)
               PROVE  Answered(r)
    BY DEF AnswerComes
  <2>1. InHand(r)
    BY <1>2 DEF Coming, Excepted, Sole, NothingUnderWay, Live
  <2>2. \A k \in Nat : k \notin 1..Len(<<>>)
    OBVIOUS
  <2>3. ~Put(r, "end")
    BY <2>2 DEF NothingUnderWay, Put, At
  <2>4. call[r] = "over" /\ Ended(r)
    BY <2>1, <2>3 DEF InHand, NothingUnderWay
  <2> QED
    BY <2>2, <2>4 DEF Ended, Going, NothingUnderWay
<1> QED
  BY <1>1, <1>2, SocketInit, SocketStep, RepliesInit, RepliesStep, ComingStep, PTL DEF Spec

=============================================================================
