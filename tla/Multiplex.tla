----------------------------- MODULE Multiplex -----------------------------
(***************************************************************************)
(* The gateway's half of one tunnel                                        *)
(* (gateway/internal/edge/multiplex.go, proxy.go, session.go, tunnel.go):  *)
(* one goroutine per HTTP request in ProxyRequest, the reader of the       *)
(* tunnel's WebSocket in readTunnelLoop, and whoever runs Close.  They     *)
(* share the table of open streams (guarded by streamsMu), and two         *)
(* channels per stream: done, and respCh that carries response frames.     *)
(*                                                                         *)
(* A step is what one goroutine does between two points where another can  *)
(* get in its way: a critical section of streamsMu, a channel operation, a *)
(* write or a read of the connection.                                      *)
(***************************************************************************)
EXTENDS StreamIdSpace, Sequences

CONSTANTS
  Requests,       \* HTTP requests that reach ProxyRequest for this tunnel
  None,           \* no stream
  QCap,           \* capacity of respCh: 32
  MaxBody,        \* bound: STREAM_DATA frames of one request's body
  MaxPeerFrames,  \* bound: frames the other end of the tunnel sends
  PeerTypes,      \* bound: their types
  Bodies,         \* the payloads of the frames the gateway receives
  FirstIds        \* values of nextID a tunnel may have when the model starts

ASSUME ConstantsAssumption ==
  /\ None \notin Requests
  /\ QCap \in Nat \ {0}
  /\ MaxBody \in Nat
  /\ MaxPeerFrames \in Nat
  /\ PeerTypes \subseteq {"init", "badinit", "data", "end", "rst", "goaway"}
  /\ 1..MaxPeerFrames \subseteq Bodies /\ Bodies # {}
  /\ FirstIds \subseteq Ids

VARIABLES
  nextID,      \* t.nextID, normalised: where the next search starts
  streams,     \* t.streams: whose stream is open under an identifier
  sid,         \* stream.ID, the local of ProxyRequest
  doneClosed,  \* requests whose stream.done is closed
  respClosed,  \* requests whose stream.respCh is closed
  queue,       \* the frames buffered in stream.respCh
  pc,          \* where a request's goroutine is
  sent,        \* body frames forwarded so far
  got,         \* frames pipeResponseStream has taken, in order
  resp,        \* how the handler leaves its HTTP response
  victim,      \* the stream ReleaseStream has taken out of the table
  close,       \* how far Close has come
  toClose,     \* the streams CloseAllStreams has taken out of the table
  rpc,         \* where the reader is
  rframe,      \* the frame the reader dispatches
  rstream,     \* the stream it found for that frame
  wsOpen,      \* FALSE once Close has closed the WebSocket
  link,        \* "down" once the connection is lost
  toCli, toGw, \* the frames in flight
  peerSent,    \* how many frames the other end has sent (bounded)
  crash        \* the run-time panic that has stopped the process, if any

tableVars == <<nextID, streams>>
chanVars  == <<doneClosed, respClosed, queue>>
reqVars   == <<sid, pc, sent, got, resp, victim>>
readVars  == <<rpc, rframe, rstream>>
closeVars == <<close, toClose>>
connVars  == <<wsOpen, link>>
wireVars  == <<toCli, toGw, peerSent>>

gwVars == <<tableVars, chanVars, reqVars, readVars, closeVars, connVars, crash>>
vars   == <<gwVars, wireVars>>

-----------------------------------------------------------------------------
\* Frames.  body stands for the payload: for what the gateway sends, the request
\* and the position; for what it receives, whatever the other end put there.

ResponseTypes == {"init", "badinit", "data", "end", "rst"}
FrameTypes == ResponseTypes \cup {"open", "goaway", "none"}

GwFrame(t, i, r, n) == [type |-> t, id |-> i, body |-> <<r, n>>]

PeerFrame(t, i, b) == [type |-> t, id |-> i, body |-> b]

NoFrame == PeerFrame("none", 0, CHOOSE b \in Bodies : TRUE)

PeerFrames == [type : FrameTypes, id : Nat, body : Bodies]
GwFrames   == [type : FrameTypes, id : Nat, body : Requests \X Nat]

-----------------------------------------------------------------------------
Taken == {i \in Ids : streams[i] # None}

\* A search for an identifier that never ends keeps streamsMu for ever.
LockFree == \A r \in Requests : pc[r] # "spin"

Lookup(i) == IF i \in Ids THEN streams[i] ELSE None

Live == {"open", "body", "pipe", "release"}

TableType ==
  /\ nextID \in Ids
  /\ streams \in [Ids -> Requests \cup {None}]

ChanType ==
  /\ doneClosed \subseteq Requests
  /\ respClosed \subseteq Requests
  /\ queue \in [Requests -> Seq(PeerFrames)]
  /\ \A r \in Requests : Len(queue[r]) <= QCap

ReqType ==
  /\ sid \in [Requests -> Ids \cup {0}]
  /\ pc \in [Requests -> {"idle", "spin", "open", "body", "pipe", "release",
                          "closeDone", "closeResp", "done"}]
  /\ sent \in [Requests -> 0..MaxBody]
  /\ got \in [Requests -> Seq(PeerFrames)]
  /\ resp \in [Requests -> {"none", "started", "complete", "empty",
                            "busy", "failed", "spoiled", "cut"}]
  /\ victim \in [Requests -> Requests \cup {None}]
  /\ \A r \in Requests :
       /\ pc[r] \in Live => sid[r] # 0
       /\ pc[r] \in {"closeDone", "closeResp"} => victim[r] # None

ReadType ==
  /\ rpc \in {"read", "lookup", "select", "parked", "exit", "gone"}
  /\ rframe \in PeerFrames
  /\ rstream \in Requests \cup {None}
  /\ rpc \in {"select", "parked"} => rstream # None

CloseType ==
  /\ close \in {"open", "begun", "streams", "ws", "closed"}
  /\ toClose \subseteq Requests
  /\ wsOpen \in BOOLEAN
  /\ link \in {"up", "down"}
  /\ crash \in {"none", "send on closed channel", "close of closed channel"}

WireType ==
  /\ toCli \in Seq(GwFrames)
  /\ toGw \in Seq(PeerFrames)
  /\ peerSent \in 0..MaxPeerFrames

TypeOK == TableType /\ ChanType /\ ReqType /\ ReadType /\ CloseType /\ WireType

\* A tunnel with no open stream: HandleTunnelUpgrade has just started it
\* (nextID = 2), or earlier exchanges have advanced nextID.
GwInit ==
  /\ nextID \in FirstIds
  /\ streams = [i \in Ids |-> None]
  /\ sid = [r \in Requests |-> 0]
  /\ doneClosed = {} /\ respClosed = {}
  /\ queue = [r \in Requests |-> <<>>]
  /\ pc = [r \in Requests |-> "idle"]
  /\ sent = [r \in Requests |-> 0]
  /\ got = [r \in Requests |-> <<>>]
  /\ resp = [r \in Requests |-> "none"]
  /\ victim = [r \in Requests |-> None]
  /\ close = "open" /\ toClose = {}
  /\ rpc = "read" /\ rframe = NoFrame /\ rstream = None
  /\ wsOpen = TRUE /\ link = "up"
  /\ crash = "none"

Init == GwInit /\ toCli = <<>> /\ toGw = <<>> /\ peerSent = 0

-----------------------------------------------------------------------------
\* Writing to and waking goroutines.

\* WriteFrame succeeds: the frame is on its way, or is lost with the connection.
Write(f) ==
  /\ wsOpen
  /\ toCli' = IF link = "up" THEN Append(toCli, f) ELSE toCli
  /\ UNCHANGED <<toGw, peerSent>>

\* WriteFrame fails: t.closed is closed, or the connection reports an error.
WriteFails == (~wsOpen \/ link = "down") /\ UNCHANGED wireVars

\* close(s.done): a second close panics; a reader parked on s.respCh is woken
\* by it and gives up.
CloseDone(s) ==
  IF s \in doneClosed
    THEN crash' = "close of closed channel" /\ UNCHANGED <<doneClosed, rpc>>
    ELSE /\ doneClosed' = doneClosed \cup {s}
         /\ rpc' = IF rpc = "parked" /\ rstream = s THEN "read" ELSE rpc
         /\ UNCHANGED crash

\* close(s.respCh).
CloseResp(s) ==
  IF s \in respClosed
    THEN crash' = "close of closed channel" /\ UNCHANGED respClosed
    ELSE respClosed' = respClosed \cup {s} /\ UNCHANGED crash

\* A slip: a path out of ProxyRequest that the deferred ReleaseStream misses.
FailUnreleased(r) ==
  /\ resp' = [resp EXCEPT ![r] = IF @ = "started" THEN "spoiled" ELSE "failed"]
  /\ pc' = [pc EXCEPT ![r] = "done"]

\* http.Error, before the deferred ReleaseStream: the client reads an error status;
\* or, of a response that has begun, the error text after what came, and then an
\* ordinary end, because the handler returns as after any response ("spoiled").
Fail(r) ==
  /\ resp' = [resp EXCEPT ![r] = IF @ = "started" THEN "spoiled" ELSE "failed"]
  /\ pc' = [pc EXCEPT ![r] = "release"]

-----------------------------------------------------------------------------
\* ProxyRequest, by the goroutine of request r.

\* AllocStream: the nearest free identifier (the loop itself is StreamIds).
AllocStream(r) ==
  /\ pc[r] = "idle" /\ LockFree
  /\ \E i \in Ids :
       /\ NearestFree(nextID, Taken, i)
       /\ streams' = [streams EXCEPT ![i] = r]
       /\ sid' = [sid EXCEPT ![r] = i]
       /\ nextID' = NextId(i)
  /\ pc' = [pc EXCEPT ![r] = "open"]
  /\ UNCHANGED <<chanVars, sent, got, resp, victim, readVars, closeVars,
                 connVars, wireVars, crash>>

(* No identifier is free.  A search that started at 2 never ends: nextID wraps to
   0, is taken for 2, and is 4 when it is compared with start.  Any other comes
   back to its start: 503. *)
AllocFull(r) ==
  /\ pc[r] = "idle" /\ LockFree
  /\ Taken = Ids
  /\ IF nextID = 2
     THEN pc' = [pc EXCEPT ![r] = "spin"] /\ UNCHANGED resp
     ELSE pc' = [pc EXCEPT ![r] = "done"] /\ resp' = [resp EXCEPT ![r] = "busy"]
  /\ UNCHANGED <<tableVars, chanVars, sid, sent, got, victim, readVars,
                 closeVars, connVars, wireVars, crash>>

SendOpen(r) ==
  /\ pc[r] = "open"
  /\ \/ Write(GwFrame("open", sid[r], r, 0))
        /\ pc' = [pc EXCEPT ![r] = "body"] /\ UNCHANGED resp
     \/ WriteFails /\ Fail(r)
  /\ UNCHANGED <<tableVars, chanVars, sid, sent, got, victim, readVars,
                 closeVars, connVars, crash>>

\* forwardRequestBody: one chunk of the request body.
SendData(r) ==
  /\ pc[r] = "body" /\ sent[r] < MaxBody
  /\ \/ /\ Write(GwFrame("data", sid[r], r, sent[r] + 1))
        /\ sent' = [sent EXCEPT ![r] = @ + 1]
        /\ UNCHANGED <<pc, resp>>
     \/ WriteFails /\ Fail(r) /\ UNCHANGED sent
  /\ UNCHANGED <<tableVars, chanVars, sid, got, victim, readVars, closeVars,
                 connVars, crash>>

\* The body cannot be read any further, or is larger than MaxBodySize.
BodyFails(r) ==
  /\ pc[r] = "body"
  /\ Fail(r)
  /\ UNCHANGED <<tableVars, chanVars, sid, sent, got, victim, readVars,
                 closeVars, connVars, wireVars, crash>>

SendEnd(r) ==
  /\ pc[r] = "body"
  /\ \/ Write(GwFrame("end", sid[r], r, sent[r] + 1))
        /\ pc' = [pc EXCEPT ![r] = "pipe"] /\ UNCHANGED resp
     \/ WriteFails /\ Fail(r)
  /\ UNCHANGED <<tableVars, chanVars, sid, sent, got, victim, readVars,
                 closeVars, connVars, crash>>

\* What pipeResponseStream makes of a frame.
Answer(r, f) ==
  \/ /\ f.type \in {"init", "data"}
     /\ resp' = [resp EXCEPT ![r] = "started"]
     /\ UNCHANGED pc
  \/ /\ f.type = "data"                       \* w.Write fails: the client is gone
     /\ resp' = [resp EXCEPT ![r] = "cut"]
     /\ pc' = [pc EXCEPT ![r] = "release"]
  \/ /\ f.type = "end"
     /\ resp' = [resp EXCEPT ![r] = IF @ = "started" THEN "complete" ELSE "empty"]
     /\ pc' = [pc EXCEPT ![r] = "release"]
  \/ f.type \in {"badinit", "rst"} /\ Fail(r)

\* A slip: the parked sender is not told that its frame has been taken.
NotResumed(handOver) == rpc

\* Where the reader is after a receive.
Resumed(handOver) == IF handOver THEN "read" ELSE rpc

\* Receiving from respCh: when the reader is parked on the full channel its
\* frame takes the place that comes free, in the same step.
Receive(r) ==
  /\ pc[r] = "pipe" /\ queue[r] # <<>>
  /\ LET f == Head(queue[r])
         handOver == rpc = "parked" /\ rstream = r
     IN  /\ got' = [got EXCEPT ![r] = Append(@, f)]
         /\ queue' = [queue EXCEPT ![r] =
                        IF handOver THEN Append(Tail(@), rframe) ELSE Tail(@)]
         /\ rpc' = Resumed(handOver)
         /\ Answer(r, f)
  /\ UNCHANGED <<tableVars, doneClosed, respClosed, sid, sent, victim, rframe,
                 rstream, closeVars, connVars, wireVars, crash>>

\* Slips: no timer; a response that has begun is given up without an error.
NoTimer(r) == FALSE

TimeoutAsEnd(r) ==
  /\ pc[r] = "pipe"
  /\ resp' = [resp EXCEPT ![r] = IF @ = "started" THEN "complete" ELSE "failed"]
  /\ pc' = [pc EXCEPT ![r] = "release"]
  /\ UNCHANGED <<tableVars, chanVars, sid, sent, got, victim, readVars,
                 closeVars, connVars, wireVars, crash>>

\* respCh is closed and drained, or nothing has come for sixty seconds.
ReceiveClosed(r) ==
  /\ pc[r] = "pipe" /\ queue[r] = <<>> /\ r \in respClosed
  /\ Fail(r)
  /\ UNCHANGED <<tableVars, chanVars, sid, sent, got, victim, readVars,
                 closeVars, connVars, wireVars, crash>>

Timeout(r) ==
  /\ pc[r] = "pipe"
  /\ Fail(r)
  /\ UNCHANGED <<tableVars, chanVars, sid, sent, got, victim, readVars,
                 closeVars, connVars, wireVars, crash>>

\* A slip: the stream is closed whether or not it was still in the table.
ReleaseEntryUnchecked(r) ==
  /\ pc[r] = "release" /\ LockFree
  /\ victim' = [victim EXCEPT ![r] = r]
  /\ streams' = [streams EXCEPT ![sid[r]] = None]
  /\ pc' = [pc EXCEPT ![r] = "closeDone"]
  /\ UNCHANGED <<nextID, chanVars, sid, sent, got, resp, readVars, closeVars,
                 connVars, wireVars, crash>>

\* ReleaseStream, the critical section: the entry under this identifier goes,
\* whoever it belongs to.
ReleaseEntry(r) ==
  /\ pc[r] = "release" /\ LockFree
  /\ victim' = [victim EXCEPT ![r] = streams[sid[r]]]
  /\ streams' = [streams EXCEPT ![sid[r]] = None]
  /\ pc' = [pc EXCEPT ![r] = IF streams[sid[r]] = None THEN "done" ELSE "closeDone"]
  /\ UNCHANGED <<nextID, chanVars, sid, sent, got, resp, readVars, closeVars,
                 connVars, wireVars, crash>>

ReleaseDone(r) ==
  /\ pc[r] = "closeDone"
  /\ CloseDone(victim[r])
  /\ pc' = [pc EXCEPT ![r] = "closeResp"]
  /\ UNCHANGED <<tableVars, respClosed, queue, sid, sent, got, resp, victim,
                 rframe, rstream, closeVars, connVars, wireVars>>

ReleaseResp(r) ==
  /\ pc[r] = "closeResp"
  /\ CloseResp(victim[r])
  /\ pc' = [pc EXCEPT ![r] = "done"]
  /\ UNCHANGED <<tableVars, doneClosed, queue, sid, sent, got, resp, victim,
                 readVars, closeVars, connVars, wireVars>>

-----------------------------------------------------------------------------
\* readTunnelLoop and DispatchToStream.

\* A frame for a stream is dispatched; GO_AWAY ends the loop.
ReadFrame ==
  /\ rpc = "read" /\ wsOpen /\ toGw # <<>>
  /\ toGw' = Tail(toGw)
  /\ IF Head(toGw).type \in ResponseTypes
       THEN rpc' = "lookup" /\ rframe' = Head(toGw)
       ELSE rpc' = "exit" /\ UNCHANGED rframe
  /\ UNCHANGED <<tableVars, chanVars, reqVars, rstream, closeVars, connVars,
                 toCli, peerSent, crash>>

ReadError ==
  /\ rpc = "read" /\ (~wsOpen \/ link = "down")
  /\ rpc' = "exit"
  /\ UNCHANGED <<tableVars, chanVars, reqVars, rframe, rstream, closeVars,
                 connVars, wireVars, crash>>

\* GetStream: the stream found here is used after streamsMu is released.
GetStream ==
  /\ rpc = "lookup" /\ LockFree
  /\ rstream' = Lookup(rframe.id)
  /\ rpc' = IF rstream' = None THEN "read" ELSE "select"
  /\ UNCHANGED <<tableVars, chanVars, reqVars, rframe, closeVars, connVars,
                 wireVars, crash>>

\* The select of DispatchToStream.  Every ready case may be taken, and a send
\* on a closed channel is ready and panics; with no case ready the reader parks.
SelectDone ==
  /\ rpc = "select" /\ rstream \in doneClosed
  /\ rpc' = "read"
  /\ UNCHANGED <<tableVars, chanVars, reqVars, rframe, rstream, closeVars,
                 connVars, wireVars, crash>>

SelectSend ==
  /\ rpc = "select" /\ rstream \notin respClosed
  /\ Len(queue[rstream]) < QCap
  /\ queue' = [queue EXCEPT ![rstream] = Append(@, rframe)]
  /\ rpc' = "read"
  /\ UNCHANGED <<tableVars, doneClosed, respClosed, reqVars, rframe, rstream,
                 closeVars, connVars, wireVars, crash>>

SelectPanic ==
  /\ rpc = "select" /\ rstream \in respClosed
  /\ crash' = "send on closed channel"
  /\ UNCHANGED <<tableVars, chanVars, reqVars, readVars, closeVars, connVars,
                 wireVars>>

\* A slip: a send that does not block, so the frame is dropped when respCh is full.
SelectDrop ==
  /\ rpc = "select" /\ rstream \notin doneClosed \cup respClosed
  /\ Len(queue[rstream]) = QCap
  /\ rpc' = "read"
  /\ UNCHANGED <<tableVars, chanVars, reqVars, rframe, rstream, closeVars,
                 connVars, wireVars, crash>>

SelectPark ==
  /\ rpc = "select" /\ rstream \notin doneClosed \cup respClosed
  /\ Len(queue[rstream]) = QCap
  /\ rpc' = "parked"
  /\ UNCHANGED <<tableVars, chanVars, reqVars, rframe, rstream, closeVars,
                 connVars, wireVars, crash>>

\* The deferred Close, once somebody's Close has run to its end.
ReaderGone ==
  /\ rpc = "exit" /\ close = "closed"
  /\ rpc' = "gone"
  /\ UNCHANGED <<tableVars, chanVars, reqVars, rframe, rstream, closeVars,
                 connVars, wireVars, crash>>

-----------------------------------------------------------------------------
\* Close, under closeOnce: whoever calls it first runs it.  Its callers are the
\* reader, and pingLoop, viewerCountLoop, CheckExpiry and handleOverlayClose.

BeginClose ==
  /\ close = "open"
  /\ close' = "begun"
  /\ UNCHANGED <<tableVars, chanVars, reqVars, readVars, toClose, connVars,
                 wireVars, crash>>

\* A slip: the reader returns without Close.
ReaderLeaves == FALSE

ReaderCloses == rpc = "exit" /\ BeginClose

\* CloseAllStreams, the critical section.
TakeAllStreams ==
  /\ close = "begun" /\ LockFree
  /\ toClose' = {streams[i] : i \in Taken}
  /\ streams' = [i \in Ids |-> None]
  /\ close' = "streams"
  /\ UNCHANGED <<nextID, chanVars, reqVars, readVars, connVars, wireVars, crash>>

\* CloseAllStreams, the loop: done and then respCh of one stream after another.
CloseOneDone(s) ==
  /\ close = "streams"
  /\ s \in toClose \ doneClosed /\ toClose \cap doneClosed = {}
  /\ CloseDone(s)
  /\ UNCHANGED <<tableVars, respClosed, queue, reqVars, rframe, rstream,
                 closeVars, connVars, wireVars>>

CloseOneResp(s) ==
  /\ close = "streams"
  /\ s \in toClose \cap doneClosed
  /\ CloseResp(s)
  /\ toClose' = toClose \ {s}
  /\ UNCHANGED <<tableVars, doneClosed, queue, reqVars, readVars, close,
                 connVars, wireVars>>

\* WSConn.Close: what has not been read from the connection never will be.
CloseSocket ==
  /\ close = "streams" /\ toClose = {}
  /\ close' = "ws"
  /\ wsOpen' = FALSE
  /\ toGw' = <<>>
  /\ UNCHANGED <<tableVars, chanVars, reqVars, readVars, toClose, link, toCli,
                 peerSent, crash>>

\* close(t.closed) lets go of the loops that wait for it.
CloseFinished ==
  /\ close = "ws"
  /\ close' = "closed"
  /\ UNCHANGED <<tableVars, chanVars, reqVars, readVars, toClose, connVars,
                 wireVars, crash>>

-----------------------------------------------------------------------------
\* The network, and the other end of the tunnel: any response frame under any
\* identifier at any time.

LinkDown ==
  /\ link = "up"
  /\ link' = "down"
  /\ UNCHANGED <<tableVars, chanVars, reqVars, readVars, closeVars, wsOpen,
                 wireVars, crash>>

\* (Nothing the gateway does depends on the frames in flight before it reads them, so
\* the next one is chosen only when the reader asks for it.  What was under way when
\* the connection was lost may still be read.)
PeerSend(t, i) ==
  /\ wsOpen /\ rpc = "read" /\ peerSent < MaxPeerFrames /\ toGw = <<>>
  /\ peerSent' = peerSent + 1
  /\ toGw' = Append(toGw, PeerFrame(t, i, peerSent + 1))
  /\ UNCHANGED <<gwVars, toCli>>

PeerReceive ==
  /\ toCli # <<>>
  /\ toCli' = Tail(toCli)
  /\ UNCHANGED <<gwVars, toGw, peerSent>>

Peer ==
  \/ \E t \in PeerTypes, i \in Ids : PeerSend(t, i)
  \/ PeerReceive

-----------------------------------------------------------------------------
Proxy(r) ==
  \/ SendOpen(r) \/ SendData(r) \/ BodyFails(r) \/ SendEnd(r)
  \/ Receive(r) \/ ReceiveClosed(r) \/ Timeout(r)
  \/ ReleaseEntry(r) \/ ReleaseDone(r) \/ ReleaseResp(r)

Reader ==
  \/ ReadFrame \/ ReadError \/ GetStream
  \/ SelectDone \/ SelectSend \/ SelectPanic \/ SelectPark
  \/ ReaderCloses \/ ReaderGone

Closer ==
  \/ TakeAllStreams \/ CloseSocket \/ CloseFinished
  \/ \E s \in Requests : CloseOneDone(s) \/ CloseOneResp(s)

Arrival(r) == AllocStream(r) \/ AllocFull(r)

\* A panic in any goroutine stops the process.
GwNext ==
  /\ crash = "none"
  /\ \/ \E r \in Requests : Arrival(r) \/ Proxy(r)
     \/ Reader \/ BeginClose \/ Closer \/ LinkDown

\* On its own the gateway meets an end that reads at once: what it reads does
\* not matter here, because it may answer anything (StreamExchange joins the
\* gateway to the real one).
Next == (toCli = <<>> /\ GwNext) \/ (crash = "none" /\ Peer)

Spec == Init /\ [][Next]_vars

-----------------------------------------------------------------------------
\* Goroutines that can run do run: the body of a request is bounded by the
\* server's ReadTimeout, a write to its client by WriteTimeout, the wait for a
\* response by the sixty-second timer.  Arrivals, losses and closes may never come.
Fairness ==
  /\ \A r \in Requests : WF_vars(crash = "none" /\ Proxy(r))
  /\ WF_vars(crash = "none" /\ Reader)
  /\ WF_vars(crash = "none" /\ Closer)

FairSpec == Spec /\ Fairness

-----------------------------------------------------------------------------
\* Every entry of the table belongs to a request that is still being served and
\* that knows the entry as its own: no stream outlives its request, although
\* the table is keyed by identifier and identifiers are reused.
EntryHasOwner ==
  \A i \in Ids : streams[i] # None =>
    sid[streams[i]] = i /\ pc[streams[i]] \in Live

\* What the reader finds in the table is open; a closed channel has left the
\* table before, and done is closed no later than respCh.
EntriesAreOpen ==
  /\ \A i \in Ids : streams[i] \notin doneClosed \cup respClosed
  /\ respClosed \subseteq doneClosed

\* A stream that has left the table has exactly one goroutine left to close it:
\* the ReleaseStream that took it out, or CloseAllStreams; and a request that has
\* no stream yet is nobody's to close.
Closing == {"closeDone", "closeResp"}

ClosedByOne ==
  /\ \A r \in Requests : pc[r] \in Closing =>
       /\ victim[r] \notin respClosed \cup toClose
       /\ victim[r] \in doneClosed <=> pc[r] = "closeResp"
       /\ \A i \in Ids : streams[i] # victim[r]
       /\ \A q \in Requests \ {r} : pc[q] \in Closing => victim[q] # victim[r]
  /\ \A s \in toClose : s \notin respClosed /\ \A i \in Ids : streams[i] # s
  /\ \A r \in Requests : pc[r] \in {"idle", "spin"} =>
       /\ r \notin doneClosed \cup toClose
       /\ \A q \in Requests : pc[q] \in Closing => victim[q] # r

\* ReleaseStream and CloseAllStreams may both want to close a stream; the second
\* close of a channel would take the whole gateway down.
NeverClosedTwice == crash # "close of closed channel"

\* The frames a request's handler takes, and those still buffered for it, carry
\* its identifier and come in the order in which they were sent.
DeliveredInOrder ==
  \A r \in Requests :
    LET frames == got[r] \o queue[r]
    IN  \A j \in 1..Len(frames) :
          /\ frames[j].id = sid[r]
          /\ \A k \in 1..(j - 1) : frames[k].body < frames[j].body

\* The handler takes a response for complete only when the END of it has been taken,
\* after something that started it, and takes nothing after the end.  (This is the
\* handler's view.  A client cannot tell a "spoiled" response from a complete one: it
\* ends in the same way.)
CompleteMeansEnd ==
  \A r \in Requests : resp[r] \in {"complete", "empty"} =>
    /\ got[r] # <<>> /\ got[r][Len(got[r])].type = "end"
    /\ \A k \in 1..(Len(got[r]) - 1) : got[r][k].type \in {"init", "data"}

\* Every request that opened a stream is answered and gives the stream back, though
\* the reader may be parked on the stream of another, unless the gateway has crashed
\* or a search for an identifier does not end.  Such a search keeps streamsMu, and
\* then no request of the tunnel can give its stream back.
RequestsFinish ==
  \A r \in Requests :
    pc[r] = "open" ~> (pc[r] = "done" \/ crash # "none" \/ ~LockFree)

\* A tunnel whose connection is lost is closed, and its reader ends, with the same
\* two exceptions: GetStream and CloseAllStreams take streamsMu too.
LossClosesTunnel ==
  link = "down" ~> (close = "closed" /\ rpc = "gone") \/ crash # "none" \/ ~LockFree

=============================================================================
