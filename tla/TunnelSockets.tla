---------------------------- MODULE TunnelSockets ----------------------------
(***************************************************************************)
(* The streams of one CLI over all the connections it makes                *)
(* (packages/cli/src/tunnel.ts; gateway/internal/edge/tunnel.go, proxy.go, *)
(* multiplex.go).  The gateway has a TunnelConn, with identifiers of its   *)
(* own, for every connection.  The CLI has one pendingStreams, keyed by    *)
(* identifier alone, and one proxy, that of the last AUTH_OK, for all its  *)
(* sockets, and may have several of them at a time (TunnelClient).         *)
(***************************************************************************)
EXTENDS StreamIdSpace, Sequences

CONSTANTS
  Requests,
  None,
  MaxConns,   \* bound: connections that AUTH succeeds on, numbered in that order
  MaxBody,    \* bound: STREAM_DATA frames of one request's body
  MaxChunks   \* bound: chunks of a local response body

ASSUME TunnelSocketsAssumption ==
  /\ None \notin Requests
  /\ None \notin [meta : Requests, chunks : Seq(Requests \X Nat)]
  /\ MaxConns \in Nat \ {0} /\ MaxBody \in Nat /\ MaxChunks \in Nat

Conns == 1..MaxConns

VARIABLES
  pending, call, callId, body, chunks,   \* the CLI, as in LocalProxy
  via,       \* the socket of the LocalProxy that handles a call
  authed,    \* sockets whose message handler has been switched by AUTH_OK
  proxy,     \* the socket of this.proxy, or 0
  newest,    \* the tunnel in the gateway's registry, or 0
  welcomed,  \* connections on which the gateway has written AUTH_OK
  link,      \* "up", "parting" once the CLI has called close(), or "down"
  streams,   \* of each connection's TunnelConn, as in Multiplex
  conn, sid, pc, sent, got,   \* of each request, as in Multiplex; conn: its connection
  early,     \* history: requests put on a connection before its AUTH_OK
  crossed,   \* history: requests whose upload met one, or a pause, of another connection
  toCli, toGw

Cli == INSTANCE LocalProxy

cliVars  == <<pending, call, callId, body, chunks, via, authed, proxy>>
reqVars  == <<conn, sid, pc, sent, got, early>>
gwVars   == <<newest, welcomed, streams, reqVars>>
vars     == <<cliVars, gwVars, crossed, link, toCli, toGw>>

TypeOK ==
  /\ Cli!TypeOK
  /\ via \in [Requests -> {0} \cup Conns]
  /\ authed \subseteq Conns /\ proxy \in {0} \cup authed
  /\ newest \in {0} \cup Conns /\ welcomed \subseteq 1..newest
  /\ link \in [Conns -> {"up", "parting", "down"}]
  /\ streams \in [Conns -> [Ids -> Requests \cup {None}]]
  /\ conn \in [Requests -> {0} \cup Conns] /\ sid \in [Requests -> {0} \cup Ids]
  /\ pc \in [Requests -> {"idle", "body", "pipe", "done"}]
  /\ sent \in [Requests -> 0..MaxBody]
  /\ early \subseteq Requests /\ crossed \subseteq Requests

Init ==
  /\ Cli!CliInit
  /\ via = [r \in Requests |-> 0] /\ authed = {} /\ proxy = 0
  /\ newest = 0 /\ welcomed = {}
  /\ link = [s \in Conns |-> "up"]
  /\ streams = [s \in Conns |-> [i \in Ids |-> None]]
  /\ conn = [r \in Requests |-> 0] /\ sid = [r \in Requests |-> 0]
  /\ pc = [r \in Requests |-> "idle"] /\ sent = [r \in Requests |-> 0]
  /\ got = [r \in Requests |-> <<>>]
  /\ early = {} /\ crossed = {}
  /\ toCli = [s \in Conns |-> <<>>] /\ toGw = [s \in Conns |-> <<>>]

-----------------------------------------------------------------------------
\* The gateway.

\* What is written after the connection is lost is lost with it.
ToCli(s, f) ==
  toCli' = [toCli EXCEPT ![s] = IF link[s] = "down" THEN @ ELSE Append(@, f)]

\* HandleTunnelUpgrade puts the tunnel into the registry, over the one before it...
Register(s) ==
  /\ s = newest + 1
  /\ newest' = s
  /\ UNCHANGED <<cliVars, welcomed, streams, reqVars, crossed, link,
                 toCli, toGw>>

\* ... and writes AUTH_OK then.
WriteAuthOK(s) ==
  /\ s \in 1..newest \ welcomed
  /\ welcomed' = welcomed \cup {s}
  /\ ToCli(s, Cli!Frame("authok", 0, None))
  /\ UNCHANGED <<cliVars, newest, streams, reqVars, crossed, link, toGw>>

Taken(s) == {i \in Ids : streams[s][i] # None}

(* A visitor's request takes the tunnel that is in the registry: AllocStream, with
   nextID wherever the exchanges that have come and gone have left it, and
   STREAM_OPEN. *)
Open(r) ==
  /\ pc[r] = "idle" /\ newest # 0
  /\ LET s == newest
     IN  \E i \in Ids \ Taken(s) :
           /\ streams' = [streams EXCEPT ![s][i] = r]
           /\ sid' = [sid EXCEPT ![r] = i]
           /\ conn' = [conn EXCEPT ![r] = s]
           /\ early' = IF s \in welcomed THEN early ELSE early \cup {r}
           /\ ToCli(s, Cli!Frame("open", i, <<r, 0>>))
  /\ pc' = [pc EXCEPT ![r] = "body"]
  /\ UNCHANGED <<cliVars, newest, welcomed, sent, got, crossed, link, toGw>>

SendData(r) ==
  /\ pc[r] = "body" /\ sent[r] < MaxBody
  /\ sent' = [sent EXCEPT ![r] = @ + 1]
  /\ ToCli(conn[r], Cli!Frame("data", sid[r], <<r, sent[r] + 1>>))
  /\ UNCHANGED <<cliVars, newest, welcomed, streams, conn, sid, pc, got,
                 early, crossed, link, toGw>>

SendEnd(r) ==
  /\ pc[r] = "body"
  /\ pc' = [pc EXCEPT ![r] = "pipe"]
  /\ ToCli(conn[r], Cli!Frame("end", sid[r], <<r, sent[r] + 1>>))
  /\ UNCHANGED <<cliVars, newest, welcomed, streams, conn, sid, sent, got,
                 early, crossed, link, toGw>>

\* ReleaseStream: the response has ended, or the visitor, the timer or an error
\* ends the request before that.
Release(r) ==
  /\ pc[r] \in {"body", "pipe"}
  /\ pc' = [pc EXCEPT ![r] = "done"]
  /\ streams' = [streams EXCEPT ![conn[r]][sid[r]] = None]
  /\ UNCHANGED <<cliVars, newest, welcomed, conn, sid, sent, got, early,
                 crossed, link, toCli, toGw>>

\* The protocol has a reset for a request that is given up, and the CLI takes it;
\* the gateway of this repository does not send one.
Reset(r) ==
  /\ pc[r] = "body"
  /\ pc' = [pc EXCEPT ![r] = "done"]
  /\ streams' = [streams EXCEPT ![conn[r]][sid[r]] = None]
  /\ ToCli(conn[r], Cli!Frame("rst", sid[r], <<r, sent[r] + 1>>))
  /\ UNCHANGED <<cliVars, newest, welcomed, conn, sid, sent, got, early,
                 crossed, link, toGw>>

\* readTunnelLoop and DispatchToStream of connection s, with pipeResponseStream.
Dispatch(s) ==
  /\ toGw[s] # <<>>
  /\ toGw' = [toGw EXCEPT ![s] = Tail(@)]
  /\ LET f == Head(toGw[s])
         r == streams[s][f.id]
     IN  got' = IF r = None THEN got ELSE [got EXCEPT ![r] = Append(@, f)]
  /\ UNCHANGED <<cliVars, newest, welcomed, streams, conn, sid, pc, sent,
                 early, crossed, link, toCli>>

-----------------------------------------------------------------------------
\* The CLI.

\* A LocalProxy answers on the socket it was made with.
NewProxy(s) == proxy' = s

\* AUTH_OK: a new LocalProxy for this socket, and from now on handleFrame.
HandleAuthOK(s) ==
  /\ s \notin authed
  /\ Head(toCli[s]).type = "authok"
  /\ authed' = authed \cup {s}
  /\ NewProxy(s)
  /\ UNCHANGED <<pending, call, callId, body, chunks, via, crossed>>

\* Until then a frame of any other type is looked at and forgotten.
Forgets(s) ==
  /\ s \notin authed
  /\ Head(toCli[s]).type # "authok"
  /\ UNCHANGED <<cliVars, crossed>>

\* The upload of another connection that f of request r meets under its identifier.
Meets(f) ==
  LET p == pending[f.id]
      r == f.body[1]
  IN  IF f.type # "open" /\ p # None /\ conn[p.meta] # conn[r] THEN {p.meta, r} ELSE {}

\* handleFrame: a call that begins is one of this.proxy, whatever socket the request
\* has come from.
HandleStreamFrame(s) ==
  LET f == Head(toCli[s])
  IN  /\ s \in authed
      /\ Cli!OnStreamFrame(f)
      /\ crossed' = crossed \cup Meets(f)
      /\ via' = [r \in Requests |-> IF call'[r] # call[r] THEN proxy ELSE via[r]]
      /\ UNCHANGED <<authed, proxy>>

HandleFrame(s) ==
  /\ toCli[s] # <<>>
  /\ toCli' = [toCli EXCEPT ![s] = Tail(@)]
  /\ HandleAuthOK(s) \/ Forgets(s) \/ HandleStreamFrame(s)
  /\ UNCHANGED <<gwVars, link, toGw>>

\* A slip: every frame goes to the socket of the moment.
HandleStreamLatest(r) ==
  \E t \in Cli!AnswerTypes :
    /\ Cli!HandleStream(r, t)
    /\ toGw' = IF link[proxy] = "up"
               THEN [toGw EXCEPT ![proxy] = Append(@, Cli!AnswerFrame(r, t))]
               ELSE toGw
    /\ UNCHANGED <<via, authed, proxy, gwVars, crossed, link, toCli>>

\* handleStream; ws.send on a socket that is not open drops the frame and says nothing.
HandleStream(r) ==
  \E t \in Cli!AnswerTypes :
    /\ Cli!HandleStream(r, t)
    /\ toGw' = IF link[via[r]] = "up"
               THEN [toGw EXCEPT ![via[r]] = Append(@, Cli!AnswerFrame(r, t))]
               ELSE toGw
    /\ UNCHANGED <<via, authed, proxy, gwVars, crossed, link, toCli>>

\* Requests of connections other than s whose uploads pendingStreams holds.
Elsewhere(s) ==
  {r \in Requests : conn[r] # s /\ \E i \in Ids : pending[i] # None /\ pending[i].meta = r}

\* pendingStreams.clear(): the uploads of every connection, whatever this.ws is.
ClearPending(s) ==
  /\ pending' = [i \in Ids |-> None]
  /\ crossed' = crossed \cup Elsewhere(s)
  /\ UNCHANGED <<call, callId, body, chunks, via, authed, proxy, gwVars, toCli, toGw>>

\* pause() and stop() while this.ws is socket s, AUTH_OK or not: close(), and messages
\* still come until the other end has closed as well.
Pause(s) ==
  /\ link[s] = "up"
  /\ link' = [link EXCEPT ![s] = "parting"]
  /\ ClearPending(s)

\* While this.ws has closed, or is one that AUTH never succeeds on.
PauseUnlinked ==
  /\ ClearPending(0)
  /\ UNCHANGED link

\* The connection is lost, or terminated, with what is under way in it.
Loss(s) ==
  /\ s \in 1..newest /\ link[s] # "down"
  /\ link' = [link EXCEPT ![s] = "down"]
  /\ toCli' = [toCli EXCEPT ![s] = <<>>]
  /\ toGw' = [toGw EXCEPT ![s] = <<>>]
  /\ UNCHANGED <<cliVars, gwVars, crossed>>

-----------------------------------------------------------------------------
Request(r) == Open(r) \/ SendData(r) \/ SendEnd(r) \/ Release(r) \/ Reset(r)

Next ==
  \/ PauseUnlinked
  \/ \E r \in Requests : Request(r) \/ HandleStream(r)
  \/ \E s \in Conns :
       Register(s) \/ WriteAuthOK(s) \/ Dispatch(s) \/ HandleFrame(s) \/ Pause(s) \/ Loss(s)

Spec == Init /\ [][Next]_vars

-----------------------------------------------------------------------------
\* Properties.

(* The local server is given the whole body of a request and nothing of another,
   across losses, pauses and reconnects, unless frames of another connection met
   the request under its identifier while it was being put together. *)
BodyWhole ==
  \A r \in Requests \ crossed :
    call[r] # "none" => body[r] = [n \in 1..sent[r] |-> <<r, n>>]

\* The last frame of its own answer has come to r.
Answered(r) ==
  \E k \in 1..Len(got[r]) : got[r][k].body[1] = r /\ got[r][k].type \in {"end", "rst"}

(* A visitor is given an answer that is not his own in two ways only: his
   identifier was another's on the same connection, who gave up before his own
   answer had come; or the other's request ended when this.proxy was the visitor's
   connection already.  A call that was under way by then answers where it began. *)
AnswerGoesHome ==
  \A r \in Requests : \A k \in 1..Len(got[r]) :
    LET q == got[r][k].body[1]
    IN  \/ q = r
        \/ conn[q] = conn[r] /\ sid[q] = sid[r] /\ pc[q] = "done" /\ ~Answered(q)
        \/ via[q] # conn[q] /\ via[q] = conn[r]

(* A request that came after AUTH_OK was written, on a connection that stays and
   stays the only one, is answered: when nothing is under way for it any more its
   own answer has come, to its end.  Nothing is lost between the two handlers of
   "message", in pendingStreams or in the call.  The exception is a pause that finds
   this.ws to be another socket, one AUTH has not succeeded on, and clears the
   request's upload with that socket's. *)
NothingUnderWay(r) ==
  pc[r] = "pipe" /\ call[r] \in {"none", "over"} /\ toCli[1] = <<>> /\ toGw[1] = <<>>

AnswerComes ==
  \A r \in Requests \ (early \cup crossed) :
    newest = 1 /\ link[1] = "up" /\ NothingUnderWay(r) => Answered(r)

=============================================================================
