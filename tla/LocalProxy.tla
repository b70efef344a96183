----------------------------- MODULE LocalProxy -----------------------------
(***************************************************************************)
(* The CLI's half of the streams: what TunnelClient.handleFrame makes of a *)
(* stream frame (packages/cli/src/tunnel.ts), and LocalProxy.handleStream  *)
(* (packages/cli/src/local-proxy.ts).  handleFrame runs to its end between *)
(* two turns of the event loop; handleStream gives way at each await.      *)
(* Which socket a frame comes from and goes to is left to the modules that *)
(* use this one: StreamExchange has one, TunnelSockets has several.        *)
(***************************************************************************)
EXTENDS StreamIdSpace, Sequences

CONSTANTS
  Requests,
  None,
  MaxChunks   \* bound: chunks of a local response body

VARIABLES
  pending,      \* pendingStreams: what has come of a request, by identifier
  call,         \* where the handleStream call for a request is
  callId,       \* its streamId
  body,         \* the requestBody it was given: the chunks, in order
  chunks,       \* how many chunks of the response it has sent on
  link,         \* "down" once the WebSocket is closed
  toCli, toGw   \* frames in flight

callVars == <<call, callId, body, chunks>>
cliVars  == <<pending, callVars>>
vars     == <<cliVars, link, toCli, toGw>>

Frame(t, i, b) == [type |-> t, id |-> i, body |-> b]

TypeOK ==
  /\ pending \in [Ids -> {None} \cup [meta : Requests, chunks : Seq(Requests \X Nat)]]
  /\ call \in [Requests -> {"none", "request", "stream", "over"}]
  /\ callId \in [Requests -> Ids \cup {0}]
  /\ body \in [Requests -> Seq(Requests \X Nat)]
  /\ chunks \in [Requests -> 0..MaxChunks]

CliInit ==
  /\ pending = [i \in Ids |-> None]
  /\ call = [r \in Requests |-> "none"]
  /\ callId = [r \in Requests |-> 0]
  /\ body = [r \in Requests |-> <<>>]
  /\ chunks = [r \in Requests |-> 0]

-----------------------------------------------------------------------------
\* handleFrame.

\* A slip: what a given-up request has left under the identifier is kept.
OnOpenKeeping(f) ==
  /\ f.type = "open"
  /\ pending' = [pending EXCEPT ![f.id] =
        [meta |-> f.body[1], chunks |-> IF @ = None THEN <<>> ELSE @.chunks]]
  /\ UNCHANGED callVars

OnOpen(f) ==
  /\ f.type = "open"
  /\ pending' = [pending EXCEPT ![f.id] = [meta |-> f.body[1], chunks |-> <<>>]]
  /\ UNCHANGED callVars

AddChunk(p, b) == [p EXCEPT !.chunks = Append(@, b)]

OnData(f) ==
  /\ f.type = "data"
  /\ pending' = [pending EXCEPT ![f.id] = IF @ = None THEN None ELSE AddChunk(@, f.body)]
  /\ UNCHANGED callVars

\* A slip: a request without a body is taken for an unknown one.
OnEndNoBody(f) ==
  LET p == pending[f.id]
  IN  /\ f.type = "end"
      /\ pending' = [pending EXCEPT ![f.id] = None]
      /\ IF p = None \/ p.chunks = <<>>
           THEN UNCHANGED callVars
           ELSE /\ call' = [call EXCEPT ![p.meta] = "request"]
                /\ callId' = [callId EXCEPT ![p.meta] = f.id]
                /\ body' = [body EXCEPT ![p.meta] = p.chunks]
                /\ UNCHANGED chunks

\* The request is complete: it leaves pendingStreams and handleStream begins.
OnEnd(f) ==
  LET p == pending[f.id]
  IN  /\ f.type = "end"
      /\ pending' = [pending EXCEPT ![f.id] = None]
      /\ IF p = None
           THEN UNCHANGED callVars
           ELSE /\ call' = [call EXCEPT ![p.meta] = "request"]
                /\ callId' = [callId EXCEPT ![p.meta] = f.id]
                /\ body' = [body EXCEPT ![p.meta] = p.chunks]
                /\ UNCHANGED chunks

OnRst(f) ==
  /\ f.type = "rst"
  /\ pending' = [pending EXCEPT ![f.id] = None]
  /\ UNCHANGED callVars

OnStreamFrame(f) == OnOpen(f) \/ OnData(f) \/ OnEnd(f) \/ OnRst(f)

-----------------------------------------------------------------------------
\* handleStream, for the request r: where the call is after a step of it.

\* The local server answers with a status and headers.
Answered(r) ==
  /\ call[r] = "request"
  /\ call' = [call EXCEPT ![r] = "stream"]
  /\ UNCHANGED <<pending, callId, body, chunks>>

Chunk(r) ==
  /\ call[r] = "stream" /\ chunks[r] < MaxChunks
  /\ chunks' = [chunks EXCEPT ![r] = @ + 1]
  /\ UNCHANGED <<pending, call, callId, body>>

\* A slip: the error path can be taken after the response has been ended.
FinishedAndGoesOn(r) ==
  /\ call[r] = "stream"
  /\ UNCHANGED cliVars

Finished(r) ==
  /\ call[r] = "stream"
  /\ call' = [call EXCEPT ![r] = "over"]
  /\ UNCHANGED <<pending, callId, body, chunks>>

\* The request or its response body fails or times out: the catch block.
Failed(r) ==
  /\ call[r] \in {"request", "stream"}
  /\ call' = [call EXCEPT ![r] = "over"]
  /\ UNCHANGED <<pending, callId, body, chunks>>

AnswerTypes == {"init", "data", "end", "rst"}

\* Each step sends one frame.
HandleStream(r, t) ==
  \/ t = "init" /\ Answered(r)
  \/ t = "data" /\ Chunk(r)
  \/ t = "end" /\ Finished(r)
  \/ t = "rst" /\ Failed(r)

AnswerFrame(r, t) ==
  Frame(t, callId[r], <<r, IF t = "init" THEN 0 ELSE chunks[r] + 1>>)

=============================================================================
