# Formal models of stoat.run

stoat.run gives a local HTTP server a public URL. The CLI (`packages/cli`) asks
the control plane (`packages/control-plane`) for a session, a slug with a token
and an expiry, and opens a WebSocket to the gateway (`gateway`). The gateway puts
every HTTP request for `<slug>.<domain>` into that socket as a stream of frames,
and the CLI turns it into a request to `localhost`.

This directory holds TLA+ models of that path, TLC configurations for them, and
theorems that TLAPS checks.

## Inventory

| Part | State | Operations | Interacts through |
|---|---|---|---|
| Stream identifiers (`multiplex.go`) | `nextID`, the keys of `streams` | `AllocStream`, `ReleaseStream` | `streamsMu` |
| Multiplexing (`multiplex.go`, `proxy.go`, `session.go`, `tunnel.go`) | `streams`; `done` and `respCh` of each stream; `closed`, `closeOnce` | `ProxyRequest` with `forwardRequestBody` and `pipeResponseStream`; `readTunnelLoop` with `DispatchToStream`; `Close` with `CloseAllStreams` | one goroutine per request, one reader, any closer; channels; the WebSocket |
| Registry (`session.go`, `tunnel.go`, `overlay.go`, `handler.go`, `policy.go`) | slug -> tunnel; token and expiry of a tunnel | upgrade, end of the reader, close from the overlay, lookup and policy of a visitor | `sync.Map`; GET /sessions of the control plane; GO_AWAY to the CLI |
| Keepalive, viewers (`tunnel.go`, `session.go`) | `missedPongs`, `viewerLastSeen` | `pingLoop`, `viewerCountLoop`, `TouchViewer` | atomics, `viewersMu`, `Close` |
| Control plane | the map slug -> session | POST, GET, DELETE, the cleanup timer, restart | HTTP |
| Tunnel client (`tunnel.ts`, `heartbeat.ts`, `interactive.ts`, `http.ts`) | `ws`, timers, `paused`, `stopped`, `missedPongs` | `connect`, `reconnect`, `pause`, `resume`, `stop`, the heartbeat | socket events, promises, keys |
| Local proxy (`tunnel.ts`, `local-proxy.ts`) | `pendingStreams`, the calls under way | `handleFrame`, `handleStream` | frames; `fetch` to the local server |
| Loops of a tunnel (`tunnel.go`, `session.go`) | `missedPongs`, `viewerLastSeen`, `last` | `pingLoop`, `viewerCountLoop`, `TouchViewer`, `ViewerCount` | PING, PONG and VIEWER_COUNT frames; `viewersMu`; `Close` |
| Overlay widget (`overlay.ts`, `overlay.go`) | the polls under way, the number shown; the place of the bar, on the page, in memory and in `localStorage`; the drag, labels and timers; the close under way | poll, close, copy, drag, resize, teardown, reload | GET /.stoat/viewers and POST /.stoat/close of the gateway; events, promises and timers of the page |
| Session file, `stoat status` (`session.ts`, `status.ts`, `http.ts`) | `~/.stoat/p.json` | save, clear, load; `status` | one file for all runs of the CLI; pids; GET /sessions |
| Frame codec (`protocol.go`, `protocol.ts`) | none | encode, decode | the bytes of a WebSocket message |
| Start-up, configuration, web site, console output | | | not modelled, see below |

What is hard in it:

* The gateway shares the stream table between goroutines under a mutex, but sends
  to and closes channels outside it.
* Identifiers are reused as soon as a stream is released, while frames for the
  previous user may still be under way in both directions.
* One reader serves all streams of a tunnel and blocks on a full channel.
* Everything that ends a tunnel removes its registry entry by slug; a reconnect
  puts a second tunnel under the same slug while the first is still ending.
* The gateway knows a session's expiry from the upgrade only; the control plane's
  store may have moved on, or have been lost in a restart.
* `pingLoop` counts a PING only after it has been written, while the reader may have
  stored 0 for its PONG; the number of viewers is sent on change only, and the map it
  is counted in is cleaned up by whoever looks at it.
* In the CLI every socket has its own handlers, but `this.ws`, the heartbeat,
  the pending streams and the proxy are shared by all of them. The pending streams
  are kept by identifier alone, and every connection counts its identifiers from 2.
* All runs of the CLI share one session file, written in two system calls and removed
  by whoever ends first; `status` reads file, process table, control plane and clock
  one after the other.
* The overlay's handlers give way at their awaits: a copy or a close may be answered
  after another one, after a teardown, or never.

PROJECT.json lists each of these at its line under "hazards", with the properties
that are about it, or why there is none yet.

What makes each part correct:

* identifiers: only free and even ones are given out; a refusal means that none is free;
* multiplexing: an entry belongs to one request that is being served; each channel is
  closed once; frames reach the right request, complete and in order; requests end;
  a lost connection takes the tunnel down; nobody sends to a closed channel;
* registry: the newest tunnel is the one found; a dead one is not found; no request
  passes the check outside the time of the tunnel's session;
* control plane: a running session keeps its slug, an expired one gives it back;
* loops of a tunnel: one that answers is kept, one that is silent is closed, both loops
  end with their tunnel, and the numbers shown come to be the number of viewers;
* tunnel client: it comes back after a loss, makes no new connection while paused, comes
  to rest on one;
* local proxy: the local server gets exactly the request body; the answer is well formed,
  and goes to the visitor who asked;
* session file: it tells of the tunnel that runs; only a crash leaves it behind; "online"
  is said of a tunnel that is there;
* codec: each end reads what the other wrote; a message cut short is refused;
* panel: it stays in the window and comes back where it was; no label and no closing
  state outlives its reason; what is under way when it is removed comes to its end.

## Modules

```
FrameCodec               frames as bytes
StreamIdSpace            identifiers and their cyclic order
  StreamIds              AllocStream, one loop iteration per step, and FrameCodec
      -> StreamIdPool    what it implements: one step per call
      StreamIdsProofs
  Multiplex              the gateway's end of a tunnel;  MCMultiplex
  LocalProxy             the CLI's end: pending streams and calls, without the socket
    StreamExchange       Multiplex and LocalProxy on one connection;  MCStreamExchange
      StreamExchangeProofs    of Multiplex alone, then of both
    TunnelSockets        LocalProxy and a simpler gateway on several;  MCTunnelSockets
      TunnelSocketsProofs
ControlPlane             the session store;  ControlPlaneProofs
  GatewaySessions        the registry against the store;  MCGatewaySessions
      GatewaySessionsProofs
  SessionFile            p.json, several runs of the CLI, and status, against the store
      SessionFileProofs
TunnelLoops              pings, viewers and their number, beside the reader of a tunnel
  OverlayWidget          the same with the page that polls and closes
      OverlayWidgetProofs
OverlayPanel             the rest of the page's overlay;  OverlayPanelProofs
TunnelClient             connecting, reconnecting, pausing, heartbeat
```

**StreamIds.** `Enter`, `ProbeFree`, `ProbeTaken` and `Return` are the entry, the
two branches and the return of the loop at multiplex.go:13-49; `Release` is
`ReleaseStream` as the search sees it. The width of the type is the constant
`IdMod` (65536 in the code) and the addition of two wraps as uint16 does.
**StreamIdPool** has one step per call: it takes the nearest free identifier or
refuses when there is none.

**FrameCodec.** `Encode` is `EncodeFrame` and `encodeFrame`, which write the same;
`GoDecode` and `TsDecode` are the two decoders, which differ for a message shorter than
its length field says. A byte has `Base` values (256 in the code) and an identifier two
bytes, so `IdMod = Base * Base` where both are used.

**Multiplex.** A step is what a goroutine does between two points where another
can interfere: one critical section, one channel operation, one read or write of
the socket. `pc[r]` is where the goroutine of request r is (`AllocStream`,
`SendOpen`, `SendData`, `SendEnd`, `Receive`, then `ReleaseEntry`, `ReleaseDone`,
`ReleaseResp` for the deferred `ReleaseStream`), `rpc` where the reader is, `close`
how far `Close` has come. `DispatchToStream` is several actions: it looks the
stream up under the mutex (`GetStream`) and selects without it (`SelectDone`,
`SelectSend`, `SelectPark`, `SelectPanic`). Go evaluates a select with a closed
channel as ready: if `respCh` is closed, choosing the send is a panic, and
choosing `done`, closed at the same time, is not; the model has both outcomes.
`crash` records the panic. An allocation that can never end is the state "spin",
which keeps the mutex, so that no other request can allocate or release, and neither
the reader nor `Close` gets on. `resp[r]` is how the handler leaves its response:
"complete"; "failed", an error status; "cut", when the visitor could not be written to;
or "spoiled", an error after the response has begun. Of a spoiled response the visitor
gets what came, the error text behind it, and an ordinary end (proxy.go:73-75), because
the handler returns as after any other. So "complete" is the handler's view only.

**LocalProxy.** `OnOpen`, `OnData`, `OnEnd` and `OnRst` are `handleFrame` for the
stream frames; `Answered`, `Chunk`, `Finished` and `Failed` are the points of
`handleStream` between two awaits, each with the frame it sends (`HandleStream(r, t)`,
`AnswerFrame`). Several calls run side by side. Which socket a frame comes from and goes
to is up to the module that composes it.

**StreamExchange.** The conjunction of Multiplex and LocalProxy over `toCli` and `toGw`,
on a tunnel that stays up and that nobody closes: `Close` and the loss are in Multiplex.
The history variable `tainted` holds the requests whose identifier was given up before
its last frame had come, because the protocol has nothing to tell their frames apart.

**TunnelSockets.** One CLI and the connections it makes: `toCli[s]` and `toGw[s]` for
every connection s, a table `streams[s]` in the gateway for each, and one `pending` and
one `proxy` in the CLI for all. `Register` and `WriteAuthOK` are the two halves of the
upgrade, between which a request may already `Open`; `HandleAuthOK` and `Forgets` are
the message handler before the switch, `HandleStreamFrame` the one after it, with `via`
the socket that the call answers on. `Pause` is `pause()` and `stop()` while `this.ws`
is the socket s, authenticated or not: it clears the pending streams of every connection
and closes s, where frames still come until the other end has closed too.
`PauseUnlinked` is the same while `this.ws` is a socket that no frame comes from. The
gateway's half is reduced to what the CLI can tell: an exchange takes any free
identifier of the newest tunnel (where `nextID` is depends on exchanges long over), and
ends at any time. `Reset` is not in this gateway: the CLI handles a STREAM_RST, and
`Reset` is the gateway that would send it. `early` (opened before AUTH_OK was written)
and `crossed` (an upload that met one of another connection, or a pause that found
`this.ws` to be another connection's) are history variables.

**ControlPlane.** Each request handler is one step, as it awaits nothing between
its check and its write. A token is the number of its session. A Date outside its
range is `Invalid`, and comparisons with it are false. `lost` holds the sessions that
were deleted or that a restart forgot. A session notes how it got its slug: `drawn` is
one that `generateUniqueSlug` has returned without looking (slug.ts:44), and
`DrawnAway(k)` says that a later session has k's slug in this way.

**GatewaySessions.** `Upgrade`, `Set` and `AuthOK` are the parts of
`HandleTunnelUpgrade`; `ReaderEnds`, `ReaderUnregisters` and `ReaderCloses` the end
of `readTunnelLoop`; `LoopCloses` the `Close` of `pingLoop` and `viewerCountLoop`;
`Lookup`, `CheckExpiry`, `CloseExpired` and `Policy` a visitor up to the end of the
check, and `Forward` what comes after it, up to STREAM_OPEN, on a tunnel that may have
been closed or replaced by then. A visitor finds a tunnel by the host of its public URL
(`Found`), which `extractSlug` puts into lower case and refuses if there is a dot in the
slug; the function is a constant. `LookupToClose`, whose slug comes from the query as it
is, `ValidateClose`, `TellClosed`, `CloseByOverlay` and `UnregisterClosed` the handler of
POST /.stoat/close. `Close` is one step here. `newest` and `overlapped` are history
variables for the properties.

`ControlPlane!Get` is the answer of GET, and `ValidateSession` what the gateway makes
of it.

**TunnelLoops.** `PingWrites` and `PingCounts` are the two halves of an iteration of
`pingLoop`, between which `ReadPong` of the reader can fall; `PingStops` and
`PingGivesUp` its ends. A select whose ticker and Done are both ready may take either.
`CountTick` and `CountWrites` are the halves of an iteration of `viewerCountLoop`.
Instants are not modelled: `age[v]` is the time since the last request of a visitor,
up to the end of the window, and `tracked` the keys of `viewerLastSeen`, which only
`CleanUp` takes away. "stalled" is a connection that carries nothing any more, or a
reader that waits on a full channel for good; one that comes back is an answer that is
late. While the connection is up an answer is assumed to take less than two ticks
(50 seconds), which bounds `flight` and excuses no close: `AnsweringStays` asks for an
unanswered PING. A CLI that is paused sends GO_AWAY and closes its end (`Leave`, the
link is "left"); what it had sent before still comes. `Expire` is the clock at the
session's expiry and `CheckExpiry` the close by the first visitor after it, who is not
counted as a viewer.

**OverlayWidget.** Adds the page: `Ask` is a poll up to the handler's answer, `Show`
the arrival of the answer, in any order, `Lose` its loss; `Press` and `CloseAnswered`
the button and what becomes of it. The steps of `handleOverlayClose` are in
GatewaySessions; here they are one.

**TunnelClient.** One step is a callback of the event loop with the promise
continuations that run right after it. `sock` has the state of every socket,
`ws` is `this.ws`, `waits` counts the calls of `reconnect()` that are in their
backoff wait. From the ws library: `terminate()` or `close()` on a connecting
socket, and a refused connection, fire "error" and then "close"; `terminate()` on
an open one fires "close"; `send()` throws while connecting. Events that are
already in the event loop come before any timer of a second or more. `Reconnect(n,
...)` stands for n calls one after the other: a failure after `connect()` has
started makes two, one from the close handler and one from the rejected promise.

**SessionFile.** Runs of `stoat http` step from system call to system call: `OpenFile`
empties p.json, `WriteFile` writes it, over whatever another run has put there since
("torn" when that was longer and its end stays), or into a file without a name when
another run has removed it. `Exit` is any of the five orderly ends, `Crash` all others,
and `PidReused` gives the pid of a dead run to another process. `stoat status` is
`StatusLoads`, `StatusProbes`, `StatusAsks` and `StatusPrints`, with the other processes
between them. `status.over` and `status.gone` are history: the runs that were over, and
the sessions the control plane did not have, when the command began.
`touched` holds the runs whose file another run has touched.

**OverlayPanel.** A step is one callback of the page. One of the two coordinates is
modelled, as both are treated alike. `pos` is on the page, `state` in memory, `stored` in
`localStorage`, whose `setItem` may fail (`Store`) and which another tab may write
(`OtherTab`). `copying` and `closes` count promises under way, `copyTimers` and
`feedbackTimers` the timers that are set. The bar is narrower while its label is "Copied".

A definition called a slip in its comment is a plausible mistake in the
definition that follows it, and is used in nothing else: with it in place of that
definition, a property of the run fails. The list "mutants" in PROJECT.json has
them.

## Runs

| Run | Instance | What it shows |
|---|---|---|
| stream_ids | seven identifiers (`IdMod` 16), bytes of four values | the search is right at every start, table and wrap, refines the pool, and ends, but for one case (below); an identifier survives both codecs |
| multiplex | 2 requests, 2 identifiers, 2 frames (a response frame, GO_AWAY), channel of capacity 1, Close and loss | order behind a reader that parks, no channel closed twice, and liveness under fairness |
| stream_exchange | 2 requests, 1 identifier, a body frame and a response chunk each, nobody closes the tunnel | no cross-talk, a response complete only by its last frame, whole responses and uploads; where the panic can come from |
| tunnel_sockets | 2 connections, 2 requests, 2 identifiers each, a body frame | when bodies and answers can meet those of another connection; nothing is lost on a connection that stays alone |
| gateway_sessions | 1 tunnel, 1 visitor, 3 sessions on a short slug and a fallback, clock to 2, lifetimes 1 and one past the last date | what can take a slug in its time; how far gateway and control plane part between check and forwarding |
| gateway_registry | 2 tunnels, 1 closer, slugs "a" and "A", clock to 1 | dead tunnels leave, a lone tunnel is found by its host, expired sessions give their slug back |
| gateway_stale_delete | 2 tunnels | **violated**: the teardown of an old tunnel hides the new one |
| tunnel_client | 3 sockets, 2 waits, 2 faults, 2 keys | it comes back, holds a pause, notices silence |
| tunnel_client_settles | as before, 1 fault, no keys | **violated**: one silent connection is enough for endless reconnects |
| overlay_widget | 1 visitor, 2 polls under way, window 0 | an answering tunnel is closed for four reasons only, a silent one goes; the loops end; the numbers shown catch up |
| session_file | 2 runs of the CLI, 2 slugs, 2 sessions, clock to 1 | whose file it is, who leaves it behind, and what "online" is worth |
| overlay_panel | windows 5 and 9, a bar of 4 or 3, margins 2 and 1, 2 promises of each kind | the bar stays in its window and keeps its place; labels end; what is under way at teardown comes to its end |

Why the bounds are enough to see the interesting cases:

* One identifier (`IdMod` 4) makes every second request of stream_exchange a reuse, or
  a search of a full table. Two requests side by side on two identifiers are in
  tunnel_sockets for the CLI; for the gateway's end, ownership and closing are proved
  for any number of requests and identifiers (`StreamDiscipline`). The search is checked
  with seven identifiers, and proved for any number.
* The two requests of multiplex have an identifier each, and one may wait for its frame
  behind the reader that is parked on the other's; two frames fill the channel of one and
  leave nothing for the other, who must then end by its timer. No identifier
  is ever missing in this run; with `IdMod` 4 there is one for both, and the second
  request starts the search that never ends, which the two liveness properties except.
  The reader treats every response frame alike, so one type of them is enough
  (stream_exchange has the others, and their order), and GO_AWAY ends it. `InTurn`
  lets the requests come in the order of their numbers; they are interchangeable.
* In tunnel_sockets, `Unsettled` stops where nothing that the invariants read can change
  any more: every request is over, and its call has begun or never will. `TwoFirst`
  has the first identifier drawn be 2, as the two are interchangeable there.
* A `respCh` of capacity 1 (32 in the code) is full after one frame, so the reader
  parks with two. The proofs hold for every capacity.
* Two connections are the least that can share `pendingStreams`, and two requests the
  least that can meet there; `MaxBody` 1 is enough for a body to lack, or to have, a
  frame it should not. No response chunk: chunks take the same way as the first frame
  and the last, and are in stream_exchange.
* Two runs of `stoat http` are one that has the file and one that takes it over; the
  lifetimes 1 and 5 are a session that ends within the clock and one whose date is not
  one (500). The second slug is the one of five digits.
* The windows 5 and 9 are one too small for bar and margins, where they overlap, and one
  with room; two promises are the least that can be answered in the other order.
* The three sessions of gateway_sessions are one that takes the short slug, one that is
  given the fallback because of it, and a third that is given the fallback over the
  second. Its properties speak of one tunnel at a time, so there is one.
* The two tunnels of gateway_registry and gateway_stale_delete are the old and the new
  one of a reconnect. A third would only repeat the replacement. The slug "A" is one
  that the control plane takes and no host leads to.
* One visitor is enough to come, go and come back within and after the window (the
  counts are 0 and 1); with two polls one answer overtakes another. A window of 0 makes
  the next instant the end of it. `MaxFlight` 2 saturates:
  a third PING is unanswered only on a connection that carries nothing any more, where it
  makes no difference whether two or more are; `MaxWire` 1 makes a second VIEWER_COUNT wait.
* Three sockets hold two that displace each other and the one that replaces the
  first. `MaxWaits` saturates: two or more waiting calls are not told apart, which
  understates the growth of the chains, which double with every failed attempt.
* `MaxFaults`, `MaxKeys`, `MaxTime`, `MaxSessions`, `MaxPeerFrames`, `MaxBody`,
  `MaxChunks`, `MaxConns` and `MaxPromises` bound what the environment does.

Symmetry is declared only where no liveness property is checked. Runs with
`CHECK_DEADLOCK FALSE` are about systems that stop: all requests have been served,
the frames of the bounded peer are used up, the CLI has been quit, or every run of it
is over.

## Fairness

* Multiplex: every goroutine that can run does. The body of a request is bounded by
  `ReadTimeout`, a write to its visitor by `WriteTimeout` (gateway/main.go:43-50),
  the wait for a response by the sixty-second timer of `pipeResponseStream`. A write
  to the WebSocket is assumed to return; it has no deadline in the code
  (session.go:125). Arrivals, losses and closes are not fair.
* StreamIds: the loop iterates and returns. Calls and releases are not fair.
* TunnelSockets, SessionFile, OverlayPanel and StreamExchange: none; their properties are
  about what may not happen. `AnswerComes` is stated for the states in which nothing is
  under way any more.
* GatewaySessions: goroutines run, the reader sees that a connection is down, the ping
  loop closes a silent one. Connections, visitors and failures are not fair.
  In the control plane time passes and the cleanup interval fires.
* OverlayWidget: tickers fire, a select with Done ready takes it at some time, PONGs and
  VIEWER_COUNT frames arrive while the connection is up, and not every poll of the page
  is lost (strong fairness of `Show`). Visitors, time, losses, the button and a CLI
  that leaves are not fair; the two properties about the numbers shown speak of the time
  after visitors have stopped coming and going.
* TunnelClient: timers fire and events are delivered; an attempt to connect and an
  AUTH are answered one way or the other; a gateway whose pings on a socket stay
  unanswered closes it (`pingLoop`). Faults, keys, and AUTH_ERR are not fair. That an
  AUTH is answered is an assumption about the gateway: the client has no timer for it.

## What the violated runs show

1. `NewestIsReachable` (tunnel.go:122, :110, overlay.go:159). After a reconnect the
   reader of the old connection ends and deletes the slug, which is the new tunnel's
   entry by now. The CLI shows a working tunnel, and visitors get 404.
   `AloneIsReachable` and `DeadLeavesRegistry` are what does hold.
2. `Settles` (tunnel.ts:139, :186, :211). When the heartbeat finds a loss, `reconnect()`
   starts a wait and terminates the socket, whose close handler starts another. Both
   connect. PONG is sent on `this.ws` only, so the gateway closes the other socket
   after its unanswered pings, and that socket's close handler terminates the good one:
   two waits again. A failed attempt doubles in the same way. Together with 1, each
   round takes the slug out of the registry.

## What some of the passing runs show

Some properties hold with an exception that is a weakness of the code, and say exactly
how far it reaches:

* `SearchEnds` (multiplex.go:45). With the table full and the search starting at
  identifier 2, the increment after 0xFFFE gives 0, which is not `start`, and becomes
  2 only after that test. The loop goes round for ever with `streamsMu` held, where
  the code means to return "no stream IDs available". Every other search ends. In
  Multiplex this is the state "spin" (`AllocFull`), and `RequestsFinish` and
  `LossClosesTunnel` except it: while it lasts no request of the tunnel gives its
  stream back, and the reader and `Close` wait for the mutex.
* `PanicNeedsEarlyEnd`. The reader can hit a closed `respCh` and stop the gateway
  (multiplex.go:78). As long as nobody closes the tunnel, and with a CLI that answers
  properly, that is only in a race with a request that gave up before the last frame of
  its response, never with one that ended normally. A `Close` by another goroutine
  (`pingLoop`, `viewerCountLoop`, the expiry check, the overlay) between `GetStream` and
  the select is another way to the same panic, and needs no request that gives up; it is
  in Multiplex (`CloseOneResp`, `SelectPanic`), whose liveness properties allow the crash.
* `CompleteMeansEnd` and `CompleteIsWhole` are about what the handler takes for complete.
  When it gives up after the first bytes, `http.Error` (proxy.go:73-75) writes its text
  behind them and the handler returns, so that the visitor is given a well-formed
  response that ends too early ("spoiled").
* `CompleteIsWhole` and `OwnResponse` except `tainted` requests: those whose identifier
  was released before the previous response had ended, e.g. by the sixty-second timeout.
* `BodyWhole` and `AnswerGoesHome` (tunnel.ts:60, :173). `pendingStreams` survives a
  reconnect and is keyed by the identifier, which every `TunnelConn` counts from 2. A
  STREAM_DATA or STREAM_END of one connection can therefore meet the pending request of
  another, and a request that ends after a new AUTH_OK is answered over the new
  connection, where its identifier may be another visitor's. The two properties say that
  there is no other way: bodies mix only where frames of two connections did meet under
  one identifier, and a foreign answer comes only so, or from a request on the same
  connection that gave the identifier up.
* `AnswerComes`: a request opened between the registration and AUTH_OK (tunnel.go:95) is
  dropped by the CLI and ends in a timeout; no other is lost in the handshake. A pause
  clears `pendingStreams` whatever `this.ws` is (tunnel.ts:246), so a request whose
  connection is not the one that is closed then gets no answer either.
* `PauseHolds`: while the client is paused it makes no new connection. A second
  connection that is not `this.ws` (2 in the section above) is not closed by the
  pause and may stay.
* `KeptInTime`: a session that was neither deleted nor forgotten by a restart loses its
  slug in its time in one way, the last line of `generateUniqueSlug` (slug.ts:44), which
  returns a longer slug without looking whether it is in use.
* `ForwardedWhileValid`: at the check the session is in its time and has its slug. It
  may not have it if it was deleted, forgotten by a restart, or overwritten as above:
  nothing tells the gateway, which goes on to forward under the slug. Between the check
  and STREAM_OPEN (proxy.go:33-66) the session's time may run out, and then the slug may
  already be somebody else's.
* `AloneIsReachable`: a tunnel is found under its own slug, but not if the slug has
  capitals or a dot, which the control plane takes and the gateway's `extractSlug`
  (handler.go:64, :76) changes or refuses.
* `AnsweringStays`: a tunnel that answers is closed when its connection is lost, by the
  first visitor after its expiry (policy.go:42), after the GO_AWAY of a CLI that is paused
  (tunnel.go:145) and from the page. `pingLoop` closes none that has no PING unanswered,
  but one such PING may be enough, where two are meant.
* `QuietWhenGone`: a copy or a close that is answered after teardown still sets a timer on
  the removed overlay (overlay.ts:459-466, :494), once for each promise under way.
* `FileIsMine`: a second `stoat http` overwrites the file of the first, and when it ends
  it removes what is there, so that `stoat status` says "No active tunnel." of a first one
  that still runs. Nothing else takes the file away.
* `OnlineIsReal`: "online" can be said of a run that is over if its pid is in use again.

## Proofs

TLAPS checks, for all values of the constants:

* `StreamIdsProofs!TypeCorrect`: types of the search, including that `nextID` stays
  even and in range.
* `StreamIdsProofs!RefusalsAreJustified`, `IdsSurvive` and `LoopImplementsPool`: from
  the invariant `IInv`. `IdsSurvive` adds the codec to it. `RefusedOnlyWhenFull` is not
  inductive, as nothing in it speaks of the loop; `Scanned` adds that everything between
  the start and the current candidate is taken. Two lemmas about the cyclic order
  (`StepAhead`, `LastAhead`) carry it over an iteration and over the wrap. The
  implementation theorem shows that an iteration that goes on is a stutter of the pool,
  one that finds a free identifier is `Take`, one that comes back to the start is
  `Refuse`.
* `StreamIdsProofs!RoundTrip` and `CutIsRefused`: what either end encodes both decode,
  for any payload whose length fits into four bytes, and the gateway takes no proper
  beginning of it. They rest on the division of a number into two digits (`TwoBytes`) and
  of each of these into two again (`FourBytes`).
* `StreamExchangeProofs!TypeCorrect`: types of the gateway's end (`Spec` of Multiplex,
  with any behaviour of the other end), split by groups of variables, one lemma for each
  group. The next two items are about that specification too.
* `StreamExchangeProofs!StreamDiscipline` and `NoDoubleClose`: `EntryHasOwner`,
  `EntriesAreOpen`, `ClosedByOne` and `NeverClosedTwice`. `NeverClosedTwice` alone is
  not inductive: whether a close is the second depends on which goroutine still has the
  duty to close, which is what `ClosedByOne` says, and that depends on who owns the
  entries of the table. The four together are inductive with the types (`Discipline`).
  Most steps touch none of what they speak about (`QuietStep`); each of the others has a
  lemma.
* `StreamExchangeProofs!FramesInOrder` and `CompleteByEnd`: `DeliveredInOrder` follows
  from `Order`: the frames of a request are older than the one the reader holds, and
  that one older than the one on the wire (`OldAndNew`), and a stream that was found in
  the table has the identifier of the frame (`FoundById`), which needs `Discipline`.
  `CompleteMeansEnd` (the handler's view, see above) follows from `Answers`: until its
  handler has taken the end of a response, a request has been given nothing that ends
  one.
* `StreamExchangeProofs!WholeUpload`, `OwnFramesOnly`, `WholeResponse` and
  `PanicOnlyEarly`: from `ExchangeInvariant`, which has four parts beside the types. The
  frames of a request under way to the CLI, and what has been put together of it there,
  are its body up to where its goroutine is (`Upload`, `UploadDone`). A frame under way to
  the gateway, in the reader's hand or given to a request is one that its owner's call
  has sent, under the owner's identifier, and comes after the earlier ones (`Answering`).
  A request that is not tainted is given only what is its own, the end of its response
  last, and whoever had its identifier before has nothing under way any more (`Clean`).
  What it has been given, what the reader holds and what is on the wire are all that the
  call has sent (`NoGap`). None of the four properties speaks of the channels between
  the two ends, so none is inductive. In this specification nobody closes the tunnel.
* `TunnelSocketsProofs!TypeCorrect` and `WholeBody`, from `SocketInv`. `BodyWhole` speaks
  of what the local server has been given, so what is on its way must be known: the
  frames of a request are on its own connection only, in turn, and without a gap behind
  an OPEN, whose request has no call yet (`InFlight`); what has been put together of it is
  its body up to the next frame that comes, unless its upload met another (`Waiting`);
  and a request that comes after it under its identifier on the same connection begins
  with an OPEN that lies behind, and the first one has been given up by then (`Later`).
  Frames of two connections meet only where `crossed` notes it. A loss takes
  all that is on its connection, and a frame that is forgotten before AUTH_OK is of a
  request that nothing is pending for, so neither leaves a gap. A pause takes what is pending of
  every connection; only the one it closes brings nothing more, so `crossed` notes the
  others.
* `TunnelSocketsProofs!AnswersGoHome`, from `SocketInv` and `Replies`: a frame on its way
  back is on the socket its call answers on, under the identifier of its request, and is
  the last of its call if it ends it (`OnItsWay`); when the end of an answer has come home,
  nothing of it is under way any more (`AllCame`).
* `TunnelSocketsProofs!AnswersCome`, from these and `Coming`: as long as the first connection
  is up and the only one, AUTH_OK comes before the frames of the requests that were
  not early, a request that is being served is in `pendingStreams` or its OPEN is on its
  way, with its END behind when that has been sent, and the end of its answer is on its
  way or there when the call is over. That nobody takes its place in `pendingStreams`
  is `Later` again, and that a pause does not clear it without closing its connection or
  a note in `crossed` is `ComingClears`.
* `GatewaySessionsProofs!SlugIsKept`: `KeptInTime`, from the types of the control plane,
  by the lemmas of ControlPlaneProofs.
  A POST stores under a slug only where nothing is stored, or a slug that was drawn
  unchecked, which the session then has on record (`CreateKeeps`); every other step takes
  away only what is past or noted as lost (`TakingKeeps`); and what is past stays past.
  So the one exception of the theorem is the fallback of slug.ts:44.
* `GatewaySessionsProofs!AloneStaysReachable`, from `AloneIsLeft`: while the newest tunnel
  of a slug has not overlapped with another, no other tunnel of that slug is past its
  validation, and a closer that can still delete the slug holds this tunnel, which is
  closed when he does (`NobodyElse`). That its host leads to it is `WhatIsFound`, for the
  slugs that `extractSlug` leaves as they are.
* `GatewaySessionsProofs!ForwardedInTime`, from `KnowsSession` (the expiry a tunnel has is
  that of its session, wherever the store has gone) and `KeptInTime`: what it has at the
  check it can have lost at the forwarding only by one of the exceptions or by the time.
* `OverlayWidgetProofs!TypeCorrect` and `AnsweringTunnelStays`, from `IInv`. The other
  closers are read off the actions; that `pingLoop` needs an unanswered PING follows
  from `Counted`: `missedPongs` exceeds the number of PINGs in flight by at most one,
  and by none between a write and its counting. The one is the PONG that was read before
  its PING was counted, so that two missed PONGs on the counter can be one unanswered
  PING.
* `SessionFileProofs!FileStaysMine` and `OrderlyEndClears`, from `FileInv`. Neither is
  inductive: a run that is about to write must have the empty file open unless another
  has touched it (`WriterHasFile`).
* `SessionFileProofs!OnlineWasThere`, from `StatusInv`: what `status` has found is true of
  the time at which it began (`StatusTrue`), and the control plane never again stores a
  session that has gone from it, however it went (`GoneStaysGone`).
* `OverlayPanelProofs`: `BarStaysInWindow` from the bounds of `Placed` and of a drag
  (`PlacedBounds`, `DraggedBounds`); `PlaceIsKept` from `Remembered`, which says how the
  place in memory and the one on the page belong together between a drag and a resize, and from
  the fact that placing a placed bar changes nothing (`PlacedAgain`); `LabelsEnd`,
  `ClosingWaits` and `GoneIsQuiet` by cases over the callbacks. For the last, `StillToCome`
  counts two calls for a promise under way and one for a timer, and every callback of a
  removed overlay lowers it.

The assumptions are those the modules state about their constants: `IdMod` even and at
least 4, `None` not a request, nor a slug where slugs are found by hosts (`extractSlug`
gives a slug or `None`), `QCap` at least 1, natural bounds, finitely many visitors; a
byte of at least two values; `IdMod = Base * Base`; no run of the CLI named like a state
of the file; in StreamExchange, that `Bodies` holds the numbered frames of every
response, and there and in TunnelSockets that no pending stream is `None`; widths and
margins natural, and a widest window.

Only model-checked: everything else. Liveness under fairness, `SearchEnds` among it, is
outside what TLAPS can do; so is induction over data. `PauseHolds` of TunnelClient is
within its reach and not proved: it needs no invariant, as every callback looks at
`paused` itself.

## Not modelled

* Durations: a timer may fire at any time after it has been set, except where stated.
  So the 30-second `WriteTimeout` against the 60-second wait is not in a model, nor how
  often the heartbeat beats when `start()` has overwritten a timer that still runs
  (heartbeat.ts:26).
* The token bucket of the rate limiter (a library), header translation, insertion of the
  overlay script into HTML (packages/overlay/src/middleware.ts), configuration, console
  output, the search for a clipboard program, styles and markup of the overlay, the web
  site.
* JSON in payloads and files is a value that is whole or not ("torn"), never text.
* A GO_AWAY that does not reach a client which is reconnecting: TunnelClient and
  GatewaySessions are not composed. The client then tries again with a session that is
  over and is answered AUTH_ERR, which TunnelClient has.
* A WebSocket write that never returns (session.go:125).

## How it has grown

StreamIdSpace, StreamIds, StreamIdPool and their proofs; Multiplex and its proofs;
LocalProxy; StreamExchange; ControlPlane; GatewaySessions; TunnelClient; TunnelLoops and
OverlayWidget with their proofs; SessionFile, FrameCodec and OverlayPanel with theirs;
TunnelSockets.

Next would be: TunnelClient joined to GatewaySessions (GO_AWAY lost, a session that is
over), and a proof of `PauseHolds` for any number of sockets.
