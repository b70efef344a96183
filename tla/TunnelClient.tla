---------------------------- MODULE TunnelClient ----------------------------
(***************************************************************************)
(* The tunnel of a running `stoat http`: connecting, coming back after a   *)
(* loss, pausing and the heartbeat (packages/cli/src/tunnel.ts,            *)
(* heartbeat.ts, interactive.ts and commands/http.ts).                     *)
(*                                                                         *)
(* TunnelClient keeps ONE reference to a WebSocket, this.ws, but nothing   *)
(* keeps it from having several: every socket has its own "close" handler, *)
(* and every call of reconnect() waits on a timer of its own before it     *)
(* connects.  A step is one callback of the event loop with the promise    *)
(* continuations that run right after it.                                  *)
(***************************************************************************)
EXTENDS Naturals, FiniteSets

CONSTANTS
  Sockets,   \* WebSockets that can exist at one time
  None,
  MaxWaits,  \* reconnect() calls in their backoff wait; more are not told apart
  MaxFaults, \* faults of the network, the gateway or the control plane
  MaxKeys    \* presses of R and P

ASSUME TunnelClientAssumption ==
  /\ None \notin Sockets /\ Sockets # {}
  /\ MaxWaits \in Nat \ {0} /\ MaxFaults \in Nat /\ MaxKeys \in Nat

VARIABLES
  sock,    \* what each socket is at
  ws,      \* this.ws
  first,   \* the socket of http.ts's own connect(), while that is not settled
  waits,   \* reconnect() calls in their backoff wait
  mode,    \* "starting", "running", "paused" or "exited"
  ready,   \* interactive.start() has been called: keys are read
  hb,      \* HeartbeatManager.ws
  missed,  \* HeartbeatManager.missedPongs
  silent,  \* sockets through which nothing comes any more
  faults,
  keys

vars == <<sock, ws, first, waits, mode, ready, hb, missed, silent, faults, keys>>

MaxMissed == 2

(* "connecting", then "open" (AUTH sent) and "authed".  After close() a socket
   waits for the other end, or 30 seconds: "parting", or "leaving" when the
   answer to AUTH may still come.  After terminate(), or the end of the
   connection, its events are in the event loop: "closing" when that is "close",
   "failing" when it is "error" and "close". *)
SockStates == {"free", "connecting", "open", "authed",
               "leaving", "parting", "closing", "failing"}

\* Events in the event loop come before a timer of a second or more.
Pending == {s \in Sockets : sock[s] \in {"closing", "failing"}}

TypeOK ==
  /\ sock \in [Sockets -> SockStates]
  /\ ws \in Sockets /\ first \in Sockets \cup {None}
  /\ first # None => sock[first] # "authed" /\ ~ready
  /\ waits \in 0..MaxWaits
  /\ mode \in {"starting", "running", "paused", "exited"}
  /\ ready \in BOOLEAN
  /\ hb \in Sockets \cup {None}
  /\ hb # None => sock[hb] \in {"authed", "parting", "closing"}
  /\ missed \in 0..MaxMissed + 1
  /\ silent \subseteq {s \in Sockets : sock[s] # "free"}
  /\ faults \in 0..MaxFaults /\ keys \in 0..MaxKeys

Init ==
  /\ ws \in Sockets
  /\ sock = [s \in Sockets |-> "free"]
  /\ first = None
  /\ waits = 0 /\ mode = "starting" /\ ready = FALSE
  /\ hb = None /\ missed = 0 /\ silent = {}
  /\ faults = 0 /\ keys = 0

-----------------------------------------------------------------------------
\* What the handlers are made of.

\* ws.terminate() and ws.close() on a socket in state x.
Terminated(x) ==
  CASE x = "connecting" -> "failing"
    [] x \in {"open", "authed", "leaving", "parting"} -> "closing"
    [] OTHER -> x

Closed(x) ==
  CASE x = "connecting" -> "failing"
    [] x = "open" -> "leaving"
    [] x = "authed" -> "parting"
    [] OTHER -> x

(* n calls of reconnect(), one after the other, when the sockets are in the
   states so: unless stopped or paused, each terminates this.ws and starts a
   wait. *)
Reconnect(n, so) ==
  IF mode = "running" /\ n > 0
  THEN /\ sock' = [so EXCEPT ![ws] = Terminated(@)]
       /\ waits' = IF waits + n > MaxWaits THEN MaxWaits ELSE waits + n
  ELSE sock' = so /\ UNCHANGED waits

\* process.exit takes every socket and timer along.
Exit ==
  /\ mode' = "exited"
  /\ sock' = [s \in Sockets |-> "free"]
  /\ waits' = 0 /\ hb' = None /\ silent' = {} /\ first' = None
  /\ UNCHANGED <<ws, ready, missed, faults, keys>>

Fault == faults < MaxFaults /\ faults' = faults + 1

-----------------------------------------------------------------------------
\* httpCommand: the control plane is asked for a session, and http.ts connects; or
\* the control plane refuses or cannot be reached.
Start ==
  /\ mode = "starting"
  /\ \/ /\ mode' = "running"
        /\ first' = ws
        /\ sock' = [sock EXCEPT ![ws] = "connecting"]
        /\ UNCHANGED <<ws, waits, ready, hb, missed, silent, faults, keys>>
     \/ Exit

\* connect().

Opens(s) ==
  /\ sock[s] = "connecting"
  /\ sock' = [sock EXCEPT ![s] = "open"]
  /\ UNCHANGED <<ws, first, waits, mode, ready, hb, missed, silent, faults, keys>>

(* AUTH_OK: heartbeat.start(ws), whatever socket this.ws is by now, and the
   promise resolves; for the first one http.ts goes on to interactive.start(). *)
AuthOK(s) ==
  /\ sock[s] \in {"open", "leaving"}
  /\ sock' = [sock EXCEPT ![s] = IF @ = "open" THEN "authed" ELSE "parting"]
  /\ hb' = s /\ missed' = 0
  /\ first' = IF first = s THEN None ELSE first
  /\ ready' = (ready \/ first = s)
  /\ UNCHANGED <<ws, waits, mode, silent, faults, keys>>

(* AUTH_ERR: ws.close() and a rejection, which http.ts answers with
   process.exit(1) and reconnect() with another reconnect(). *)
AuthErr(s) ==
  /\ sock[s] \in {"open", "leaving"} /\ faults < MaxFaults
  /\ IF first = s
     THEN Exit
     ELSE /\ Reconnect(1, [sock EXCEPT ![s] = "parting"])
          /\ hb' = IF mode = "running" THEN None ELSE hb
          /\ faults' = faults + 1
          /\ UNCHANGED <<ws, first, mode, ready, missed, silent, keys>>

\* A slip: nobody reconnects.
CloseEventUnheard(s) ==
  /\ sock[s] \in {"leaving", "parting", "closing"}
  /\ sock' = [sock EXCEPT ![s] = "free"]
  /\ hb' = None
  /\ silent' = silent \ {s}
  /\ first' = IF first = s THEN None ELSE first
  /\ UNCHANGED <<ws, waits, mode, ready, missed, faults, keys>>

\* The "close" event of a socket that had been open: heartbeat.stop(), reconnect().
CloseEvent(s) ==
  /\ sock[s] \in {"leaving", "parting", "closing"}
  /\ Reconnect(1, [sock EXCEPT ![s] = "free"])
  /\ hb' = None
  /\ silent' = silent \ {s}
  /\ first' = IF first = s THEN None ELSE first
  /\ UNCHANGED <<ws, mode, ready, missed, faults, keys>>

(* "error" and "close" of a socket that never opened: the close handler
   reconnects, and so does the catch of the reconnect() that waits for it. *)
FailEvent(s) ==
  /\ sock[s] = "failing"
  /\ IF first = s
     THEN Exit
     ELSE /\ Reconnect(2, [sock EXCEPT ![s] = "free"])
          /\ hb' = None
          /\ silent' = silent \ {s}
          /\ UNCHANGED <<ws, first, mode, ready, missed, faults, keys>>

\* A slip: the wait ends without a second look at paused.
TimerFiresUnchecked ==
  /\ waits > 0 /\ Pending = {}
  /\ waits' = waits - 1
  /\ \E s \in Sockets :
       /\ sock[s] = "free"
       /\ sock' = [sock EXCEPT ![s] = "connecting"]
       /\ ws' = s
  /\ UNCHANGED <<first, mode, ready, hb, missed, silent, faults, keys>>

(* The end of a backoff wait: stopped and paused are read again, then
   connect() puts a new socket into this.ws. *)
TimerFires ==
  /\ waits > 0 /\ Pending = {}
  /\ waits' = waits - 1
  /\ IF mode = "running"
     THEN \E s \in Sockets :
            /\ sock[s] = "free"
            /\ sock' = [sock EXCEPT ![s] = "connecting"]
            /\ ws' = s
     ELSE UNCHANGED <<sock, ws>>
  /\ UNCHANGED <<first, mode, ready, hb, missed, silent, faults, keys>>

-----------------------------------------------------------------------------
\* Keys and messages of the tunnel.

KeyR ==
  /\ ready /\ mode = "running" /\ keys < MaxKeys
  /\ keys' = keys + 1
  /\ Reconnect(1, sock)
  /\ hb' = None
  /\ UNCHANGED <<ws, first, mode, ready, missed, silent, faults>>

Pause ==
  /\ ready /\ mode = "running" /\ keys < MaxKeys
  /\ keys' = keys + 1
  /\ mode' = "paused"
  /\ hb' = None
  /\ sock' = [sock EXCEPT ![ws] = Closed(@)]
  /\ UNCHANGED <<ws, first, waits, ready, missed, silent, faults>>

Resume ==
  /\ ready /\ mode = "paused" /\ keys < MaxKeys
  /\ keys' = keys + 1
  /\ mode' = "running"
  /\ sock' = [sock EXCEPT ![ws] = Terminated(@)]
  /\ waits' = IF waits < MaxWaits THEN waits + 1 ELSE waits
  /\ hb' = None
  /\ UNCHANGED <<ws, first, ready, missed, silent, faults>>

\* The key P.  (InteractiveMode keeps a paused of its own, which is always this one's.)
TogglePause == Pause \/ Resume

\* Q, Ctrl+C, SIGTERM, or GO_AWAY because of the expiry or of the overlay.
Quit == mode \in {"running", "paused"} /\ Exit

(* PING is answered on this.ws.  While that is connecting, send() throws in an
   async function nobody waits for, which ends the process.  Otherwise a
   gateway whose PINGs on s stay unanswered closes s. *)
PongThrows(s) ==
  /\ sock[s] = "authed" /\ s \notin silent
  /\ sock[ws] = "connecting"
  /\ Exit

GatewayDrops(s) ==
  /\ sock[s] = "authed" /\ s \notin silent /\ s # ws
  /\ sock' = [sock EXCEPT ![s] = "closing"]
  /\ UNCHANGED <<ws, first, waits, mode, ready, hb, missed, silent, faults, keys>>

\* A slip: the counter starts again with every PING.
BeatReset ==
  /\ hb # None /\ Pending = {} /\ (hb \in silent \/ sock[hb] # "authed")
  /\ missed' = 1
  /\ UNCHANGED <<sock, waits, hb, ws, first, mode, ready, silent, faults, keys>>

(* HeartbeatManager.sendPing on a socket that gives no PONG back; one that
   does has missedPongs at 0 again before the next. *)
Beat ==
  /\ hb # None /\ Pending = {} /\ (hb \in silent \/ sock[hb] # "authed")
  /\ missed' = IF missed > MaxMissed THEN missed ELSE missed + 1
  /\ IF missed >= MaxMissed
     THEN /\ Reconnect(1, sock)
          /\ hb' = IF mode = "running" THEN None ELSE hb
     ELSE UNCHANGED <<sock, waits, hb>>
  /\ UNCHANGED <<ws, first, mode, ready, silent, faults, keys>>

-----------------------------------------------------------------------------
\* The network.

\* The gateway cannot be reached.
Refuses(s) ==
  /\ sock[s] = "connecting" /\ Fault
  /\ sock' = [sock EXCEPT ![s] = "failing"]
  /\ UNCHANGED <<ws, first, waits, mode, ready, hb, missed, silent, keys>>

\* The connection ends.
Breaks(s) ==
  /\ sock[s] \in {"open", "authed"} /\ Fault
  /\ sock' = [sock EXCEPT ![s] = "closing"]
  /\ UNCHANGED <<ws, first, waits, mode, ready, hb, missed, silent, keys>>

\* The connection says nothing more, and may come back.
Stalls(s) ==
  /\ sock[s] = "authed" /\ s \notin silent /\ Fault
  /\ silent' = silent \cup {s}
  /\ UNCHANGED <<sock, ws, first, waits, mode, ready, hb, missed, keys>>

Recovers(s) ==
  /\ s \in silent /\ sock[s] = "authed"
  /\ silent' = silent \ {s}
  /\ missed' = IF hb = s THEN 0 ELSE missed
  /\ UNCHANGED <<sock, ws, first, waits, mode, ready, hb, faults, keys>>

Events(s) == Opens(s) \/ AuthOK(s) \/ AuthErr(s) \/ CloseEvent(s) \/ FailEvent(s)
Network(s) == Refuses(s) \/ Breaks(s) \/ Stalls(s) \/ Recovers(s) \/ GatewayDrops(s)

Next ==
  \/ \E s \in Sockets : Events(s) \/ Network(s) \/ PongThrows(s)
  \/ Start \/ TimerFires \/ Beat
  \/ KeyR \/ TogglePause \/ Quit

(* Timers fire and events are delivered; an attempt to connect and an AUTH are
   answered one way or the other; the gateway's own ping loop runs. *)
Fairness ==
  /\ WF_vars(TimerFires) /\ WF_vars(Beat)
  /\ \A s \in Sockets :
       /\ WF_vars(Opens(s) \/ Refuses(s))
       /\ WF_vars(AuthOK(s) \/ AuthErr(s))
       /\ WF_vars(CloseEvent(s) \/ FailEvent(s))
       /\ WF_vars(GatewayDrops(s))

FairSpec == Init /\ [][Next]_vars /\ Fairness

-----------------------------------------------------------------------------
\* Properties.

(* However the close handlers, rejected promises, keys and timers of several
   sockets interleave, a client that is neither paused nor ended is always on
   its way back to a connection: after any number of connection failures, AUTH
   rejections and heartbeat losses there is an authenticated socket again. *)
ComesBack ==
  (mode = "running") ~> (mode # "running" \/ \E s \in Sockets : sock[s] = "authed")

(* A pause holds against everything that was under way when P was pressed: a
   backoff wait that ends, a close event, a rejected promise or a heartbeat that
   is missed makes no connection attempt. *)
PauseHolds ==
  [][mode = "paused" =>
       \A s \in Sockets : sock[s] = "free" => sock'[s] = "free"]_vars

(* A tunnel that has gone silent is noticed, although the heartbeat may be
   watching another socket than this.ws or have been stopped by the close event
   of an old one: it recovers, or the client gives it up. *)
SilenceNoticed ==
  \A s \in Sockets :
    (ws = s /\ s \in silent /\ sock[s] = "authed")
      ~> ~(ws = s /\ s \in silent /\ sock[s] = "authed")

Live == {s \in Sockets : sock[s] \in {"connecting", "open", "authed"}}

\* types.ts, ConnectionState: connecting, connected or reconnecting, and one of them.
OneState == Cardinality(Live) + waits <= 1

(* After the last fault and the last key the client ends up in one state, as
   ConnectionState has it and as the console says with "Reconnected".  It does
   not: a loss that the heartbeat finds, like an attempt that fails, starts two
   reconnect() calls, and the two sockets they make never come to rest, because
   PONG goes out on one of them only. *)
Settles == <>[](mode # "running" \/ OneState)
=============================================================================
