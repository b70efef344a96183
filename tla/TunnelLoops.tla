----------------------------- MODULE TunnelLoops -----------------------------
(***************************************************************************)
(* The two loops that run beside the reader of a tunnel                    *)
(* (gateway/internal/edge/tunnel.go, session.go): pingLoop counts          *)
(* unanswered PINGs, viewerCountLoop tells the CLI how many visitors the   *)
(* last thirty seconds had, which the CLI shows.                           *)
(*                                                                         *)
(* Instants are left out: a loop's ticker may fire at any time, and of a   *)
(* visitor only the time since the last request matters, and that only up  *)
(* to the end of the window.                                               *)
(***************************************************************************)
EXTENDS Integers, Sequences, FiniteSets

CONSTANTS
  Viewers,    \* values of viewerKey: address and user agent
  Window,     \* viewerActiveWindow
  MaxFlight,  \* PINGs without an answer; more are not told apart
  MaxWire     \* VIEWER_COUNT frames the connection takes before a write waits

ASSUME TunnelLoopsAssumption ==
  IsFiniteSet(Viewers) /\ Window \in Nat /\ MaxFlight \in Nat \ {0} /\ MaxWire \in Nat \ {0}

VARIABLES
  closed,   \* TunnelConn.closed: Close has run
  link,     \* the connection: "up", "left" (the CLI has been paused: it has sent
            \* GO_AWAY and closes its end), "stalled" (or the reader is, on a full
            \* channel), "down"
  expired,  \* ExpiresAt has come
  missed,   \* missedPongs
  flight,   \* PINGs written whose PONG has not been read
  ping,     \* pingLoop: "wait", "written" or "gone"
  age,      \* time since a visitor's last request, Window + 1 for longer or never
  tracked,  \* the keys of viewerLastSeen
  count,    \* viewerCountLoop: "wait", "changed" or "gone"
  last,     \* its variable of that name
  wire,     \* VIEWER_COUNT frames under way
  shown     \* what the CLI shows

linkVars   == <<closed, link, expired>>
pingVars   == <<missed, flight, ping>>
viewerVars == <<age, tracked>>
countVars  == <<count, last, wire, shown>>
loopVars   == <<linkVars, pingVars, viewerVars, countVars>>

Numbers == 0..Cardinality(Viewers)

LoopsTypeOK ==
  /\ closed \in BOOLEAN /\ link \in {"up", "left", "stalled", "down"}
  /\ expired \in BOOLEAN
  /\ missed \in 0..2 /\ flight \in 0..MaxFlight /\ ping \in {"wait", "written", "gone"}
  /\ age \in [Viewers -> 0..Window + 1] /\ tracked \subseteq Viewers
  /\ count \in {"wait", "changed", "gone"} /\ last \in Numbers \cup {-1}
  /\ wire \in Seq(Numbers) /\ Len(wire) <= MaxWire /\ shown \in Numbers

LoopsInit ==
  /\ closed = FALSE /\ link = "up" /\ expired = FALSE
  /\ missed = 0 /\ flight = 0 /\ ping = "wait"
  /\ age = [v \in Viewers |-> Window + 1] /\ tracked = {}
  /\ count = "wait" /\ last = -1 /\ wire = <<>> /\ shown = 0

\* WriteFrame goes through.
Writable == ~closed /\ link # "down"

\* What has been sent arrives.
Carries == link \in {"up", "left"}

\* Close takes the connection with it.
Close == closed' = TRUE /\ link' = "down" /\ UNCHANGED expired

-----------------------------------------------------------------------------
\* The connection and the reader.

Stall ==
  /\ ~closed /\ Carries
  /\ link' = "stalled"
  /\ UNCHANGED <<closed, expired, pingVars, viewerVars, countVars>>

Break ==
  /\ ~closed /\ link # "down"
  /\ link' = "down"
  /\ UNCHANGED <<closed, expired, pingVars, viewerVars, countVars>>

\* pause() of the CLI: sendGoAway and close.
Leave ==
  /\ ~closed /\ link = "up"
  /\ link' = "left"
  /\ UNCHANGED <<closed, expired, pingVars, viewerVars, countVars>>

\* The end of readTunnelLoop: a read that fails, or the CLI's GO_AWAY.
ReaderCloses ==
  /\ link \in {"down", "left"} /\ ~closed
  /\ Close
  /\ UNCHANGED <<pingVars, viewerVars, countVars>>

\* The reader gets a PONG: the CLI answers every PING while it is there.
ReadPong ==
  /\ flight > 0 /\ Carries /\ ~closed
  /\ flight' = flight - 1
  /\ missed' = 0
  /\ UNCHANGED <<linkVars, ping, viewerVars, countVars>>

-----------------------------------------------------------------------------
\* pingLoop.  Its select may take the ticker or Done when both are ready.

\* Slips: one PING may not be unanswered; more than two may.
TooManyAtOne == missed >= 1
TooManyAtThree == missed >= 3

TooMany == missed >= 2

PingStops ==
  /\ ping = "wait" /\ closed
  /\ ping' = "gone"
  /\ UNCHANGED <<linkVars, missed, flight, viewerVars, countVars>>

PingGivesUp ==
  /\ ping = "wait" /\ (TooMany \/ ~Writable)
  /\ ping' = "gone"
  /\ Close
  /\ UNCHANGED <<missed, flight, viewerVars, countVars>>

\* While the connection is up, an answer takes less than two ticks.
PingWrites ==
  /\ ping = "wait" /\ ~TooMany /\ Writable
  /\ link = "up" => flight < 2
  /\ ping' = "written"
  /\ flight' = IF flight < MaxFlight THEN flight + 1 ELSE flight
  /\ UNCHANGED <<linkVars, missed, viewerVars, countVars>>

\* A slip: the counter is set where it is to be increased.
PingSets ==
  /\ ping = "written"
  /\ ping' = "wait"
  /\ missed' = 1
  /\ UNCHANGED <<linkVars, flight, viewerVars, countVars>>

\* missedPongs.Add(1), after the write: the PONG may have been read in between.
PingCounts ==
  /\ ping = "written"
  /\ ping' = "wait"
  /\ missed' = missed + 1
  /\ UNCHANGED <<linkVars, flight, viewerVars, countVars>>

PingLoop == PingStops \/ PingGivesUp \/ PingWrites \/ PingCounts

-----------------------------------------------------------------------------
\* Visitors and viewerCountLoop.

\* A slip: nobody is ever forgotten.
KeepAll(S, since) == S

\* What cleanupAndCountViewersLocked leaves of the map.
CleanUp(S, since) == {v \in S : since[v] <= Window}

Expire ==
  /\ ~closed /\ ~expired
  /\ expired' = TRUE
  /\ UNCHANGED <<closed, link, pingVars, viewerVars, countVars>>

\* A visitor who comes too late, whether or not the CLI answers: CheckExpiry.
CheckExpiry ==
  /\ expired /\ ~closed
  /\ Close
  /\ UNCHANGED <<pingVars, viewerVars, countVars>>

\* ProxyRequest, once the policy has let the request pass: TouchViewer.
Visit(v) ==
  /\ ~closed /\ ~expired
  /\ age' = [age EXCEPT ![v] = 0]
  /\ tracked' = CleanUp(tracked \cup {v}, age')
  /\ UNCHANGED <<linkVars, pingVars, countVars>>

Elapse ==
  /\ ~closed /\ \E v \in Viewers : age[v] <= Window
  /\ age' = [v \in Viewers |-> IF age[v] <= Window THEN age[v] + 1 ELSE age[v]]
  /\ UNCHANGED <<linkVars, pingVars, tracked, countVars>>

\* ViewerCount(), which is the size of the map that CleanUp leaves.
ViewerCount == Cardinality(CleanUp(tracked, age))

\* A slip: only the writes notice that the tunnel is closed.
CountNeverStops == FALSE

CountStops ==
  /\ count = "wait" /\ closed
  /\ count' = "gone"
  /\ UNCHANGED <<linkVars, pingVars, viewerVars, last, wire, shown>>

\* A tick: nothing more happens when the count is that of the last time.
CountTick ==
  /\ count = "wait"
  /\ tracked' = CleanUp(tracked, age)
  /\ last' = ViewerCount
  /\ count' = IF ViewerCount = last THEN "wait" ELSE "changed"
  /\ UNCHANGED <<linkVars, pingVars, age, wire, shown>>

CountWrites ==
  /\ count = "changed" /\ Writable /\ Len(wire) < MaxWire
  /\ count' = "wait"
  /\ wire' = Append(wire, last)
  /\ UNCHANGED <<linkVars, pingVars, viewerVars, last, shown>>

CountFails ==
  /\ count = "changed" /\ ~Writable
  /\ count' = "gone"
  /\ Close
  /\ UNCHANGED <<pingVars, viewerVars, last, wire, shown>>

\* The CLI's handleFrame.
ShowCount ==
  /\ wire # <<>> /\ Carries /\ ~closed
  /\ shown' = Head(wire)
  /\ wire' = Tail(wire)
  /\ UNCHANGED <<linkVars, pingVars, viewerVars, count, last>>

-----------------------------------------------------------------------------
LoopsNext ==
  \/ Stall \/ Break \/ Leave \/ ReaderCloses \/ ReadPong
  \/ PingLoop
  \/ Expire \/ CheckExpiry
  \/ Elapse \/ \E v \in Viewers : Visit(v)
  \/ CountStops \/ CountTick \/ CountWrites \/ CountFails \/ ShowCount

\* Those who really were there within the window.
Active == {v \in Viewers : age[v] <= Window}

=============================================================================
