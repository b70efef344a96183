-------------------------- MODULE GatewaySessions --------------------------
(***************************************************************************)
(* How tunnels come into the gateway's registry and leave it               *)
(* (gateway/internal/edge/tunnel.go, session.go, overlay.go, policy.go,    *)
(* handler.go), against the sessions of the control plane.                 *)
(*                                                                         *)
(* The registry maps a slug to a tunnel, and everything that takes a       *)
(* tunnel out of it deletes by slug: HandleTunnelUpgrade when AUTH_OK      *)
(* cannot be written, readTunnelLoop when it ends, handleOverlayClose.     *)
(* Set replaces an entry and leaves the tunnel it replaces running.        *)
(* Close is one step here; its parts are in Multiplex.                     *)
(***************************************************************************)
EXTENDS ControlPlane

CONSTANTS
  Tunnels,    \* connections to /tunnel
  Visitors,   \* HTTP requests to a public URL
  Closers,    \* POSTs to /.stoat/close
  extractSlug, \* what ServeHTTP makes of a slug in a host: lower case, None for a dot
  None

ASSUME GatewaySessionsAssumption ==
  /\ None \notin Tunnels \cup Slugs /\ Visitors \cap Closers = {}
  /\ extractSlug \in [Slugs -> Slugs \cup {None}]

VARIABLES
  registry,  \* SessionRegistry: the tunnel under a slug
  upc,       \* where a connection's HandleTunnelUpgrade or readTunnelLoop is
  token,     \* TunnelConn.Token
  expires,   \* TunnelConn.ExpiresAt: what the control plane said at the upgrade
  conn,      \* the WebSocket: "up", "silent" (nothing comes through), "down"
  closed,    \* tunnels whose Close has run
  told,      \* tunnels whose CLI has been sent GO_AWAY
  vpc,       \* where a visitor or a closer is
  vt,        \* the tunnel it got from the registry
  newest,    \* the tunnel that was Set last under a slug
  overlapped \* tunnels Set while something of an earlier one was still to end

tunnelVars == <<upc, token, expires, conn, closed, told>>
callerVars == <<vpc, vt>>
histVars   == <<newest, overlapped>>
gsVars     == <<registry, tunnelVars, callerVars, histVars>>
allVars    == <<cpVars, gsVars>>

Callers == Visitors \cup Closers

Slug(t) == sessions[token[t]].slug

\* The reader is blocked in ReadMessage, or the loops have just been started.
Serving(t) == upc[t] = "run" /\ t \notin closed /\ conn[t] = "up"

TypeOK ==
  /\ CpTypeOK
  /\ registry \in [Slugs -> Tunnels \cup {None}]
  /\ upc \in [Tunnels -> {"idle", "validated", "set", "run", "leaving", "left", "gone"}]
  /\ token \in [Tunnels -> 0..Len(sessions)]
  /\ \A t \in Tunnels : upc[t] \notin {"idle", "gone"} => token[t] # 0
  /\ expires \in [Tunnels -> Dates]
  /\ conn \in [Tunnels -> {"up", "silent", "down"}]
  /\ closed \subseteq Tunnels /\ told \subseteq Tunnels
  /\ vpc \in [Callers -> {"idle", "got", "passed", "valid", "told", "closed", "expired",
                          "forwarded", "refused", "gone", "done"}]
  /\ vt \in [Callers -> Tunnels \cup {None}]
  /\ newest \in [Slugs -> Tunnels \cup {None}]
  /\ overlapped \subseteq Tunnels

Init ==
  /\ CpInit
  /\ registry = [s \in Slugs |-> None]
  /\ upc = [t \in Tunnels |-> "idle"]
  /\ token = [t \in Tunnels |-> 0]
  /\ expires = [t \in Tunnels |-> 0]
  /\ conn = [t \in Tunnels |-> "up"]
  /\ closed = {} /\ told = {}
  /\ vpc = [c \in Callers |-> "idle"]
  /\ vt = [c \in Callers |-> None]
  /\ newest = [s \in Slugs |-> None]
  /\ overlapped = {}

-----------------------------------------------------------------------------
\* Connections.

\* WriteFrame goes through: the tunnel is not closed and the connection not lost.
Writable(t) == t \notin closed /\ conn[t] # "down"

\* What ValidateSession makes of the answer of the control plane.
ValidateSession(s, k) ==
  CASE Get(s, k) = "active" -> "valid"
    [] Get(s, k) \in {"not_found", "invalid_token", "inactive"} -> "invalid"
    [] OTHER -> "error"

Register(s, t) == registry' = [registry EXCEPT ![s] = t]

Unregister(s) == registry' = [registry EXCEPT ![s] = None]

\* The AUTH frame with slug s and token k, and the answer of the control plane:
\* anything but "active" ends the connection.
Upgrade(t, s, k) ==
  /\ upc[t] = "idle"
  /\ \/ /\ ValidateSession(s, k) = "valid"
        /\ upc' = [upc EXCEPT ![t] = "validated"]
        /\ token' = [token EXCEPT ![t] = k]
        /\ expires' = [expires EXCEPT ![t] = sessions[k].expiresAt]
     \/ /\ upc' = [upc EXCEPT ![t] = "gone"]  \* refused, or the request fails
        /\ UNCHANGED <<token, expires>>
  /\ UNCHANGED <<cpVars, registry, conn, closed, told, callerVars, histVars>>

\* Somebody may still delete the slug's entry because of a tunnel before t.
StillToEnd(t) ==
  \/ \E u \in Tunnels \ {t} : upc[u] \notin {"idle", "gone"} /\ Slug(u) = Slug(t)
  \/ \E c \in Closers : vpc[c] \notin {"idle", "done"} /\ Slug(vt[c]) = Slug(t)

Set(t) ==
  /\ upc[t] = "validated"
  /\ Register(Slug(t), t)
  /\ upc' = [upc EXCEPT ![t] = "set"]
  /\ newest' = [newest EXCEPT ![Slug(t)] = t]
  /\ overlapped' = IF StillToEnd(t) THEN overlapped \cup {t} ELSE overlapped
  /\ UNCHANGED <<cpVars, token, expires, conn, closed, told, callerVars>>

\* AUTH_OK is written and the loops are started; or it cannot be written, and the
\* connection is dropped without a Close of the tunnel.
AuthOK(t) ==
  /\ upc[t] = "set"
  /\ \/ /\ Writable(t)
        /\ upc' = [upc EXCEPT ![t] = "run"]
        /\ UNCHANGED <<registry, conn>>
     \/ /\ ~Writable(t)
        /\ upc' = [upc EXCEPT ![t] = "gone"]
        /\ Unregister(Slug(t))
        /\ conn' = [conn EXCEPT ![t] = "down"]
  /\ UNCHANGED <<cpVars, token, expires, closed, told, callerVars, histVars>>

\* The loop of readTunnelLoop ends: GO_AWAY from the CLI, a lost connection, or
\* one that Close has closed.
ReaderEnds(t) ==
  /\ upc[t] = "run"
  /\ upc' = [upc EXCEPT ![t] = "leaving"]
  /\ UNCHANGED <<cpVars, registry, token, expires, conn, closed, told, callerVars, histVars>>

\* A slip: the deferred function only closes the tunnel.
ReaderOnlyCloses(t) ==
  /\ upc[t] = "leaving"
  /\ upc' = [upc EXCEPT ![t] = "left"]
  /\ UNCHANGED <<cpVars, registry, token, expires, conn, closed, told, callerVars, histVars>>

ReaderUnregisters(t) ==
  /\ upc[t] = "leaving"
  /\ upc' = [upc EXCEPT ![t] = "left"]
  /\ Unregister(Slug(t))
  /\ UNCHANGED <<cpVars, token, expires, conn, closed, told, callerVars, histVars>>

ReaderCloses(t) ==
  /\ upc[t] = "left"
  /\ upc' = [upc EXCEPT ![t] = "gone"]
  /\ closed' = closed \cup {t}
  /\ conn' = [conn EXCEPT ![t] = "down"]
  /\ UNCHANGED <<cpVars, registry, token, expires, told, callerVars, histVars>>

\* pingLoop after two unanswered pings, pingLoop or viewerCountLoop when a write
\* fails: Close, and the reader finds the connection closed.
LoopCloses(t) ==
  /\ upc[t] \in {"run", "leaving", "left"} /\ t \notin closed
  /\ closed' = closed \cup {t}
  /\ conn' = [conn EXCEPT ![t] = "down"]
  /\ UNCHANGED <<cpVars, registry, upc, token, expires, told, callerVars, histVars>>

\* The connection breaks, or stops carrying anything without an error.
ConnFails(t, c) ==
  /\ c \in {"silent", "down"}
  /\ upc[t] # "gone" /\ conn[t] = "up"
  /\ conn' = [conn EXCEPT ![t] = c]
  /\ UNCHANGED <<cpVars, registry, upc, token, expires, closed, told, callerVars, histVars>>

-----------------------------------------------------------------------------
\* Visitors: ServeHTTP and ProxyRequest.

Goto(c, p) == vpc' = [vpc EXCEPT ![c] = p]

\* registry.Get: the tunnel t found is used after the registry may have changed; if
\* there is none, 404.
Finds(c, t, notFound) ==
  /\ vpc[c] = "idle"
  /\ vt' = [vt EXCEPT ![c] = t]
  /\ Goto(c, IF t # None THEN "got" ELSE notFound)
  /\ UNCHANGED <<cpVars, registry, tunnelVars, histVars>>

\* The tunnel of a request whose host names slug h.
Found(h) == IF extractSlug[h] = None THEN None ELSE registry[extractSlug[h]]

Lookup(v, h) == Finds(v, Found(h), "gone")

\* A slip: an expiry that cannot be read counts as none.
ExpiredNever(t) == FALSE

\* CheckExpiry asks for the first instant that is not before the expiry, isExpired
\* of the control plane for one that is after it.
Expired(t) == now >= expires[t]

\* Write GO_AWAY, if it can be written.
Tell(t) == told' = IF Writable(t) THEN told \cup {t} ELSE told

CheckExpiry(v) ==
  /\ vpc[v] = "got" /\ Expired(vt[v])
  /\ Tell(vt[v])
  /\ Goto(v, "expired")
  /\ UNCHANGED <<cpVars, registry, upc, token, expires, conn, closed, vt, histVars>>

\* The rest of CheckExpiry: Close, and 410.
CloseExpired(v) ==
  /\ vpc[v] = "expired"
  /\ closed' = closed \cup {vt[v]}
  /\ conn' = [conn EXCEPT ![vt[v]] = "down"]
  /\ Goto(v, "gone")
  /\ UNCHANGED <<cpVars, registry, upc, token, expires, told, vt, histVars>>

\* The password or the rate limit refuses the request (401, 429), or Check lets it
\* pass.
Policy(v) ==
  /\ vpc[v] = "got" /\ ~Expired(vt[v])
  /\ Goto(v, "passed") \/ Goto(v, "refused")
  /\ UNCHANGED <<cpVars, registry, tunnelVars, vt, histVars>>

\* TouchViewer, AllocStream and STREAM_OPEN, on the tunnel as it is by now: 503 if it
\* has no identifier left, 502 if it cannot be written to.
Forward(v) ==
  /\ vpc[v] = "passed"
  /\ (Writable(vt[v]) /\ Goto(v, "forwarded")) \/ Goto(v, "refused")
  /\ UNCHANGED <<cpVars, registry, tunnelVars, vt, histVars>>

-----------------------------------------------------------------------------
\* handleOverlayClose.  The slug comes from the query, as it is.

LookupToClose(c, s) == Finds(c, registry[s], "done")

\* A slip: the entry goes before the token has been checked.
ValidateCloseHasty(c) ==
  /\ vpc[c] = "got"
  /\ Unregister(Slug(vt[c]))
  /\ Goto(c, "valid") \/ Goto(c, "done")
  /\ UNCHANGED <<cpVars, tunnelVars, vt, histVars>>

\* ValidateSession, with a token of the caller or the tunnel's own.
ValidateClose(c) ==
  /\ vpc[c] = "got"
  /\ \/ /\ \E k \in Tokens : ValidateSession(Slug(vt[c]), k) = "valid"
        /\ Goto(c, "valid")
     \/ Goto(c, "done")
  /\ UNCHANGED <<cpVars, registry, tunnelVars, vt, histVars>>

TellClosed(c) ==
  /\ vpc[c] = "valid"
  /\ Tell(vt[c])
  /\ Goto(c, "told")
  /\ UNCHANGED <<cpVars, registry, upc, token, expires, conn, closed, vt, histVars>>

CloseByOverlay(c) ==
  /\ vpc[c] = "told"
  /\ closed' = closed \cup {vt[c]}
  /\ conn' = [conn EXCEPT ![vt[c]] = "down"]
  /\ Goto(c, "closed")
  /\ UNCHANGED <<cpVars, registry, upc, token, expires, told, vt, histVars>>

UnregisterClosed(c) ==
  /\ vpc[c] = "closed"
  /\ Unregister(Slug(vt[c]))
  /\ Goto(c, "done")
  /\ UNCHANGED <<cpVars, tunnelVars, vt, histVars>>

-----------------------------------------------------------------------------
Tunnel(t) ==
  \/ Set(t) \/ AuthOK(t) \/ ReaderUnregisters(t) \/ ReaderCloses(t)

Caller(c) ==
  \/ c \in Visitors /\ (CheckExpiry(c) \/ CloseExpired(c) \/ Policy(c) \/ Forward(c))
  \/ c \in Closers /\ (ValidateClose(c) \/ TellClosed(c) \/ CloseByOverlay(c)
                       \/ UnregisterClosed(c))

Next ==
  \/ CpNext /\ UNCHANGED gsVars
  \/ \E t \in Tunnels :
       \/ \E s \in Slugs, k \in Tokens : Upgrade(t, s, k)
       \/ Tunnel(t) \/ ReaderEnds(t) \/ LoopCloses(t)
       \/ \E c \in {"silent", "down"} : ConnFails(t, c)
  \/ \E c \in Callers : Caller(c)
  \/ \E s \in Slugs :
       (\E v \in Visitors : Lookup(v, s)) \/ \E c \in Closers : LookupToClose(c, s)

Spec == Init /\ [][Next]_allVars

\* Goroutines run, time passes and the store's interval timer fires.  A reader sees
\* that its connection is down, and a tunnel that is not answering is closed after its
\* pings.
Fairness ==
  /\ \A t \in Tunnels :
       /\ WF_allVars(Tunnel(t))
       /\ WF_allVars(conn[t] = "down" /\ ReaderEnds(t))
       /\ WF_allVars(conn[t] # "up" /\ LoopCloses(t))
  /\ \A c \in Callers : WF_allVars(Caller(c))
  /\ WF_allVars(Tick /\ UNCHANGED gsVars) /\ WF_allVars(Cleanup /\ UNCHANGED gsVars)

FairSpec == Spec /\ Fairness

-----------------------------------------------------------------------------
\* The control plane has k under its slug, or took it away early: by a DELETE, in a
\* restart, or for a later session that drew the slug.
HasItsSlug(k) == store[sessions[k].slug] = k \/ k \in lost \/ DrawnAway(k)

\* The gateway decides by the expiry it was told once, the control plane by its store
\* and its own comparison.  They agree: Policy.Check passes a request only within the
\* time of the tunnel's session, while that session has its slug; and when the request
\* then goes into the tunnel, the slug can have become somebody else's only because
\* the time ran out in between.  (The exceptions are real: nothing of what takes a
\* slug away early closes the tunnel, which goes on serving under it.)
ForwardedWhileValid ==
  [][\A v \in Visitors :
       LET k == token[vt[v]]
       IN  /\ vpc[v] # "passed" /\ vpc'[v] = "passed" =>
                now < sessions[k].expiresAt /\ HasItsSlug(k)
           /\ vpc[v] # "forwarded" /\ vpc'[v] = "forwarded" =>
                HasItsSlug(k) \/ Past(k)]_allVars

\* A tunnel that came alone, with nothing of an earlier one left to end, is what a
\* visitor of its public URL gets for as long as it is served and no newer one is Set.
\* (Under a slug that is not its own lower case, or has a dot, which the control plane
\* gives to whoever asks for it, a tunnel is never found.)
AloneIsReachable ==
  \A s \in Slugs, t \in Tunnels \ overlapped :
    newest[s] = t /\ Serving(t) /\ extractSlug[s] = s => Found(s) = t

\* A tunnel that is closed, was told to go away, or has lost its connection does
\* not stay in the registry, whoever noticed and however the upgrade ended.
DeadLeavesRegistry ==
  \A t \in Tunnels :
    (t \in closed \cup told \/ conn[t] # "up") ~> t \notin {registry[s] : s \in Slugs}

\* Whoever has the public URL reaches the server: the tunnel that was Set last and
\* is being served is the one in the registry.
NewestIsReachable ==
  \A s \in Slugs, t \in Tunnels :
    newest[s] = t /\ Serving(t) => Found(s) = t

=============================================================================
