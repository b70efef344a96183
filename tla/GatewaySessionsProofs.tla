------------------------ MODULE GatewaySessionsProofs ------------------------
(***************************************************************************)
(* For every set of slugs, lifetimes, tunnels and callers: a session keeps *)
(* its slug until its time is up; a tunnel that came when nothing of an    *)
(* earlier one was left to end stays reachable; and a request goes into a  *)
(* tunnel only within the time of the tunnel's session.                    *)
(***************************************************************************)
EXTENDS GatewaySessions, ControlPlaneProofs

\* A step of the gateway changes nothing in the control plane.
LEMMA GatewayLeavesControlPlane ==
  ASSUME [Next]_allVars PROVE CpNext \/ UNCHANGED cpVars
BY DEF Next, allVars, Upgrade, Tunnel, Set, AuthOK, ReaderUnregisters, ReaderCloses,
   ReaderEnds, LoopCloses, ConnFails, Caller, CheckExpiry, CloseExpired, Policy, Forward,
   ValidateClose, TellClosed, CloseByOverlay, UnregisterClosed, Lookup, LookupToClose, Finds

LEMMA KeptOnStep == CpTypeOK /\ KeptInTime /\ [Next]_allVars => (CpTypeOK /\ KeptInTime)'
<1> SUFFICES ASSUME CpTypeOK, KeptInTime, [Next]_allVars PROVE (CpTypeOK /\ KeptInTime)'
  OBVIOUS
<1>1. CASE CpNext
  BY <1>1, CpTypeStep, KeptStep
<1>2. CASE UNCHANGED cpVars
  BY <1>2 DEF cpVars, CpTypeOK, KeptInTime, Tokens, Past, DrawnAway, Dates, Invalid
<1> QED
  BY <1>1, <1>2, GatewayLeavesControlPlane

\* Whatever is posted, deleted and cleaned up: a session that was neither deleted nor
\* forgotten has its slug until its time is up, unless the unchecked fallback of
\* generateUniqueSlug gave it to a later one, the one overwriting there is.
THEOREM SlugIsKept == Spec => []KeptInTime
<1>1. Init => CpTypeOK /\ KeptInTime
  BY InitCp DEF Init
<1> QED
  BY <1>1, KeptOnStep, PTL DEF Spec

-----------------------------------------------------------------------------
\* The sessions a control plane step leaves are those that were there.
LEMMA TokensStay ==
  ASSUME CpTypeOK, CpNext
  PROVE  /\ Len(sessions) \in Nat /\ Len(sessions') \in Nat
         /\ Len(sessions) <= Len(sessions') /\ 0..Len(sessions) \subseteq 0..Len(sessions')
<1>1. CpTypeOK'
  BY CpTypeStep
<1>2. Tokens \subseteq Tokens'
  BY SessionsStay
<1>3. Len(sessions) \in Nat /\ Len(sessions') \in Nat
  BY <1>1 DEF CpTypeOK
<1>4. 1..Len(sessions) \subseteq 1..Len(sessions')
  BY <1>2 DEF Tokens
<1> QED
  BY <1>3, <1>4

\* A step that leaves the control plane alone.
GatewayNext ==
  \/ \E t \in Tunnels :
       \/ \E s \in Slugs, k \in Tokens : Upgrade(t, s, k)
       \/ Tunnel(t) \/ ReaderEnds(t) \/ LoopCloses(t)
       \/ \E c \in {"silent", "down"} : ConnFails(t, c)
  \/ \E c \in Callers : Caller(c)
  \/ \E s \in Slugs :
       (\E v \in Visitors : Lookup(v, s)) \/ \E c \in Closers : LookupToClose(c, s)

\* Both find nothing, or what is registered under some slug.
LEMMA WhatIsFound ==
  ASSUME NEW s \in Slugs, NEW c \in Callers, Lookup(c, s) \/ LookupToClose(c, s)
  PROVE  \E t, p : /\ Finds(c, t, p) /\ p \in {"gone", "done"}
                   /\ t = None \/ \E r \in Slugs : t = registry[r]
BY GatewaySessionsAssumption DEF Lookup, LookupToClose, Found

GatewayType ==
  /\ registry \in [Slugs -> Tunnels \cup {None}]
  /\ upc \in [Tunnels -> {"idle", "validated", "set", "run", "leaving", "left", "gone"}]
  /\ token \in [Tunnels -> 0..Len(sessions)]
  /\ \A t \in Tunnels : upc[t] \notin {"idle", "gone"} => token[t] # 0
  /\ expires \in [Tunnels -> Dates]
  /\ conn \in [Tunnels -> {"up", "silent", "down"}]
  /\ closed \subseteq Tunnels /\ told \subseteq Tunnels
  /\ vpc \in [Callers -> {"idle", "got", "passed", "valid", "told", "closed", "expired",
                          "forwarded", "refused", "gone", "done"}]
  /\ vt \in [Callers -> Tunnels \cup {None}]
  /\ newest \in [Slugs -> Tunnels \cup {None}]
  /\ overlapped \subseteq Tunnels

\* Whoever is past the registry has found a tunnel there, and a tunnel in the registry
\* has come through an upgrade; the expiry it was told is that of its session.
KnowsSession ==
  /\ \A t \in Tunnels : upc[t] = "idle" => token[t] = 0
  /\ \A t \in Tunnels : token[t] # 0 => expires[t] = sessions[token[t]].expiresAt
  /\ \A s \in Slugs : registry[s] # None => registry[s] = newest[s]
  /\ \A s \in Slugs : newest[s] # None =>
       /\ token[newest[s]] # 0 /\ Slug(newest[s]) = s
       /\ upc[newest[s]] \notin {"idle", "validated"}
  /\ \A c \in Callers : vt[c] # None => token[vt[c]] # 0
  /\ \A c \in Callers : vpc[c] \notin {"idle", "gone", "done"} => vt[c] # None

LEMMA InitType == Init => GatewayType
<1>1. 0 \in Dates
  BY ControlPlaneAssumption DEF Dates, Invalid
<1> QED
  BY <1>1 DEF Init, GatewayType, CpInit

LEMMA SlugType ==
  ASSUME CpTypeOK, token \in [Tunnels -> 0..Len(sessions)],
         NEW t \in Tunnels, token[t] # 0
  PROVE  token[t] \in Tokens /\ Slug(t) \in Slugs /\ sessions[token[t]].expiresAt \in Dates
<1>1. Len(sessions) \in Nat /\ sessions \in Seq(Session)
  BY DEF CpTypeOK, Session
<1>2. token[t] \in 1..Len(sessions)
  BY <1>1
<1>3. sessions[token[t]] \in Session
  BY <1>1, <1>2, ElementOfSeq
<1> QED
  BY <1>2, <1>3 DEF Slug, Session, Tokens

LEMMA GatewayTypeStep ==
  ASSUME CpTypeOK, GatewayType, KnowsSession, GatewayNext, UNCHANGED cpVars
  PROVE  GatewayType'
<1> USE DEF GatewayType, cpVars, tunnelVars, callerVars, histVars
<1>0. Len(sessions) \in Nat /\ Len(sessions') = Len(sessions) /\ sessions' = sessions /\ Dates' = Dates
  BY DEF CpTypeOK, Dates, Invalid
<1>1. ASSUME NEW t \in Tunnels, NEW s \in Slugs, NEW k \in Tokens, Upgrade(t, s, k)
      PROVE  GatewayType'
  <2>1. sessions[k].expiresAt \in Dates /\ k \in 0..Len(sessions) /\ k # 0
    BY SessionType
  <2>2. /\ token' \in [Tunnels -> 0..Len(sessions)] /\ expires' \in [Tunnels -> Dates]
        /\ upc' \in [Tunnels -> {"idle", "validated", "set", "run", "leaving", "left", "gone"}]
        /\ UNCHANGED <<registry, conn, closed, told, vpc, vt, newest, overlapped>>
    <3>1. token' \in [Tunnels -> 0..Len(sessions)]
      BY <1>1, <2>1 DEF Upgrade
    <3>2. expires' \in [Tunnels -> Dates]
      BY <1>1, <2>1 DEF Upgrade
    <3>3. upc' \in [Tunnels -> {"idle", "validated", "set", "run", "leaving", "left", "gone"}]
      BY <1>1 DEF Upgrade
    <3> QED
      BY <1>1, <3>1, <3>2, <3>3 DEF Upgrade
  <2>3. \A u \in Tunnels : upc'[u] \notin {"idle", "gone"} => token'[u] # 0
    BY <1>1, <2>1 DEF Upgrade
  <2> HIDE DEF Dates
  <2> QED
    BY <1>0, <2>2, <2>3
<1>2. ASSUME NEW t \in Tunnels, Set(t)
      PROVE  GatewayType'
  BY <1>0, <1>2, SlugType DEF Set, Register
<1>3. ASSUME NEW t \in Tunnels, AuthOK(t)
      PROVE  GatewayType'
  BY <1>0, <1>3, SlugType DEF AuthOK, Unregister
<1>4. ASSUME NEW t \in Tunnels, ReaderEnds(t) \/ ReaderCloses(t) \/ LoopCloses(t)
      PROVE  GatewayType'
  BY <1>0, <1>4 DEF ReaderEnds, ReaderCloses, LoopCloses
<1>5. ASSUME NEW t \in Tunnels, ReaderUnregisters(t)
      PROVE  GatewayType'
  BY <1>0, <1>5, SlugType DEF ReaderUnregisters, Unregister
<1>6. ASSUME NEW t \in Tunnels, NEW c \in {"silent", "down"}, ConnFails(t, c)
      PROVE  GatewayType'
  BY <1>0, <1>6 DEF ConnFails
<1>7. ASSUME NEW c \in Callers, NEW s \in Slugs, Lookup(c, s) \/ LookupToClose(c, s)
      PROVE  GatewayType'
  <2>1. PICK t, p : /\ Finds(c, t, p) /\ p \in {"gone", "done"}
                    /\ t = None \/ \E r \in Slugs : t = registry[r]
    BY <1>7, WhatIsFound
  <2>2. t \in Tunnels \cup {None}
    BY <2>1
  <2> QED
    BY <1>0, <2>1, <2>2 DEF Finds, Goto
<1>8. ASSUME NEW c \in Callers, Caller(c)
      PROVE  GatewayType'
  <2>1. vpc[c] \in {"got", "passed", "valid", "told", "closed", "expired"} => vt[c] \in Tunnels
    BY DEF KnowsSession
  <2>2. CASE CheckExpiry(c) \/ CloseExpired(c)
    BY <1>0, <2>1, <2>2 DEF CheckExpiry, CloseExpired, Goto, Tell
  <2>3. CASE TellClosed(c) \/ CloseByOverlay(c)
    BY <1>0, <2>1, <2>3 DEF TellClosed, CloseByOverlay, Goto, Tell
  <2>4. CASE Policy(c) \/ Forward(c) \/ ValidateClose(c)
    BY <1>0, <2>4 DEF Policy, Forward, ValidateClose, Goto
  <2>5. CASE UnregisterClosed(c)
    <3>1. vpc[c] = "closed" /\ vt[c] \in Tunnels
      BY <2>1, <2>5 DEF UnregisterClosed
    <3> QED
      BY <1>0, <2>5, <3>1, SlugType DEF UnregisterClosed, Goto, Unregister
  <2> QED
    BY <1>8, <2>2, <2>3, <2>4, <2>5 DEF Caller
<1> QED
  BY <1>1, <1>2, <1>3, <1>4, <1>5, <1>6, <1>7, <1>8 DEF GatewayNext, Tunnel, Callers

\* A step leaves the token of a tunnel that has one, and the session it stands for.
LEMMA SlugStays ==
  ASSUME CpTypeOK, GatewayType, KnowsSession, [Next]_allVars
  PROVE  \A t \in Tunnels : token[t] # 0 =>
           /\ token'[t] = token[t] /\ Slug(t)' = Slug(t)
           /\ sessions'[token[t]] = sessions[token[t]]
<1> SUFFICES ASSUME NEW t \in Tunnels, token[t] # 0
             PROVE  token'[t] = token[t] /\ sessions'[token[t]] = sessions[token[t]]
  BY DEF Slug
<1>1. token[t] \in Tokens
  BY SlugType DEF GatewayType
<1>2. sessions'[token[t]] = sessions[token[t]]
  BY <1>1, GatewayLeavesControlPlane, SessionsStay DEF cpVars
<1>3. token'[t] = token[t]
  <2>1. CASE \E u \in Tunnels, s \in Slugs, k \in Tokens : Upgrade(u, s, k)
    BY <2>1 DEF Upgrade, KnowsSession, GatewayType
  <2>2. CASE UNCHANGED token
    BY <2>2
  <2> QED
    BY <2>1, <2>2 DEF Next, allVars, gsVars, tunnelVars, Tunnel, Set, AuthOK, ReaderUnregisters,
       ReaderCloses, ReaderEnds, LoopCloses, ConnFails, Caller, CheckExpiry, CloseExpired,
       Policy, Forward, ValidateClose, TellClosed, CloseByOverlay, UnregisterClosed, Lookup, LookupToClose, Finds
<1> QED
  BY <1>2, <1>3

\* What a step of the control plane leaves of it.
LEMMA ControlPlaneLeaves ==
  ASSUME CpTypeOK, GatewayType, KnowsSession, CpNext \/ UNCHANGED cpVars, UNCHANGED gsVars
  PROVE  GatewayType' /\ KnowsSession'
<1>1. Dates' = Dates /\ [Next]_allVars
  BY DEF Dates, Invalid, Next, allVars
<1>2. 0..Len(sessions) \subseteq 0..Len(sessions')
  BY TokensStay DEF cpVars
<1>3. token' \in [Tunnels -> 0..Len(sessions')]
  <2> DEFINE A == 0..Len(sessions)
             B == 0..Len(sessions')
  <2>1. token \in [Tunnels -> A] /\ token' = token /\ A \subseteq B
    BY <1>2 DEF GatewayType, gsVars, tunnelVars
  <2> HIDE DEF A, B
  <2>2. token' \in [Tunnels -> B]
    BY <2>1
  <2> QED
    BY <2>2 DEF B
<1>4. GatewayType'
  BY <1>1, <1>3 DEF GatewayType, gsVars, tunnelVars, callerVars, histVars
<1>5. KnowsSession'
  BY <1>1, SlugStays DEF KnowsSession, GatewayType, gsVars, tunnelVars, callerVars, histVars
<1> QED
  BY <1>4, <1>5

LEMMA KnowsSessionStep ==
  ASSUME CpTypeOK, GatewayType, KnowsSession, GatewayNext, UNCHANGED cpVars
  PROVE  KnowsSession'
<1> USE DEF tunnelVars, callerVars, histVars
<1>0. sessions' = sessions /\ Tokens' = Tokens
  BY DEF cpVars, Tokens
<1>1. ASSUME NEW t \in Tunnels, NEW s \in Slugs, NEW k \in Tokens, Upgrade(t, s, k)
      PROVE  KnowsSession'
  <2>1. k # 0 /\ token[t] = 0
    BY <1>1, SessionType DEF Upgrade, KnowsSession
  <2>2. \A u \in Tunnels \ {t} : token'[u] = token[u] /\ expires'[u] = expires[u] /\ upc'[u] = upc[u]
    BY <1>1 DEF Upgrade, GatewayType
  <2>3. upc'[t] # "idle" /\ (token'[t] # 0 => expires'[t] = sessions'[token'[t]].expiresAt)
    BY <1>0, <1>1, <2>1 DEF Upgrade, GatewayType
  <2>4. \A u \in Tunnels \ {t} : Slug(u)' = Slug(u)
    BY <1>0, <2>2 DEF Slug
  <2>5. UNCHANGED <<registry, newest, vt, vpc>>
    BY <1>1 DEF Upgrade
  <2>6. \A u \in Tunnels : upc'[u] = "idle" => token'[u] = 0
    BY <2>2, <2>3 DEF KnowsSession
  <2>7. \A u \in Tunnels : token'[u] # 0 => expires'[u] = sessions'[token'[u]].expiresAt
    BY <1>0, <2>2, <2>3 DEF KnowsSession
  <2>8. \A r \in Slugs : newest[r] # None => newest[r] \in Tunnels \ {t}
    BY <2>1 DEF KnowsSession, GatewayType
  <2>9. \A c \in Callers : vt[c] # None => vt[c] \in Tunnels \ {t}
    BY <2>1 DEF KnowsSession, GatewayType
  <2> QED
    BY <2>2, <2>4, <2>5, <2>6, <2>7, <2>8, <2>9 DEF KnowsSession
<1>2. ASSUME NEW t \in Tunnels, Set(t)
      PROVE  KnowsSession'
  <2>1. token[t] # 0 /\ Slug(t) \in Slugs
    BY <1>2, SlugType DEF Set, GatewayType
  <2>2. /\ UNCHANGED <<token, expires, sessions, vt, vpc>> /\ upc' = [upc EXCEPT ![t] = "set"]
        /\ newest' = [newest EXCEPT ![Slug(t)] = t] /\ registry' = [registry EXCEPT ![Slug(t)] = t]
    BY <1>0, <1>2 DEF Set, Register
  <2>3. \A u \in Tunnels : Slug(u)' = Slug(u)
    BY <2>2 DEF Slug
  <2> QED
    BY <2>1, <2>2, <2>3 DEF KnowsSession, GatewayType
<1>3. ASSUME UNCHANGED <<token, expires, newest, vt>>,
             \A s \in Slugs : registry'[s] \in {registry[s], None},
             \A t \in Tunnels : upc'[t] = upc[t] \/ (upc'[t] \notin {"idle", "validated"}),
             \A c \in Callers : vpc'[c] = vpc[c] \/ vpc[c] \notin {"idle", "gone", "done"}
      PROVE  KnowsSession'
  <2>1. \A u \in Tunnels : Slug(u)' = Slug(u)
    BY <1>0, <1>3 DEF Slug
  <2> QED
    BY <1>0, <1>3, <2>1 DEF KnowsSession, GatewayType
<1>4. ASSUME NEW t \in Tunnels, AuthOK(t) \/ ReaderUnregisters(t) \/ ReaderCloses(t)
                                 \/ ReaderEnds(t) \/ LoopCloses(t) \/ \E c \in {"silent", "down"} : ConnFails(t, c)
      PROVE  KnowsSession'
  <2>1. \A s \in Slugs : registry'[s] \in {registry[s], None}
    BY <1>4 DEF AuthOK, ReaderUnregisters, ReaderCloses, ReaderEnds, LoopCloses, ConnFails, Unregister, GatewayType
  <2>2. \A u \in Tunnels : upc'[u] = upc[u] \/ (upc'[u] \notin {"idle", "validated"})
    BY <1>4 DEF AuthOK, ReaderUnregisters, ReaderCloses, ReaderEnds, LoopCloses, ConnFails, GatewayType
  <2>3. UNCHANGED <<token, expires, newest, vt, vpc>>
    BY <1>4 DEF AuthOK, ReaderUnregisters, ReaderCloses, ReaderEnds, LoopCloses, ConnFails
  <2> QED
    BY <1>3, <2>1, <2>2, <2>3
<1>5. ASSUME NEW c \in Callers, Caller(c)
      PROVE  KnowsSession'
  <2>1. \A s \in Slugs : registry'[s] \in {registry[s], None}
    BY <1>5 DEF Caller, CheckExpiry, CloseExpired, Policy, Forward, ValidateClose, TellClosed,
       CloseByOverlay, UnregisterClosed, Unregister, GatewayType
  <2>2. \A d \in Callers : vpc'[d] = vpc[d] \/ vpc[d] \notin {"idle", "gone", "done"}
    BY <1>5 DEF Caller, CheckExpiry, CloseExpired, Policy, Forward, ValidateClose, TellClosed,
       CloseByOverlay, UnregisterClosed, Goto, GatewayType
  <2>3. UNCHANGED <<token, expires, newest, vt, upc>>
    BY <1>5 DEF Caller, CheckExpiry, CloseExpired, Policy, Forward, ValidateClose, TellClosed,
       CloseByOverlay, UnregisterClosed
  <2> QED
    BY <1>3, <2>1, <2>2, <2>3
<1>6. ASSUME NEW c \in Callers, NEW s \in Slugs, Lookup(c, s) \/ LookupToClose(c, s)
      PROVE  KnowsSession'
  <2>0. PICK t, p : /\ Finds(c, t, p) /\ p \in {"gone", "done"}
                    /\ t = None \/ \E r \in Slugs : t = registry[r]
    BY <1>6, WhatIsFound
  <2>1. /\ UNCHANGED <<registry, token, expires, newest, upc>>
        /\ vt' = [vt EXCEPT ![c] = t]
        /\ \A d \in Callers : d # c => vpc'[d] = vpc[d]
        /\ vpc'[c] \in {"got", "gone", "done"} /\ (vpc'[c] = "got" => t # None)
    BY <2>0 DEF Finds, Goto, GatewayType
  <2>2. \A u \in Tunnels : Slug(u)' = Slug(u)
    BY <1>0, <2>1 DEF Slug
  <2>3. t # None => token[t] # 0
    BY <2>0 DEF KnowsSession
  <2> QED
    BY <1>0, <2>1, <2>2, <2>3 DEF KnowsSession, GatewayType
<1> QED
  BY <1>1, <1>2, <1>4, <1>5, <1>6 DEF GatewayNext, Tunnel, Callers

Upgraded(t) == upc[t] \notin {"idle", "gone"}

\* Only t, and whoever found t in the registry, can still delete the entry of slug s; and
\* it has not been deleted while t can be served.
NobodyElse(s, t) ==
  /\ \A u \in Tunnels \ {t} : Upgraded(u) /\ Slug(u) = s => upc[u] = "validated"
  /\ \A c \in Closers : vpc[c] \notin {"idle", "gone", "done"} /\ Slug(vt[c]) = s =>
       vt[c] = t /\ (vpc[c] = "closed" => t \in closed)
  /\ upc[t] \in {"set", "run"} /\ t \notin closed => registry[s] = t

AloneIsLeft ==
  \A s \in Slugs :
    newest[s] # None /\ newest[s] \notin overlapped => NobodyElse(s, newest[s])

LEMMA AloneStep ==
  ASSUME CpTypeOK, GatewayType, KnowsSession, KnowsSession', AloneIsLeft, [Next]_allVars
  PROVE  AloneIsLeft'
<1> SUFFICES ASSUME NEW s \in Slugs, newest'[s] # None, newest'[s] \notin overlapped'
             PROVE  NobodyElse(s, newest[s])'
  BY DEF AloneIsLeft
<1> USE DEF tunnelVars, callerVars, histVars
<1>0. \A t \in Tunnels : token[t] # 0 => token'[t] = token[t] /\ Slug(t)' = Slug(t)
  BY SlugStays
<1>a. \A t \in Tunnels : Upgraded(t) => token[t] # 0
  BY DEF GatewayType, Upgraded
<1>b. \A c \in Callers : vpc[c] \notin {"idle", "gone", "done"} => vt[c] \in Tunnels /\ token[vt[c]] # 0
  BY DEF GatewayType, KnowsSession
<1>c. Visitors \cap Closers = {} /\ None \notin Tunnels /\ Closers \subseteq Callers
  BY GatewaySessionsAssumption DEF Callers
<1>1. ASSUME NEW t \in Tunnels, Set(t), s = Slug(t)
      PROVE  NobodyElse(s, newest[s])'
  <2>1. newest'[s] = t /\ registry'[s] = t /\ ~StillToEnd(t)
    BY <1>1 DEF Set, Register, GatewayType
  <2>2. UNCHANGED <<token, sessions, vpc, vt, closed>> /\ \A u \in Tunnels \ {t} : upc'[u] = upc[u]
    BY <1>1 DEF Set, cpVars, GatewayType
  <2>3. \A u \in Tunnels \ {t} : ~(Upgraded(u)' /\ Slug(u)' = s)
    BY <1>0, <1>a, <1>1, <2>1, <2>2 DEF StillToEnd, Upgraded
  <2>4. \A c \in Closers : ~(vpc'[c] \notin {"idle", "gone", "done"} /\ Slug(vt[c])' = s)
    BY <1>0, <1>b, <1>c, <1>1, <2>1, <2>2 DEF StillToEnd
  <2> QED
    BY <2>1, <2>2, <2>3, <2>4 DEF NobodyElse
\* From here on s keeps its newest tunnel n.
<1> DEFINE n == newest[s]
<1>2. ASSUME UNCHANGED newest \/ newest'[s] = newest[s], overlapped \subseteq overlapped'
      PROVE  n \in Tunnels /\ newest'[s] = n /\ NobodyElse(s, n) /\ Slug(n) = s /\ Slug(n)' = s /\ token[n] # 0
  BY <1>0, <1>2 DEF AloneIsLeft, GatewayType, KnowsSession
<1>3. ASSUME NEW t \in Tunnels, Set(t), s # Slug(t)
      PROVE  NobodyElse(s, newest[s])'
  <2>1. newest'[s] = n /\ registry'[s] = registry[s] /\ overlapped \subseteq overlapped'
    BY <1>3 DEF Set, Register, GatewayType
  <2>2. UNCHANGED <<vpc, vt, closed>> /\ \A u \in Tunnels \ {t} : upc'[u] = upc[u]
    BY <1>3 DEF Set, GatewayType
  <2>3. token[t] # 0 /\ Slug(t)' # s /\ t # n
    BY <1>0, <1>2, <1>3, <2>1 DEF Set, GatewayType
  <2>4. \A u \in Tunnels \ {n} : Upgraded(u)' /\ Slug(u)' = s => upc'[u] = "validated"
    BY <1>0, <1>a, <1>2, <2>1, <2>2, <2>3 DEF NobodyElse, Upgraded
  <2>5. \A c \in Closers : vpc'[c] \notin {"idle", "gone", "done"} /\ Slug(vt[c])' = s =>
          vt'[c] = n /\ (vpc'[c] = "closed" => n \in closed')
    BY <1>0, <1>b, <1>c, <1>2, <2>1, <2>2 DEF NobodyElse
  <2> QED
    BY <1>2, <2>1, <2>2, <2>3, <2>4, <2>5 DEF NobodyElse
\* A step that leaves the callers alone, and takes the entry of s only for n.
<1>4. ASSUME UNCHANGED <<newest, overlapped, vpc, vt>>, closed \subseteq closed',
             \A u \in Tunnels : Slug(u)' = s /\ Upgraded(u)' => Upgraded(u) \/ upc'[u] = "validated",
             \A u \in Tunnels \ {n} : upc[u] = "validated" => upc'[u] \in {"validated", "gone"},
             upc'[n] \in {"set", "run"} => upc[n] \in {"set", "run"} /\ registry'[s] = registry[s]
      PROVE  NobodyElse(s, newest[s])'
  <2>1. \A u \in Tunnels \ {n} : Upgraded(u)' /\ Slug(u)' = s => upc'[u] = "validated"
    <3> SUFFICES ASSUME NEW u \in Tunnels \ {n}, Upgraded(u)', Slug(u)' = s PROVE upc'[u] = "validated"
      OBVIOUS
    <3>1. CASE Upgraded(u)
      BY <1>0, <1>a, <1>2, <1>4, <3>1 DEF NobodyElse, Upgraded
    <3> QED
      BY <1>4, <3>1
  <2>2. \A c \in Closers : vpc'[c] \notin {"idle", "gone", "done"} /\ Slug(vt[c])' = s =>
          vt'[c] = n /\ (vpc'[c] = "closed" => n \in closed')
    BY <1>0, <1>b, <1>c, <1>2, <1>4 DEF NobodyElse
  <2> QED
    BY <1>2, <1>4, <2>1, <2>2 DEF NobodyElse
<1>5. ASSUME NEW t \in Tunnels, NEW r \in Slugs, NEW k \in Tokens, Upgrade(t, r, k)
      PROVE  NobodyElse(s, newest[s])'
  <2>1. UNCHANGED <<registry, newest, overlapped, vpc, vt, closed>> /\ upc'[t] \in {"validated", "gone"}
        /\ \A u \in Tunnels \ {t} : upc'[u] = upc[u]
    BY <1>5 DEF Upgrade, GatewayType
  <2>2. token[t] = 0 /\ upc[t] = "idle"
    BY <1>5 DEF Upgrade, KnowsSession
  <2>3. n # t
    BY <1>2, <2>1, <2>2
  <2> QED
    BY <1>2, <1>4, <2>1, <2>2, <2>3 DEF Upgraded
\* Whoever leaves the registry under s is n.
<1>6. ASSUME NEW t \in Tunnels, AuthOK(t) \/ ReaderUnregisters(t), UNCHANGED <<newest, overlapped>>
      PROVE  Slug(t) = s => t = n
  BY <1>2, <1>6 DEF AuthOK, ReaderUnregisters, NobodyElse, Upgraded
<1>7. ASSUME NEW t \in Tunnels, AuthOK(t)
      PROVE  NobodyElse(s, newest[s])'
  <2>1. UNCHANGED <<newest, overlapped, vpc, vt, closed>> /\ upc[t] = "set" /\ upc'[t] \in {"run", "gone"}
        /\ \A u \in Tunnels \ {t} : upc'[u] = upc[u]
    BY <1>7 DEF AuthOK, GatewayType
  <2>2. registry' = registry \/ (upc'[t] = "gone" /\ registry' = [registry EXCEPT ![Slug(t)] = None])
    BY <1>7 DEF AuthOK, Unregister, GatewayType
  <2>3. upc'[n] \in {"set", "run"} => upc[n] \in {"set", "run"} /\ registry'[s] = registry[s]
    BY <1>2, <1>6, <1>7, <2>1, <2>2 DEF GatewayType
  <2> QED
    BY <1>4, <2>1, <2>3 DEF Upgraded
<1>8. ASSUME NEW t \in Tunnels, ReaderUnregisters(t)
      PROVE  NobodyElse(s, newest[s])'
  <2>1. UNCHANGED <<newest, overlapped, vpc, vt, closed>> /\ upc[t] = "leaving" /\ upc'[t] = "left"
        /\ registry' = [registry EXCEPT ![Slug(t)] = None] /\ \A u \in Tunnels \ {t} : upc'[u] = upc[u]
    BY <1>8 DEF ReaderUnregisters, Unregister, GatewayType
  <2>2. upc'[n] \in {"set", "run"} => upc[n] \in {"set", "run"} /\ registry'[s] = registry[s]
    BY <1>2, <1>6, <1>8, <2>1 DEF GatewayType
  <2> QED
    BY <1>4, <2>1, <2>2 DEF Upgraded
<1>9. ASSUME NEW t \in Tunnels, ReaderEnds(t) \/ ReaderCloses(t) \/ LoopCloses(t)
                                 \/ \E c \in {"silent", "down"} : ConnFails(t, c)
      PROVE  NobodyElse(s, newest[s])'
  <2>1. UNCHANGED <<newest, overlapped, vpc, vt, registry>> /\ closed \subseteq closed'
    BY <1>9 DEF ReaderEnds, ReaderCloses, LoopCloses, ConnFails
  <2>2. \A u \in Tunnels : upc'[u] = upc[u] \/ (upc[u] \in {"run", "left"} /\ upc'[u] \in {"leaving", "gone"})
    BY <1>9 DEF ReaderEnds, ReaderCloses, LoopCloses, ConnFails, GatewayType
  <2> QED
    BY <1>2, <1>4, <2>1, <2>2 DEF Upgraded
<1>10. ASSUME NEW v \in Visitors, CheckExpiry(v) \/ CloseExpired(v) \/ Policy(v) \/ Forward(v)
       PROVE  NobodyElse(s, newest[s])'
  <2>1. UNCHANGED <<newest, overlapped, vt, registry, upc>> /\ closed \subseteq closed'
    BY <1>10 DEF CheckExpiry, CloseExpired, Policy, Forward
  <2>2. \A c \in Closers : vpc'[c] = vpc[c]
    BY <1>c, <1>10 DEF CheckExpiry, CloseExpired, Policy, Forward, Goto, GatewayType, Callers
  <2> QED
    BY <1>0, <1>a, <1>b, <1>c, <1>2, <2>1, <2>2 DEF NobodyElse, Upgraded
<1>11. ASSUME NEW c \in Closers,
              ValidateClose(c) \/ TellClosed(c) \/ CloseByOverlay(c) \/ UnregisterClosed(c)
       PROVE  NobodyElse(s, newest[s])'
  <2>1. UNCHANGED <<newest, overlapped, vt, upc>> /\ closed \subseteq closed'
    BY <1>11 DEF ValidateClose, TellClosed, CloseByOverlay, UnregisterClosed
  <2>2. \A d \in Closers : vpc'[d] \notin {"idle", "gone", "done"} => vpc[d] \notin {"idle", "gone", "done"}
    BY <1>c, <1>11 DEF ValidateClose, TellClosed, CloseByOverlay, UnregisterClosed, Goto, GatewayType
  <2>3. \A d \in Closers : vpc'[d] = "closed" => vpc[d] = "closed" \/ vt[d] \in closed'
    BY <1>c, <1>11 DEF ValidateClose, TellClosed, CloseByOverlay, UnregisterClosed, Goto, GatewayType
  <2>4. registry'[s] = registry[s] \/ n \in closed
    <3>1. CASE UNCHANGED registry
      BY <3>1
    <3>2. CASE UnregisterClosed(c)
      <4>1. vpc[c] = "closed" /\ registry' = [registry EXCEPT ![Slug(vt[c])] = None]
        BY <3>2 DEF UnregisterClosed, Unregister
      <4>2. Slug(vt[c]) = s => n \in closed
        BY <1>2, <2>1, <4>1 DEF NobodyElse
      <4> QED
        BY <4>1, <4>2 DEF GatewayType
    <3> QED
      BY <1>11, <3>1, <3>2 DEF ValidateClose, TellClosed, CloseByOverlay
  <2>5. \A u \in Tunnels \ {n} : Upgraded(u)' /\ Slug(u)' = s => upc'[u] = "validated"
    BY <1>0, <1>a, <1>2, <2>1 DEF NobodyElse, Upgraded
  <2>6. \A d \in Closers : vpc'[d] \notin {"idle", "gone", "done"} /\ Slug(vt[d])' = s =>
          vt'[d] = n /\ (vpc'[d] = "closed" => n \in closed')
    BY <1>0, <1>b, <1>c, <1>2, <2>1, <2>2, <2>3 DEF NobodyElse
  <2> QED
    BY <1>2, <2>1, <2>4, <2>5, <2>6 DEF NobodyElse
\* A closer that finds a tunnel under s finds n.
<1>14. ASSUME NEW v \in Visitors, NEW r \in Slugs, Lookup(v, r)
       PROVE  NobodyElse(s, newest[s])'
  <2>1. UNCHANGED <<newest, overlapped, registry, upc, closed>>
    BY <1>14 DEF Lookup, Finds
  <2>2. \A c \in Closers : vpc'[c] = vpc[c] /\ vt'[c] = vt[c]
    BY <1>c, <1>14 DEF Lookup, Finds, Goto, GatewayType, Callers
  <2> QED
    BY <1>0, <1>a, <1>b, <1>c, <1>2, <2>1, <2>2 DEF NobodyElse, Upgraded
<1>12. ASSUME NEW c \in Closers, NEW r \in Slugs, LookupToClose(c, r)
       PROVE  NobodyElse(s, newest[s])'
  <2>1. UNCHANGED <<newest, overlapped, registry, upc, closed>>
    BY <1>12 DEF LookupToClose, Finds
  <2>2. \A d \in Callers \ {c} : vpc'[d] = vpc[d] /\ vt'[d] = vt[d]
    BY <1>c, <1>12 DEF LookupToClose, Finds, Goto, GatewayType
  <2>3. vt'[c] = registry[r] /\ vpc'[c] # "closed" /\ (vpc'[c] \notin {"idle", "gone", "done"} => registry[r] # None)
    BY <1>c, <1>12 DEF LookupToClose, Finds, Goto, GatewayType
  <2>4. registry[r] # None => token[registry[r]] # 0 /\ Slug(registry[r]) = r /\ registry[r] = newest[r]
    BY DEF KnowsSession
  <2>5. registry[r] # None => registry[r] \in Tunnels
    BY DEF GatewayType
  <2>6. \A u \in Tunnels \ {n} : Upgraded(u)' /\ Slug(u)' = s => upc'[u] = "validated"
    BY <1>0, <1>a, <1>2, <2>1 DEF NobodyElse, Upgraded
  <2>7. ASSUME NEW d \in Closers, vpc'[d] \notin {"idle", "gone", "done"}, Slug(vt[d])' = s
        PROVE  vt'[d] = n /\ (vpc'[d] = "closed" => n \in closed')
    <3>1. CASE d = c
      <4>1. vt'[d] = registry[r] /\ registry[r] # None /\ vpc'[d] # "closed"
        BY <2>3, <2>7, <3>1
      <4>2. Slug(registry[r])' = Slug(registry[r])
        BY <1>0, <2>1, <2>4, <2>5, <4>1 DEF Slug
      <4>3. Slug(vt[d])' = Slug(registry[r])'
        BY <2>1, <4>1 DEF Slug
      <4>4. r = s
        BY <2>4, <2>7, <4>1, <4>2, <4>3
      <4> QED
        BY <2>4, <4>1, <4>4
    <3>2. CASE d # c
      <4>1. vpc'[d] = vpc[d] /\ vt'[d] = vt[d]
        BY <1>c, <2>2, <3>2
      <4>2. vt[d] \in Tunnels /\ token[vt[d]] # 0
        BY <1>b, <1>c, <2>7, <4>1
      <4>3. Slug(vt[d])' = Slug(vt[d])
        BY <1>0, <4>1, <4>2 DEF Slug
      <4> QED
        BY <1>2, <2>1, <2>7, <4>1, <4>3 DEF NobodyElse
    <3> QED
      BY <3>1, <3>2
  <2> QED
    BY <1>2, <2>1, <2>6, <2>7 DEF NobodyElse
<1>13. CASE UNCHANGED gsVars
  BY <1>0, <1>a, <1>b, <1>c, <1>2, <1>13 DEF NobodyElse, Upgraded, gsVars
<1> QED
  BY <1>1, <1>3, <1>5, <1>7, <1>8, <1>9, <1>10, <1>11, <1>12, <1>13, <1>14
     DEF Next, Tunnel, Caller, allVars

GatewayInv ==
  CpTypeOK /\ KeptInTime /\ GatewayType /\ KnowsSession /\ AloneIsLeft

LEMMA TypeIsGateway == TypeOK <=> CpTypeOK /\ GatewayType
BY DEF TypeOK, GatewayType

LEMMA InitGateway == Init => GatewayInv
<1> SUFFICES ASSUME Init PROVE GatewayInv
  OBVIOUS
<1>1. CpTypeOK /\ KeptInTime /\ GatewayType
  BY InitCp, InitType DEF Init
<1>2. KnowsSession /\ AloneIsLeft
  BY DEF Init, KnowsSession, AloneIsLeft, CpInit
<1> QED
  BY <1>1, <1>2 DEF GatewayInv

LEMMA GatewayStep == GatewayInv /\ [Next]_allVars => GatewayInv'
<1> SUFFICES ASSUME GatewayInv, [Next]_allVars PROVE GatewayInv'
  OBVIOUS
<1> USE DEF GatewayInv
<1>1. (CpTypeOK /\ KeptInTime)'
  BY KeptOnStep
<1>2. GatewayType' /\ KnowsSession'
  <2>1. CASE CpNext /\ UNCHANGED gsVars
    BY <2>1, ControlPlaneLeaves
  <2>2. CASE UNCHANGED allVars
    BY <2>2, ControlPlaneLeaves DEF allVars
  <2>3. CASE GatewayNext
    <3>1. UNCHANGED cpVars
      BY <2>3 DEF GatewayNext, Upgrade, Tunnel, Set, AuthOK, ReaderUnregisters, ReaderCloses,
         ReaderEnds, LoopCloses, ConnFails, Caller, CheckExpiry, CloseExpired, Policy, Forward,
         ValidateClose, TellClosed, CloseByOverlay, UnregisterClosed, Lookup, LookupToClose, Finds
    <3> QED
      BY <2>3, <3>1, GatewayTypeStep, KnowsSessionStep
  <2> QED
    BY <2>1, <2>2, <2>3 DEF Next, GatewayNext
<1>3. AloneIsLeft'
  BY <1>2, AloneStep
<1> QED
  BY <1>1, <1>2, <1>3

\* The type invariant: among others, a tunnel that is past the answer of the control plane
\* has a session.
THEOREM GatewayTypes == Spec => []TypeOK
<1>1. GatewayInv => TypeOK
  BY TypeIsGateway DEF GatewayInv
<1> QED
  BY <1>1, InitGateway, GatewayStep, PTL DEF Spec

\* A tunnel that was Set when nothing of an earlier one was left to end can be reached
\* for as long as it is served, whatever visitors, closers, and later upgrades that are
\* not yet Set do.
THEOREM AloneStaysReachable == Spec => []AloneIsReachable
<1>1. GatewayInv => AloneIsReachable
  <2> SUFFICES ASSUME GatewayInv, NEW s \in Slugs, NEW t \in Tunnels \ overlapped,
                      newest[s] = t, Serving(t), extractSlug[s] = s
               PROVE  Found(s) = t
    BY DEF AloneIsReachable
  <2>1. t # None
    BY GatewaySessionsAssumption
  <2> QED
    BY <2>1, GatewaySessionsAssumption DEF GatewayInv, AloneIsLeft, NobodyElse, Serving, Found
<1> QED
  BY <1>1, InitGateway, GatewayStep, PTL DEF Spec

\* A request that Policy.Check lets pass finds the session of its tunnel in its time and
\* under its slug, and while it waits for its stream only the end of that time, or what
\* takes a slug away early, changes that.
THEOREM ForwardedInTime == Spec => ForwardedWhileValid
<1> DEFINE K(v) == token[vt[v]]
<1>1. GatewayInv /\ [Next]_allVars =>
        [\A v \in Visitors :
           /\ vpc[v] # "passed" /\ vpc'[v] = "passed" =>
                now < sessions[K(v)].expiresAt /\ HasItsSlug(K(v))
           /\ vpc[v] # "forwarded" /\ vpc'[v] = "forwarded" =>
                HasItsSlug(K(v)) \/ Past(K(v))]_allVars
  <2> SUFFICES ASSUME GatewayInv, [Next]_allVars, NEW v \in Visitors
               PROVE  /\ vpc[v] # "passed" /\ vpc'[v] = "passed" =>
                           now < sessions[K(v)].expiresAt /\ HasItsSlug(K(v))
                      /\ vpc[v] # "forwarded" /\ vpc'[v] = "forwarded" =>
                           HasItsSlug(K(v)) \/ Past(K(v))
    OBVIOUS
  <2> USE DEF GatewayInv
  <2>1. /\ vpc[v] # "passed" /\ vpc'[v] = "passed" => Policy(v)
        /\ vpc[v] # "forwarded" /\ vpc'[v] = "forwarded" => Forward(v)
    BY DEF Next, allVars, gsVars, callerVars, Upgrade, Tunnel, Set, AuthOK, ReaderUnregisters, ReaderCloses,
       ReaderEnds, LoopCloses, ConnFails, Caller, CheckExpiry, CloseExpired, Policy, Forward, GatewayType,
       ValidateClose, TellClosed, CloseByOverlay, UnregisterClosed, Lookup, LookupToClose, Finds, Goto, Callers
  <2>2. ASSUME vpc[v] \in {"got", "passed"}
        PROVE  /\ expires[vt[v]] = sessions[K(v)].expiresAt /\ sessions[K(v)].expiresAt \in Int
               /\ HasItsSlug(K(v)) \/ Past(K(v))
    <3>1. vt[v] \in Tunnels /\ token[vt[v]] # 0
      BY <2>2 DEF KnowsSession, GatewayType, Callers
    <3>2. K(v) \in Tokens
      BY <3>1, SlugType DEF GatewayType
    <3> QED
      BY <3>1, <3>2, SessionType DEF KnowsSession, KeptInTime, HasItsSlug
  <2>3. ASSUME Policy(v)
        PROVE  now < sessions[K(v)].expiresAt /\ HasItsSlug(K(v))
    <3>1. vpc[v] = "got" /\ ~(now >= expires[vt[v]]) /\ now \in Int
      BY <2>3 DEF Policy, Expired, CpTypeOK
    <3>2. now < sessions[K(v)].expiresAt
      BY <2>2, <3>1
    <3> QED
      BY <2>2, <3>1, <3>2 DEF Past
  <2> QED
    BY <2>1, <2>2, <2>3 DEF Forward
<1> QED
  BY <1>1, InitGateway, GatewayStep, PTL DEF Spec, ForwardedWhileValid

=============================================================================
