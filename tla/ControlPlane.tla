---------------------------- MODULE ControlPlane ----------------------------
(***************************************************************************)
(* The control plane's session store (packages/control-plane/src): POST,   *)
(* GET and DELETE of routes/sessions.ts, the minute's cleanup of store.ts, *)
(* and the loss of everything on a restart.  Handlers run to their end in  *)
(* one turn of the event loop, so each is one step.                        *)
(*                                                                         *)
(* A session's token is its number in the order of creation.               *)
(***************************************************************************)
EXTENDS Integers, Sequences

CONSTANTS
  Slugs,        \* names a session can have
  ShortSlugs,   \* those generateSlug draws from: four digits
  LongSlugs,    \* those generateUniqueSlug falls back to: five digits
  Lifetimes,    \* values of expiresIn
  MaxDate,      \* the last instant a Date can hold
  MaxTime,      \* bound: the clock
  MaxSessions   \* bound: sessions created

ASSUME ControlPlaneAssumption ==
  /\ ShortSlugs \subseteq Slugs /\ LongSlugs \subseteq Slugs
  /\ Lifetimes \subseteq Int
  /\ MaxTime \in Nat /\ MaxDate \in Nat /\ MaxSessions \in Nat
  /\ MaxTime < MaxDate

VARIABLES
  now,        \* the clock both services read
  store,      \* SessionStore.map: the token of the session under a slug, or 0
  sessions,   \* every session created, by token; drawn: its slug is a fallback
              \* of generateUniqueSlug, which nobody looked up
  lost        \* tokens deleted, or forgotten by a restart

cpVars == <<now, store, sessions, lost>>

Invalid == MaxDate + 1
Dates   == (-MaxDate)..Invalid
Tokens  == 1..Len(sessions)

CpTypeOK ==
  /\ now \in 0..MaxTime
  /\ store \in [Slugs -> 0..Len(sessions)]
  /\ sessions \in Seq([slug : Slugs, expiresAt : Dates, drawn : BOOLEAN])
  /\ Len(sessions) <= MaxSessions
  /\ lost \subseteq Tokens

CpInit ==
  /\ now = 0
  /\ store = [s \in Slugs |-> 0]
  /\ sessions = <<>>
  /\ lost = {}

\* new Date(t): NaN outside the range of a Date.
DateOf(t) == IF t \in (-MaxDate)..MaxDate THEN t ELSE Invalid

\* has and get; create and, with 0, delete of SessionStore.
Has(s) == store[s] # 0

Stored == {store[s] : s \in Slugs} \ {0}

Put(s, k) == store' = [store EXCEPT ![s] = k]

\* isExpired, and the test of cleanup: a comparison with NaN is false.
Past(k) == sessions[k].expiresAt # Invalid /\ sessions[k].expiresAt < now

-----------------------------------------------------------------------------
\* POST: the session is stored and then the answer is built.  (toISOString throws
\* for an invalid date: 500, the caller never learns the token, the session stays.)
Create(s, d, drawn) ==
  /\ Len(sessions) < MaxSessions
  /\ sessions' = Append(sessions, [slug |-> s, expiresAt |-> DateOf(now + d), drawn |-> drawn])
  /\ Put(s, Len(sessions) + 1)
  /\ UNCHANGED <<now, lost>>

\* A slip: the slug is not looked up before the session is stored.
PostDesiredUnchecked(s, d) == Create(s, d, FALSE)

\* (A slug that is in use is answered 409, and nothing changes.)
PostDesired(s, d) == ~Has(s) /\ Create(s, d, FALSE)

\* generateUniqueSlug: the first of five draws that is free; if all five are in
\* use, a longer slug, which may itself be in use: nobody looks.
PostGenerated(d) ==
  \/ \E s \in ShortSlugs : ~Has(s) /\ Create(s, d, FALSE)
  \/ /\ \E s \in ShortSlugs : Has(s)
     /\ \E s \in LongSlugs : Create(s, d, TRUE)

ValidateToken(s, k) ==
  CASE ~Has(s) -> "not_found"
    [] store[s] \notin {0, k} -> "invalid_token"
    [] OTHER -> "ok"

\* GET: 404, 403, 500 for a date that cannot be written, or 200 with "active".
Get(s, k) ==
  CASE ValidateToken(s, k) # "ok" -> ValidateToken(s, k)
    [] sessions[k].expiresAt = Invalid -> "error"
    [] Past(k) -> "inactive"
    [] OTHER -> "active"

Delete(s) ==
  /\ Has(s)
  /\ Put(s, 0)
  /\ lost' = lost \cup {store[s]}
  /\ UNCHANGED <<now, sessions>>

\* A slip: nothing is cleaned up.
CleanupNothing == FALSE

Cleanup ==
  /\ store' = [s \in Slugs |-> IF Has(s) /\ Past(store[s]) THEN 0 ELSE store[s]]
  /\ UNCHANGED <<now, sessions, lost>>

\* The store is in memory only.
Restart ==
  /\ store' = [s \in Slugs |-> 0]
  /\ lost' = lost \cup Stored
  /\ UNCHANGED <<now, sessions>>

Tick ==
  /\ now < MaxTime
  /\ now' = now + 1
  /\ UNCHANGED <<store, sessions, lost>>

CpNext ==
  \/ \E d \in Lifetimes : PostGenerated(d) \/ \E s \in Slugs : PostDesired(s, d)
  \/ \E s \in Slugs : Delete(s)
  \/ Cleanup \/ Restart \/ Tick

-----------------------------------------------------------------------------
\* A later session was given the slug of k by the last line of generateUniqueSlug.
DrawnAway(k) ==
  \E j \in Tokens : j > k /\ sessions[j].drawn /\ sessions[j].slug = sessions[k].slug

\* A session that was neither deleted nor forgotten by a restart has its slug until
\* its time is up: no POST that looks a slug up, asked for or drawn, and no cleanup
\* takes it away before.  One thing in the code does, and only that: a later POST
\* whose five draws are all in use stores its session under a longer slug without
\* looking, over whoever has it.
KeptInTime ==
  \A k \in Tokens : store[sessions[k].slug] = k \/ k \in lost \/ Past(k) \/ DrawnAway(k)

\* An expired session gives its slug back, so that a POST asking for it is not
\* answered 409 for ever.
SlugFreed ==
  \A k \in 1..MaxSessions :
    (k \in Stored /\ sessions[k].expiresAt < MaxTime) ~> k \notin Stored

=============================================================================
