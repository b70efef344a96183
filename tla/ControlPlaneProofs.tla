--------------------------- MODULE ControlPlaneProofs ---------------------------
(***************************************************************************)
(* Lemmas about the steps of the control plane, for the specifications     *)
(* that are built on it.                                                   *)
(***************************************************************************)
EXTENDS ControlPlane, SequenceTheorems, TLAPS

Session == [slug : Slugs, expiresAt : Dates, drawn : BOOLEAN]

LEMMA DateType ==
  ASSUME NEW t \in Int
  PROVE  DateOf(t) \in Dates
BY ControlPlaneAssumption DEF DateOf, Dates, Invalid

\* POST, whichever slug it takes.
LEMMA CreateType ==
  ASSUME CpTypeOK, NEW s \in Slugs, NEW d \in Lifetimes, NEW b \in BOOLEAN, Create(s, d, b)
  PROVE  /\ Len(sessions') = Len(sessions) + 1
         /\ sessions' \in Seq(Session) /\ Len(sessions') <= MaxSessions
         /\ \A k \in Tokens : sessions'[k] = sessions[k]
         /\ sessions'[Len(sessions) + 1].slug = s /\ sessions'[Len(sessions) + 1].drawn = b
         /\ Tokens' = Tokens \cup {Len(sessions) + 1}
         /\ store' \in [Slugs -> 0..Len(sessions')]
<1> DEFINE new == [slug |-> s, expiresAt |-> DateOf(now + d), drawn |-> b]
<1>1. now + d \in Int
  BY ControlPlaneAssumption DEF CpTypeOK
<1>2. new \in Session
  BY <1>1, DateType DEF Session
<1>3. sessions \in Seq(Session) /\ Len(sessions) \in Nat
  BY DEF CpTypeOK, Session
<1>4. sessions' = Append(sessions, new)
  BY DEF Create
<1>5. /\ sessions' \in Seq(Session)
      /\ Len(sessions') = Len(sessions) + 1
      /\ \A k \in 1..Len(sessions) : sessions'[k] = sessions[k]
      /\ sessions'[Len(sessions) + 1] = new
  <2> HIDE DEF new
  <2> QED
    BY <1>2, <1>3, <1>4, AppendProperties
<1>6. Len(sessions') <= MaxSessions
  BY <1>3, <1>5, ControlPlaneAssumption DEF Create
<1>7. Tokens' = Tokens \cup {Len(sessions) + 1}
  BY <1>3, <1>5 DEF Tokens
<1>8. store' \in [Slugs -> 0..Len(sessions')]
  BY <1>3, <1>5 DEF CpTypeOK, Create, Put
<1> QED
  BY <1>5, <1>6, <1>7, <1>8 DEF Tokens

LEMMA SessionType ==
  ASSUME CpTypeOK, NEW k \in Tokens
  PROVE  /\ sessions[k].slug \in Slugs
         /\ sessions[k].expiresAt \in Int /\ sessions[k].expiresAt \in Dates
         /\ k \in Nat /\ k # 0 /\ k \in 0..Len(sessions)
<1>1. sessions \in Seq(Session) /\ Len(sessions) \in Nat /\ k \in 1..Len(sessions)
  BY DEF CpTypeOK, Session, Tokens
<1>2. sessions[k] \in Session
  BY <1>1, ElementOfSeq
<1>3. Dates \subseteq Int
  BY ControlPlaneAssumption DEF Dates, Invalid
<1>4. sessions[k].slug \in Slugs /\ sessions[k].expiresAt \in Dates
  BY <1>2 DEF Session
<1>5. sessions[k].expiresAt \in Int
  BY <1>3, <1>4
<1>6. k \in Nat /\ k # 0 /\ k \in 0..Len(sessions)
  BY <1>1
<1> QED
  BY <1>4, <1>5, <1>6

LEMMA InitCp == CpInit => CpTypeOK /\ KeptInTime
<1> SUFFICES ASSUME CpInit PROVE CpTypeOK /\ KeptInTime
  OBVIOUS
<1>1. Len(sessions) = 0 /\ sessions \in Seq([slug : Slugs, expiresAt : Dates, drawn : BOOLEAN])
  BY DEF CpInit
<1>2. Tokens = {}
  BY <1>1 DEF Tokens
<1> QED
  BY <1>1, <1>2, ControlPlaneAssumption DEF CpInit, CpTypeOK, KeptInTime

\* A step of the control plane that creates no session.
LEMMA KeepingType ==
  ASSUME CpTypeOK, UNCHANGED sessions, now' \in 0..MaxTime,
         store' \in [Slugs -> 0..Len(sessions)], lost' \subseteq Tokens
  PROVE  CpTypeOK'
BY DEF CpTypeOK, Tokens, Dates

LEMMA CpTypeStep == CpTypeOK /\ CpNext => CpTypeOK'
<1> SUFFICES ASSUME CpTypeOK, CpNext PROVE CpTypeOK'
  OBVIOUS
<1> USE ControlPlaneAssumption
<1>0. Len(sessions) \in Nat /\ Tokens = 1..Len(sessions)
  BY DEF CpTypeOK, Tokens
<1>1. ASSUME NEW s \in Slugs, NEW d \in Lifetimes, NEW b \in BOOLEAN, Create(s, d, b)
      PROVE  CpTypeOK'
  <2>1. UNCHANGED now
    BY <1>1 DEF Create
  <2>2. lost' \subseteq Tokens'
    BY <1>1, CreateType DEF Create, CpTypeOK
  <2> QED
    BY <1>1, <2>1, <2>2, CreateType DEF CpTypeOK, Session, Dates
<1>2. ASSUME NEW s \in Slugs, NEW d \in Lifetimes, PostDesired(s, d) PROVE CpTypeOK'
  BY <1>1, <1>2 DEF PostDesired
<1>3. ASSUME NEW d \in Lifetimes, PostGenerated(d) PROVE CpTypeOK'
  BY <1>1, <1>3 DEF PostGenerated
<1>4. ASSUME NEW s \in Slugs, Delete(s) PROVE CpTypeOK'
  <2>1. store[s] \in Tokens
    BY <1>0, <1>4 DEF Delete, Has, Put, CpTypeOK
  <2>2. lost' \subseteq Tokens /\ UNCHANGED <<sessions, now>>
    BY <1>4, <2>1 DEF Delete, Has, Put, CpTypeOK
  <2>3. store' \in [Slugs -> 0..Len(sessions)]
    BY <1>0, <1>4 DEF Delete, Has, Put, CpTypeOK
  <2> QED
    BY <2>2, <2>3, KeepingType DEF CpTypeOK
<1>5. CASE Cleanup
  BY <1>0, <1>5, KeepingType DEF Cleanup, Has, CpTypeOK
<1>6. CASE Restart
  <2>0. Stored \subseteq Tokens
    BY <1>0 DEF Stored, CpTypeOK
  <2>1. lost' \subseteq Tokens /\ UNCHANGED <<sessions, now>>
    BY <1>6, <2>0 DEF Restart, CpTypeOK
  <2>2. store' \in [Slugs -> 0..Len(sessions)]
    BY <1>0, <1>6 DEF Restart
  <2> QED
    BY <2>1, <2>2, KeepingType DEF CpTypeOK
<1>7. CASE Tick
  BY <1>0, <1>7, KeepingType DEF Tick, CpTypeOK
<1> QED
  BY <1>2, <1>3, <1>4, <1>5, <1>6, <1>7 DEF CpNext

\* What is past stays past.
LEMMA PastForEver ==
  ASSUME CpTypeOK, NEW k \in Tokens, Past(k),
         sessions'[k] = sessions[k], now' \in Nat, now' >= now
  PROVE  Past(k)'
<1>1. sessions[k].expiresAt \in Int
  BY SessionType
<1> QED
  BY <1>1 DEF Past, Invalid, CpTypeOK

\* Who has been drawn away stays so.
LEMMA DrawnAwayForEver ==
  ASSUME NEW k \in Tokens, DrawnAway(k), Tokens \subseteq Tokens',
         \A j \in Tokens : sessions'[j] = sessions[j]
  PROVE  DrawnAway(k)'
BY DEF DrawnAway

\* A POST under s takes the slug from nobody, unless it is a fallback.
LEMMA CreateKeeps ==
  ASSUME CpTypeOK, KeptInTime, NEW s \in Slugs, NEW d \in Lifetimes, NEW b \in BOOLEAN,
         Create(s, d, b), store[s] = 0 \/ b
  PROVE  KeptInTime'
<1> SUFFICES ASSUME NEW k \in Tokens'
             PROVE  store'[sessions'[k].slug] = k \/ k \in lost' \/ Past(k)' \/ DrawnAway(k)'
  BY DEF KeptInTime
<1>0. /\ store' = [store EXCEPT ![s] = Len(sessions) + 1] /\ lost' = lost
      /\ now' = now /\ now \in Nat /\ Len(sessions) \in Nat
  BY DEF Create, Put, CpTypeOK
<1>1. CASE k = Len(sessions) + 1
  BY <1>0, <1>1, CreateType DEF CpTypeOK
<1>2. CASE k \in Tokens
  <2>1. sessions'[k] = sessions[k] /\ sessions[k].slug \in Slugs /\ k # 0 /\ k < Len(sessions) + 1
    BY <1>0, <1>2, CreateType, SessionType DEF Tokens
  <2>2. CASE Past(k)
    BY <1>0, <1>2, <2>1, <2>2, PastForEver
  <2>3. CASE k \in lost
    BY <1>0, <2>3
  <2>4. CASE store[sessions[k].slug] = k
    <3>1. CASE sessions[k].slug # s
      BY <1>0, <2>1, <2>4, <3>1 DEF CpTypeOK
    <3>2. CASE sessions[k].slug = s
      BY <1>0, <2>1, <2>4, <3>2, CreateType DEF DrawnAway
    <3> QED
      BY <3>1, <3>2
  <2>5. CASE DrawnAway(k)
    BY <1>2, <2>5, CreateType, DrawnAwayForEver
  <2> QED
    BY <1>2, <2>2, <2>3, <2>4, <2>5 DEF KeptInTime
<1> QED
  BY <1>1, <1>2, CreateType

\* A step that creates no session takes only slugs of sessions that it notes as
\* lost, or that are past.
LEMMA TakingKeeps ==
  ASSUME CpTypeOK, KeptInTime, UNCHANGED sessions, now' \in Nat, now' >= now,
         lost \subseteq lost',
         \A s \in Slugs :
           store'[s] = store[s] \/ store[s] = 0 \/ store[s] \in lost' \/ Past(store[s])
  PROVE  KeptInTime'
<1> SUFFICES ASSUME NEW k \in Tokens
             PROVE  store'[sessions[k].slug] = k \/ k \in lost' \/ Past(k)' \/ DrawnAway(k)'
  BY DEF KeptInTime, Tokens
<1>1. sessions[k].slug \in Slugs /\ k # 0
  BY SessionType
<1>2. CASE Past(k)
  BY <1>2, PastForEver
<1>3. CASE k \in lost
  BY <1>3
<1>4. CASE store[sessions[k].slug] = k
  BY <1>1, <1>4, PastForEver
<1>5. CASE DrawnAway(k)
  BY <1>5 DEF DrawnAway, Tokens
<1> QED
  BY <1>2, <1>3, <1>4, <1>5 DEF KeptInTime

LEMMA KeptStep == CpTypeOK /\ KeptInTime /\ CpNext => KeptInTime'
<1> SUFFICES ASSUME CpTypeOK, KeptInTime, CpNext PROVE KeptInTime'
  OBVIOUS
<1>0. now \in Nat /\ Tokens = 1..Len(sessions) /\ Len(sessions) \in Nat
      /\ ShortSlugs \subseteq Slugs /\ LongSlugs \subseteq Slugs
  BY ControlPlaneAssumption DEF CpTypeOK, Tokens
<1>1. ASSUME NEW s \in Slugs, NEW d \in Lifetimes, PostDesired(s, d) PROVE KeptInTime'
  BY <1>1, CreateKeeps DEF PostDesired, Has
<1>2. ASSUME NEW d \in Lifetimes, PostGenerated(d) PROVE KeptInTime'
  BY <1>0, <1>2, CreateKeeps DEF PostGenerated, Has
<1>3. ASSUME NEW t \in Slugs, Delete(t) PROVE KeptInTime'
  <2>1. \A s \in Slugs : store'[s] = store[s] \/ store[s] \in lost'
    BY <1>3 DEF Delete, Has, Put, CpTypeOK
  <2> QED
    BY <1>0, <1>3, <2>1, TakingKeeps DEF Delete
<1>4. CASE Cleanup
  <2>1. \A s \in Slugs : store'[s] = store[s] \/ Past(store[s])
    BY <1>4 DEF Cleanup, Has
  <2> QED
    BY <1>0, <1>4, <2>1, TakingKeeps DEF Cleanup
<1>5. CASE Restart
  <2>1. \A s \in Slugs : store[s] = 0 \/ store[s] \in lost'
    BY <1>5 DEF Restart, Stored
  <2> QED
    BY <1>0, <1>5, <2>1, TakingKeeps DEF Restart
<1>6. CASE Tick
  BY <1>0, <1>6, TakingKeeps DEF Tick
<1> QED
  BY <1>1, <1>2, <1>3, <1>4, <1>5, <1>6 DEF CpNext

-----------------------------------------------------------------------------
(* Who has a slug has it under its own name: so the sessions that are stored are those
   that are found under theirs. *)
StoreTrue == \A s \in Slugs : store[s] # 0 => sessions[store[s]].slug = s

LEMMA StoredHaveSlug ==
  ASSUME CpTypeOK, StoreTrue, NEW k \in Tokens
  PROVE  k \in Stored <=> store[sessions[k].slug] = k
BY SessionType DEF StoreTrue, Stored

LEMMA StoreTrueStep == CpTypeOK /\ StoreTrue /\ CpNext => StoreTrue'
<1> SUFFICES ASSUME CpTypeOK, StoreTrue, CpNext PROVE StoreTrue'
  OBVIOUS
<1>0. /\ Tokens = 1..Len(sessions) /\ Len(sessions) \in Nat
      /\ ShortSlugs \subseteq Slugs /\ LongSlugs \subseteq Slugs
      /\ store \in [Slugs -> 0..Len(sessions)]
  BY ControlPlaneAssumption DEF CpTypeOK, Tokens
<1>1. ASSUME NEW t \in Slugs, NEW d \in Lifetimes, NEW b \in BOOLEAN, Create(t, d, b)
      PROVE  StoreTrue'
  <2> SUFFICES ASSUME NEW s \in Slugs, store'[s] # 0 PROVE sessions'[store'[s]].slug = s
    BY DEF StoreTrue
  <2>1. store' = [store EXCEPT ![t] = Len(sessions) + 1]
    BY <1>1 DEF Create, Put
  <2>2. CASE s = t
    BY <1>0, <1>1, <2>1, <2>2, CreateType
  <2>3. CASE s # t
    <3>1. store'[s] = store[s] /\ store[s] \in Tokens
      BY <1>0, <2>1, <2>3
    <3> QED
      BY <1>1, <3>1, CreateType DEF StoreTrue
  <2> QED
    BY <2>2, <2>3
<1>2. CASE \E d \in Lifetimes : PostGenerated(d) \/ \E s \in Slugs : PostDesired(s, d)
  BY <1>0, <1>1, <1>2 DEF PostGenerated, PostDesired
<1>3. ASSUME UNCHANGED sessions, \A s \in Slugs : store'[s] \in {0, store[s]}
      PROVE  StoreTrue'
  BY <1>3 DEF StoreTrue
<1> QED
  BY <1>0, <1>2, <1>3 DEF CpNext, Delete, Put, Cleanup, Restart, Tick

\* A session that is no longer stored does not come back.
LEMMA GoneStaysGone ==
  ASSUME CpTypeOK, CpNext, NEW k \in Tokens, k \notin Stored
  PROVE  k \notin Stored'
<1>0. /\ Tokens = 1..Len(sessions) /\ Len(sessions) \in Nat
      /\ ShortSlugs \subseteq Slugs /\ LongSlugs \subseteq Slugs
      /\ store \in [Slugs -> 0..Len(sessions)]
  BY ControlPlaneAssumption DEF CpTypeOK, Tokens
<1>1. k # Len(sessions) + 1
  BY <1>0
<1>2. ASSUME \A s \in Slugs : store'[s] \in {0, store[s], Len(sessions) + 1}
      PROVE  k \notin Stored'
  BY <1>1, <1>2 DEF Stored
<1>3. ASSUME NEW t \in Slugs, NEW d \in Lifetimes, NEW b \in BOOLEAN, Create(t, d, b)
      PROVE  k \notin Stored'
  BY <1>0, <1>2, <1>3 DEF Create, Put
<1>4. CASE \E d \in Lifetimes : PostGenerated(d) \/ \E s \in Slugs : PostDesired(s, d)
  BY <1>0, <1>3, <1>4 DEF PostGenerated, PostDesired
<1> QED
  BY <1>0, <1>2, <1>4 DEF CpNext, Delete, Put, Cleanup, Restart, Tick

\* Every step of the control plane leaves the sessions there are as they are, and
\* forgets none that was lost.
LEMMA SessionsStay ==
  ASSUME CpTypeOK, CpNext
  PROVE  /\ Tokens \subseteq Tokens'
         /\ \A k \in Tokens : sessions'[k] = sessions[k]
         /\ lost \subseteq lost'
<1>0. ShortSlugs \subseteq Slugs /\ LongSlugs \subseteq Slugs
  BY ControlPlaneAssumption
<1>1. ASSUME NEW s \in Slugs, NEW d \in Lifetimes, NEW b \in BOOLEAN, Create(s, d, b)
      PROVE  /\ Tokens \subseteq Tokens' /\ lost \subseteq lost'
             /\ \A k \in Tokens : sessions'[k] = sessions[k]
  BY <1>1, CreateType DEF Create
<1>2. CASE \E d \in Lifetimes : PostGenerated(d) \/ \E s \in Slugs : PostDesired(s, d)
  BY <1>0, <1>1, <1>2 DEF PostGenerated, PostDesired
<1>3. CASE UNCHANGED sessions /\ lost \subseteq lost'
  BY <1>3 DEF Tokens
<1> QED
  BY <1>2, <1>3 DEF CpNext, Delete, Cleanup, Restart, Tick

=============================================================================
