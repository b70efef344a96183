-------------------------- MODULE SessionFileProofs --------------------------
(***************************************************************************)
(* For every set of CLIs, slugs and lifetimes: what p.json tells, and that *)
(* "online" is said of nothing that was over before the question.          *)
(***************************************************************************)
EXTENDS SessionFile, ControlPlaneProofs

\* Who is about to write to an untouched p.json has the empty file open.
WriterHasFile ==
  \A c \in Clis : pc[c] = "write" /\ c \notin touched => file = "empty" /\ c \in linked

FileInv ==
  /\ file \in Clis \cup {None, "empty", "torn"}
  /\ linked \subseteq Clis
  /\ pc \in [Clis -> {"off", "save", "write", "connecting", "up", "ended", "crashed"}]
  /\ WriterHasFile
  /\ FileIsMine
  /\ LeftoverOnlyByCrash

LEMMA FileStep == FileInv /\ [Next]_vars => FileInv'
<1> SUFFICES ASSUME FileInv, [Next]_vars PROVE FileInv'
  OBVIOUS
<1> USE SessionFileAssumption DEF FileInv, WriterHasFile, FileIsMine, LeftoverOnlyByCrash
<1>1. ASSUME NEW c \in Clis, Posts(c) PROVE FileInv'
  <2>1. \E p \in {"ended", "save"} : pc' = [pc EXCEPT ![c] = p]
    BY <1>1 DEF Posts, Becomes
  <2> QED
    BY <1>1, <2>1 DEF Posts, fileVars
<1>2. ASSUME NEW c \in Clis, Refused(c) PROVE FileInv'
  BY <1>2 DEF Refused, Becomes, fileVars
<1>3. ASSUME NEW c \in Clis, OpenFile(c) PROVE FileInv'
  BY <1>3 DEF OpenFile, Becomes, Touches, Running
<1>4. ASSUME NEW c \in Clis, WriteFile(c) PROVE FileInv'
  <2>1. CASE c \in linked
    BY <1>4, <2>1 DEF WriteFile, Becomes, Touches, Running
  <2>2. CASE c \notin linked
    BY <1>4, <2>2 DEF WriteFile, Becomes
  <2> QED
    BY <2>1, <2>2
<1>5. ASSUME NEW c \in Clis, Connected(c) PROVE FileInv'
  BY <1>5 DEF Connected, Becomes, fileVars
<1>6. ASSUME NEW c \in Clis, Exit(c) PROVE FileInv'
  BY <1>6 DEF Exit, Becomes, ClearSession, Touches, Running
<1>7. ASSUME NEW c \in Clis, Crash(c) PROVE FileInv'
  BY <1>7 DEF Crash, Becomes, Running
<1>8. CASE UNCHANGED <<fileVars, pc>>
  BY <1>8 DEF fileVars
<1>9. CASE \E c \in Clis : Cli(c)
  BY <1>1, <1>2, <1>3, <1>4, <1>5, <1>6, <1>7, <1>8, <1>9 DEF Cli, PidReused
<1> QED
  BY <1>8, <1>9 DEF Next, StatusLoads, StatusProbes, StatusAsks, StatusAnswered, StatusPrints,
     ControlPlaneSteps, vars

\* However the runs of the CLI and of the status command interleave, p.json tells of
\* a running tunnel until another CLI touches it.
THEOREM FileStaysMine == Spec => []FileIsMine
<1>1. Init => FileInv
  BY SessionFileAssumption DEF Init, FileInv, WriterHasFile, FileIsMine, LeftoverOnlyByCrash
<1>2. FileInv => FileIsMine
  BY DEF FileInv
<1> QED
  BY <1>1, <1>2, FileStep, PTL DEF Spec

\* A file left behind is the trace of a crash.
THEOREM OrderlyEndClears == Spec => []LeftoverOnlyByCrash
<1>1. Init => FileInv
  BY SessionFileAssumption DEF Init, FileInv, WriterHasFile, FileIsMine, LeftoverOnlyByCrash
<1>2. FileInv => LeftoverOnlyByCrash
  BY DEF FileInv
<1> QED
  BY <1>1, <1>2, FileStep, PTL DEF Spec

-----------------------------------------------------------------------------
\* A CLI that got as far as saving has a session.
SavedHaveSession ==
  \A c \in Clis : pc[c] \notin {"off", "ended"} => sess[c] \in Tokens

FoundOut == [of : Clis, at : {"loaded", "probed", "answered"}, alive : BOOLEAN,
             active : BOOLEAN, over : SUBSET Clis, gone : SUBSET Nat]

\* What a status command has found out so far, and when it began.
StatusTrue ==
  status # None =>
    /\ status \in FoundOut
    /\ pc[status.of] # "off" /\ sess[status.of] \in Tokens
    /\ status.gone \subseteq Tokens \ Stored
    /\ status.over \subseteq Over
    /\ status.alive => status.of \notin status.over
    /\ status.active => sess[status.of] \notin status.gone

StatusInv ==
  /\ CpTypeOK /\ StoreTrue /\ FileInv
  /\ sess \in [Clis -> Nat]
  /\ SavedHaveSession /\ StatusTrue

LEMMA ControlPlaneMoves ==
  ASSUME [Next]_vars PROVE CpNext \/ UNCHANGED cpVars
BY DEF Next, Cli, Posts, Refused, OpenFile, WriteFile, Connected, Exit, Crash, PidReused,
   StatusLoads, StatusProbes, StatusAsks, StatusAnswered, StatusPrints, ControlPlaneSteps, CpNext, vars

\* A session the control plane calls active is stored.
LEMMA ActiveIsStored ==
  ASSUME StatusInv, NEW k \in Tokens, SaysActive(k) PROVE k \in Stored
<1>1. sessions[k].slug \in Slugs /\ k # 0
  BY SessionType DEF StatusInv
<1>2. ValidateToken(sessions[k].slug, k) = "ok"
  <2>1. Get(sessions[k].slug, k) = "active"
    BY DEF SaysActive
  <2>2. CASE ValidateToken(sessions[k].slug, k) # "ok"
    BY <2>1, <2>2, SMT DEF Get, ValidateToken
  <2> QED
    BY <2>2
<1>3. store[sessions[k].slug] = k
  BY <1>1, <1>2 DEF ValidateToken, Has
<1> QED
  BY <1>3, StoredHaveSlug DEF StatusInv

LEMMA StatusStep == StatusInv /\ [Next]_vars => StatusInv'
<1> SUFFICES ASSUME StatusInv, [Next]_vars PROVE StatusInv'
  OBVIOUS
<1>1. /\ CpTypeOK' /\ StoreTrue' /\ Tokens \subseteq Tokens' /\ FileInv'
      /\ Tokens \ Stored \subseteq Tokens' \ Stored'
  <2>1. FileInv'
    BY FileStep DEF StatusInv
  <2>2. CASE CpNext
    BY <2>1, <2>2, CpTypeStep, StoreTrueStep, SessionsStay, GoneStaysGone DEF StatusInv
  <2>3. CASE UNCHANGED cpVars
    BY <2>1, <2>3 DEF StatusInv, cpVars, CpTypeOK, StoreTrue, Stored, Tokens, Dates, Invalid
  <2> QED
    BY <2>2, <2>3, ControlPlaneMoves
<1>2. /\ Tokens \subseteq Nat /\ Len(sessions) \in Nat
      /\ pc \in [Clis -> {"off", "save", "write", "connecting", "up", "ended", "crashed"}]
  BY DEF StatusInv, CpTypeOK, Tokens, FileInv
<1>3. ASSUME NEW c \in Clis, Posts(c) PROVE StatusInv'
  <2>1. Len(sessions) + 1 \in Tokens'
    BY <1>3, CreateType, ControlPlaneAssumption DEF Posts, PostGenerated, PostDesired, StatusInv
  <2>2. \E p \in {"ended", "save"} : pc' = [pc EXCEPT ![c] = p]
    BY <1>3 DEF Posts, Becomes
  <2>3. sess' = [sess EXCEPT ![c] = Len(sessions) + 1] /\ pc[c] = "off"
    BY <1>3 DEF Posts
  <2>4. SavedHaveSession'
    BY <1>1, <1>2, <2>1, <2>2, <2>3 DEF StatusInv, SavedHaveSession
  <2>5. StatusTrue'
    BY <1>1, <1>2, <1>3, <2>2, <2>3 DEF StatusInv, StatusTrue, FoundOut, Over, Posts, statusVars
  <2> QED
    BY <1>1, <1>2, <2>3, <2>4, <2>5 DEF StatusInv
<1>4. ASSUME NEW c \in Clis, pc[c] \notin {"off", "ended", "crashed"},
             NEW p \in {"write", "connecting", "up", "ended", "crashed"},
             pc' = [pc EXCEPT ![c] = p], UNCHANGED <<sess, status>>
      PROVE  StatusInv'
  <2>1. SavedHaveSession'
    BY <1>1, <1>2, <1>4 DEF StatusInv, SavedHaveSession
  <2>2. StatusTrue'
    BY <1>1, <1>2, <1>4 DEF StatusInv, StatusTrue, FoundOut, Over
  <2> QED
    BY <1>1, <1>4, <2>1, <2>2 DEF StatusInv
<1>5. ASSUME NEW c \in Clis, Refused(c) PROVE StatusInv'
  <2>1. pc' = [pc EXCEPT ![c] = "ended"] /\ UNCHANGED <<sess, status>>
    BY <1>5 DEF Refused, Becomes, statusVars
  <2>2. SavedHaveSession'
    BY <1>1, <1>2, <2>1 DEF StatusInv, SavedHaveSession
  <2>3. StatusTrue'
    BY <1>1, <1>2, <2>1 DEF StatusInv, StatusTrue, FoundOut, Over
  <2> QED
    BY <1>1, <2>1, <2>2, <2>3 DEF StatusInv
<1>6. CASE UNCHANGED <<pc, sess, status>>
  <2>1. SavedHaveSession'
    BY <1>1, <1>6 DEF StatusInv, SavedHaveSession
  <2>2. StatusTrue'
    BY <1>1, <1>6 DEF StatusInv, StatusTrue, FoundOut, Over
  <2> QED
    BY <1>1, <1>6, <2>1, <2>2 DEF StatusInv
<1>7. ASSUME NEW c \in Clis, Cli(c) PROVE StatusInv'
  BY <1>3, <1>4, <1>5, <1>6, <1>7 DEF Cli, OpenFile, WriteFile, Connected, Exit, Crash,
     PidReused, Becomes, Running, statusVars
<1>8. CASE StatusLoads
  <2>1. CASE file \notin Clis
    BY <1>6, <1>8, <2>1 DEF StatusLoads, LoadSession
  <2>2. CASE file \in Clis
    <3> DEFINE found == [of |-> file, at |-> "loaded", alive |-> FALSE, active |-> FALSE,
                         over |-> Over, gone |-> Tokens \ Stored]
    <3>1. status' = found /\ UNCHANGED <<pc, sess>>
      BY <1>8, <2>2, SessionFileAssumption DEF StatusLoads, LoadSession, cpVars
    <3>2. found \in FoundOut
      BY <1>2, <2>2 DEF FoundOut, Over
    <3>3. pc[file] # "off" /\ sess[file] \in Tokens
      BY <2>2 DEF StatusInv, FileInv, LeftoverOnlyByCrash, SavedHaveSession
    <3>4. Over' = Over
      BY <3>1 DEF Over
    <3>5. StatusTrue'
      BY <1>1, <3>1, <3>2, <3>3, <3>4 DEF StatusTrue
    <3> QED
      BY <1>1, <3>1, <3>5 DEF StatusInv, SavedHaveSession
  <2> QED
    BY <2>1, <2>2
<1>12. CASE StatusProbes
  <2>1. status # None /\ status \in FoundOut /\ UNCHANGED <<pc, sess>>
        /\ status' = [status EXCEPT !.at = "probed", !.alive = Alive(status.of), !.over = @ \ reused]
    BY <1>12 DEF StatusProbes, StatusInv, StatusTrue, cpVars
  <2>a. Alive(status.of) \in BOOLEAN
    BY DEF Alive
  <2>2. status' \in FoundOut /\ status'.of = status.of /\ status'.gone = status.gone
        /\ status'.alive = Alive(status.of) /\ status'.active = status.active
        /\ status'.over = status.over \ reused
    BY <2>1, <2>a DEF FoundOut
  <2>3. status.over \subseteq Over /\ Over' = Over
    BY <2>1 DEF StatusInv, StatusTrue, Over
  <2>4. Alive(status.of) => status.of \notin status.over \ reused
    BY <2>3 DEF Alive, Running, Over
  <2>5. StatusTrue'
    BY <1>1, <2>1, <2>2, <2>3, <2>4 DEF StatusInv, StatusTrue
  <2> QED
    BY <1>1, <2>1, <2>5 DEF StatusInv, SavedHaveSession
<1>9. ASSUME NEW b \in BOOLEAN, StatusAnswered(b), b => sess[status.of] \in Stored
      PROVE  StatusInv'
  <2>1. status # None /\ status \in FoundOut /\ status' = [status EXCEPT !.at = "answered", !.active = b]
        /\ UNCHANGED <<pc, sess>> /\ Over' = Over
    BY <1>9 DEF StatusAnswered, StatusInv, StatusTrue, cpVars, Over
  <2>2. status' \in FoundOut /\ status'.of = status.of /\ status'.gone = status.gone
        /\ status'.alive = status.alive /\ status'.over = status.over /\ status'.active = b
    BY <2>1 DEF FoundOut
  <2>3. StatusTrue'
    BY <1>1, <1>9, <2>1, <2>2 DEF StatusInv, StatusTrue
  <2> QED
    BY <1>1, <2>1, <2>3 DEF StatusInv, SavedHaveSession
<1>10. CASE StatusAsks
  <2>1. CASE StatusAnswered(FALSE)
    BY <1>9, <2>1
  <2>2. CASE status # None /\ StatusAnswered(SaysActive(sess[status.of]))
    <3>1. sess[status.of] \in Tokens
      BY <2>2 DEF StatusInv, StatusTrue
    <3>2. SaysActive(sess[status.of]) \in BOOLEAN
      BY DEF SaysActive
    <3>3. SaysActive(sess[status.of]) => sess[status.of] \in Stored
      BY <3>1, ActiveIsStored
    <3> QED
      BY <1>9, <2>2, <3>2, <3>3
  <2> QED
    BY <1>10, <2>1, <2>2 DEF StatusAsks
<1>11. CASE StatusPrints
  <2>1. StatusTrue'
    BY <1>11 DEF StatusPrints, StatusTrue
  <2> QED
    BY <1>1, <1>11, <2>1 DEF StatusPrints, StatusInv, SavedHaveSession
<1> QED
  BY <1>6, <1>7, <1>8, <1>10, <1>11, <1>12 DEF Next, ControlPlaneSteps, statusVars, vars

\* Overall Status: online names no tunnel that was over, and no session that the
\* control plane no longer had, when the command began.
THEOREM OnlineWasThere == Spec => OnlineIsReal
<1> DEFINE Real == report' = "online" /\ report # "online" =>
                     /\ status.of \notin status.over
                     /\ sess[status.of] \notin status.gone
                     /\ sessions[sess[status.of]].expiresAt > now
<1>1. Init => StatusInv
  <2> SUFFICES ASSUME Init PROVE StatusInv
    OBVIOUS
  <2>1. CpTypeOK
    BY InitCp DEF Init
  <2>2. FileInv
    BY SessionFileAssumption DEF Init, FileInv, WriterHasFile, FileIsMine, LeftoverOnlyByCrash
  <2> QED
    BY <2>1, <2>2 DEF Init, CpInit, StatusInv, StoreTrue, SavedHaveSession, StatusTrue
<1>2. StatusInv /\ [Next]_vars => [Real]_vars
  <2> SUFFICES ASSUME StatusInv, Next, report' = "online", report # "online" PROVE Real
    BY DEF vars, statusVars
  <2>1. StatusPrints
    BY DEF Next, Cli, Posts, Refused, OpenFile, WriteFile, Connected, Exit, Crash, PidReused,
       StatusLoads, StatusProbes, StatusAsks, StatusAnswered, ControlPlaneSteps, statusVars
  <2>2. Overall = "online" /\ status # None
    BY <2>1 DEF StatusPrints
  <2> QED
    BY <2>2 DEF Overall, StatusInv, StatusTrue
<1> QED
  BY <1>1, <1>2, StatusStep, PTL DEF Spec, OnlineIsReal

=============================================================================
