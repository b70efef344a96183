----------------------------- MODULE SessionFile -----------------------------
(***************************************************************************)
(* ~/.stoat/p.json, the one file in which every `stoat http` of a user     *)
(* leaves its session, and `stoat status`, which reads it                  *)
(* (packages/cli/src/session.ts, commands/http.ts, commands/status.ts).    *)
(*                                                                         *)
(* Processes interleave at their system calls: writeFileSync opens the     *)
(* file, which empties it, and then writes; status reads the file, probes  *)
(* the process, asks the control plane and looks at the clock.             *)
(***************************************************************************)
EXTENDS ControlPlane

CONSTANTS
  Clis,   \* runs of `stoat http`, each with its pid
  None

ASSUME SessionFileAssumption ==
  /\ None \notin Clis /\ Clis \cap {"empty", "torn"} = {}
  /\ None \notin {"empty", "torn"}

VARIABLES
  file,    \* p.json: None, "empty", the CLI it tells of, or "torn": not JSON
  linked,  \* CLIs with p.json open for writing
  pc,      \* what each CLI is at
  sess,    \* the session of each CLI, or 0
  reused,  \* CLIs that are over and whose pid another process has
  touched, \* history: CLIs to which another one emptied, wrote or removed p.json
  status,  \* `stoat status`: what it has found out, or None
  report   \* Overall Status as printed, "none" for "No active tunnel."

fileVars   == <<file, linked, touched>>
statusVars == <<status, report>>
vars == <<cpVars, fileVars, pc, sess, reused, statusVars>>

Running == {c \in Clis : pc[c] \in {"save", "write", "connecting", "up"}}
Over    == {c \in Clis : pc[c] \in {"ended", "crashed"}}

TypeOK ==
  /\ CpTypeOK
  /\ file \in Clis \cup {None, "empty", "torn"}
  /\ linked \subseteq {c \in Clis : pc[c] = "write"}
  /\ pc \in [Clis -> {"off", "save", "write", "connecting", "up", "ended", "crashed"}]
  /\ sess \in [Clis -> 0..Len(sessions)]
  /\ reused \subseteq Over
  /\ touched \subseteq Clis
  /\ report \in {"", "none", "online", "offline"}

Init ==
  /\ CpInit
  /\ file = None /\ linked = {} /\ touched = {}
  /\ pc = [c \in Clis |-> "off"] /\ sess = [c \in Clis |-> 0]
  /\ reused = {}
  /\ status = None /\ report = ""

-----------------------------------------------------------------------------
\* What the handlers are made of.

Becomes(c, p) == pc' = [pc EXCEPT ![c] = p]

\* The others find p.json changed by c, if they have begun to save.
Touches(c) == touched' = touched \cup {d \in Running \ {c} : pc[d] # "save"}

\* clearSession, whoever wrote the file; a writer that has it open writes to a
\* file without a name.
ClearSession(c) == file' = None /\ linked' = {} /\ Touches(c)

\* isProcessAlive
Alive(c) == c \in Running \cup reused

-----------------------------------------------------------------------------
\* stoat http

(* POST /sessions, for a slug of one's own or not.  An answer that is not ok
   (here the 500 for a date that cannot be written) is the end. *)
Posts(c) ==
  /\ pc[c] = "off"
  /\ \E d \in Lifetimes :
       /\ PostGenerated(d) \/ \E s \in Slugs : PostDesired(s, d)
       /\ Becomes(c, IF DateOf(now + d) = Invalid THEN "ended" ELSE "save")
  /\ sess' = [sess EXCEPT ![c] = Len(sessions) + 1]
  /\ UNCHANGED <<fileVars, reused, statusVars>>

\* 409, or no control plane.
Refused(c) ==
  /\ pc[c] = "off"
  /\ Becomes(c, "ended")
  /\ UNCHANGED <<cpVars, fileVars, sess, reused, statusVars>>

\* saveSession
OpenFile(c) ==
  /\ pc[c] = "save"
  /\ file' = "empty" /\ linked' = linked \cup {c} /\ Touches(c)
  /\ Becomes(c, "write")
  /\ UNCHANGED <<cpVars, sess, reused, statusVars>>

(* What is there is written over from the beginning: when it is longer, its end
   stays. *)
WriteFile(c) ==
  /\ pc[c] = "write"
  /\ IF c \in linked
     THEN /\ file' \in {c} \cup (IF file = "empty" THEN {} ELSE {"torn"})
          /\ Touches(c)
     ELSE UNCHANGED <<file, touched>>
  /\ linked' = linked \ {c}
  /\ Becomes(c, "connecting")
  /\ UNCHANGED <<cpVars, sess, reused, statusVars>>

Connected(c) ==
  /\ pc[c] = "connecting"
  /\ Becomes(c, "up")
  /\ UNCHANGED <<cpVars, fileVars, sess, reused, statusVars>>

\* A slip: this end leaves the file where it is.
ExitKeepsFile(c) ==
  /\ pc[c] \in {"connecting", "up"}
  /\ Becomes(c, "ended")
  /\ UNCHANGED <<cpVars, fileVars, sess, reused, statusVars>>

(* Q, SIGINT, SIGTERM, GO_AWAY from the overlay or at the expiry, a first
   connect() that fails: the file goes, the session stays at the control plane. *)
Exit(c) ==
  /\ pc[c] \in {"connecting", "up"}
  /\ Becomes(c, "ended")
  /\ ClearSession(c)
  /\ UNCHANGED <<cpVars, sess, reused, statusVars>>

(* A kill, a signal before its handler is there, a frame that is not JSON or a
   PONG that throws in an async handler nobody waits for: nothing is cleared. *)
Crash(c) ==
  /\ c \in Running
  /\ Becomes(c, "crashed")
  /\ linked' = linked \ {c}
  /\ UNCHANGED <<cpVars, file, touched, sess, reused, statusVars>>

PidReused(c) ==
  /\ c \in Over \ reused
  /\ reused' = reused \cup {c}
  /\ UNCHANGED <<cpVars, fileVars, pc, sess, statusVars>>

-----------------------------------------------------------------------------
\* stoat status

\* loadSession: a file that is not there, or not JSON, is no session.
LoadSession == IF file \in Clis THEN file ELSE None

(* over and gone are history: the processes that were over, and the sessions that
   the control plane no longer had, when the command began. *)
StatusLoads ==
  /\ status = None
  /\ IF LoadSession # None
     THEN /\ status' = [of |-> LoadSession, at |-> "loaded", alive |-> FALSE,
                        active |-> FALSE, over |-> Over, gone |-> Tokens \ Stored]
          /\ report' = ""
     ELSE report' = "none" /\ UNCHANGED status
  /\ UNCHANGED <<cpVars, fileVars, pc, sess, reused>>

\* (A process whose pid has a new owner by now no longer counts as over.)
StatusProbes ==
  /\ status # None /\ status.at = "loaded"
  /\ status' = [status EXCEPT !.at = "probed", !.alive = Alive(status.of), !.over = @ \ reused]
  /\ UNCHANGED <<cpVars, fileVars, pc, sess, reused, report>>

\* A slip: any answer counts as active.
AnyAnswerCounts(k) == TRUE

\* The answer to GET /sessions/{slug}; there may be none.
StatusAnswered(isActive) ==
  /\ status # None /\ status.at = "probed"
  /\ status' = [status EXCEPT !.at = "answered", !.active = isActive]
  /\ UNCHANGED <<cpVars, fileVars, pc, sess, reused, report>>

SaysActive(k) == Get(sessions[k].slug, k) = "active"

StatusAsks ==
  \/ StatusAnswered(FALSE)
  \/ status # None /\ StatusAnswered(SaysActive(sess[status.of]))

Overall ==
  IF status.alive /\ status.active /\ sessions[sess[status.of]].expiresAt > now
  THEN "online" ELSE "offline"

\* A slip: status tidies up behind a tunnel that is offline.
StatusPrintsTidying ==
  /\ status # None /\ status.at = "answered"
  /\ report' = Overall
  /\ status' = None
  /\ IF Overall = "offline" THEN file' = None /\ linked' = {} ELSE UNCHANGED <<file, linked>>
  /\ UNCHANGED <<cpVars, touched, pc, sess, reused>>

StatusPrints ==
  /\ status # None /\ status.at = "answered"
  /\ report' = Overall
  /\ status' = None
  /\ UNCHANGED <<cpVars, fileVars, pc, sess, reused>>

-----------------------------------------------------------------------------
ControlPlaneSteps ==
  /\ Cleanup \/ Restart \/ Tick \/ \E s \in Slugs : Delete(s)
  /\ UNCHANGED <<fileVars, pc, sess, reused, statusVars>>

Cli(c) ==
  \/ Posts(c) \/ Refused(c) \/ OpenFile(c) \/ WriteFile(c) \/ Connected(c)
  \/ Exit(c) \/ Crash(c) \/ PidReused(c)

Next ==
  \/ \E c \in Clis : Cli(c)
  \/ StatusLoads \/ StatusProbes \/ StatusAsks \/ StatusPrints
  \/ ControlPlaneSteps

Spec == Init /\ [][Next]_vars

-----------------------------------------------------------------------------
\* Properties.

(* While a tunnel runs, p.json tells of it: no crash of an earlier run, no status
   command and no control plane in between takes it away; only another `stoat
   http` of the same user does, by its own saveSession or clearSession. *)
FileIsMine ==
  \A c \in Clis : pc[c] \in {"connecting", "up"} /\ c \notin touched => file = c

(* A p.json that tells of a process that is over is what a crash leaves: every
   orderly end takes the file along, and no write of an ended run comes late. *)
LeftoverOnlyByCrash ==
  file \in Clis => pc[file] \in {"connecting", "up", "crashed"}

(* "online" is never said of a tunnel that was over before the command, unless its
   pid has a new owner, nor of a session that the control plane no longer had
   before it, however it went, nor past its time: however the file, the processes
   and the store change while status reads one after the other. *)
OnlineIsReal ==
  [][report' = "online" /\ report # "online" =>
       /\ status.of \notin status.over
       /\ sess[status.of] \notin status.gone
       /\ sessions[sess[status.of]].expiresAt > now]_vars
=============================================================================
