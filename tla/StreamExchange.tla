--------------------------- MODULE StreamExchange ---------------------------
(***************************************************************************)
(* Both ends of one tunnel: the gateway of Multiplex and the CLI of        *)
(* LocalProxy, joined by the frames in flight between them.  The tunnel    *)
(* stays up and nobody closes it: its loss, and Close with its             *)
(* CloseAllStreams, are in Multiplex.                                      *)
(***************************************************************************)
EXTENDS Multiplex

CONSTANT MaxChunks  \* bound: chunks of a local response body

\* What the gateway receives are frames of responses, numbered by request.
ASSUME ExchangeAssumption ==
  /\ MaxChunks \in Nat
  /\ Requests \X (0..MaxChunks + 1) \subseteq Bodies
  /\ None \notin [meta : Requests, chunks : Seq(Requests \X Nat)]

VARIABLES
  pending, call, callId, body, chunks,   \* the CLI, as in LocalProxy
  tainted   \* requests whose identifier was given up unfinished before

Cli == INSTANCE LocalProxy

proxyVars == <<pending, call, callId, body, chunks>>
exVars    == <<vars, proxyVars, tainted>>

-----------------------------------------------------------------------------
\* The last frame of an exchange has been taken: nothing is under way for it.
Ended(r) == got[r] # <<>> /\ got[r][Len(got[r])].type \in {"end", "rst"}

\* A request takes over an identifier cleanly when every request that had it
\* before has taken the last frame of its response.
TakesOver(r, i) ==
  \E q \in Requests \ {r} : sid[q] = i /\ (~Ended(q) \/ q \in tainted)

ExInit == Init /\ Cli!CliInit /\ tainted = {}

GatewayStep ==
  /\ GwNext
  /\ UNCHANGED <<close, link>>
  /\ tainted' = tainted \cup
       {r \in Requests : sid[r] = 0 /\ sid'[r] # 0 /\ TakesOver(r, sid'[r])}
  /\ UNCHANGED proxyVars

HandleFrame ==
  /\ toCli # <<>>
  /\ toCli' = Tail(toCli)
  /\ Cli!OnStreamFrame(Head(toCli))
  /\ UNCHANGED toGw

\* ws.send on a socket that is open.
HandleStream(r) ==
  \E t \in Cli!AnswerTypes :
    /\ Cli!HandleStream(r, t)
    /\ toGw' = Append(toGw, Cli!AnswerFrame(r, t))
    /\ UNCHANGED toCli

CliStep ==
  /\ crash = "none"
  /\ HandleFrame \/ \E r \in Requests : HandleStream(r)
  /\ UNCHANGED <<gwVars, peerSent, tainted>>

ExNext == GatewayStep \/ CliStep

ExSpec == ExInit /\ [][ExNext]_exVars

-----------------------------------------------------------------------------
\* No cross-talk: as long as identifiers are only taken over cleanly, a request
\* is given frames of its own response and of no other, without a gap.
OwnResponse ==
  \A r \in Requests \ tainted :
    \A k \in 1..Len(got[r]) : got[r][k].body[1] = r /\
      (got[r][k].type # "rst" => got[r][k].body[2] = k - 1)

\* A response that counts as complete is the whole response: every chunk the local
\* server has sent, no matter what else the tunnel was doing.
CompleteIsWhole ==
  \A r \in Requests \ tainted :
    resp[r] = "complete" =>
      call[r] = "over" /\ Len(got[r]) = chunks[r] + 2

\* The local server is given the whole body of the request and nothing of another,
\* even under an identifier that was given up in the middle of an earlier body.
UploadIntact ==
  \A r \in Requests : call[r] # "none" =>
    body[r] = [n \in 1..sent[r] |-> <<r, n>>]

\* While nobody closes the tunnel, and with a CLI that answers properly, the reader
\* can only hit a closed channel if the request gave up before its response ended (or
\* one before it under the same identifier did).  The other way to the same panic, a
\* Close by another goroutine between GetStream and the select, is in Multiplex, where
\* SelectPanic allows both.
PanicNeedsEarlyEnd ==
  crash = "send on closed channel" => ~Ended(rstream) \/ rstream \in tainted

=============================================================================
