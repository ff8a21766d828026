----------------------------- MODULE Negotiation -----------------------------
(***************************************************************************)
(* The negotiation of one stream between the server (rtpconn/webclient.go) *)
(* and a page (static/protocol.js), in either direction.  The offering side*)
(* has something to agree on, the version of its tracks and the generation *)
(* of its ICE, and both change while an offer is under way.  The server    *)
(* handles a message in one step; the page awaits its peer connection, and *)
(* goes on receiving meanwhile.  Candidates are found by either side when  *)
(* it has a local description.  External: peer connections and the browser,*)
(* which fires onnegotiationneeded once while the connection is stable.    *)
(***************************************************************************)
EXTENDS Naturals, Sequences, FiniteSets

CONSTANTS
    MaxTracks,    \* how often the tracks change
    MaxRestarts,  \* how often ICE is restarted
    MaxTries,     \* how many candidates each side finds
    MaxWaiting    \* how many messages may wait in a direction

NegotiationAssumption == MaxTries \in Nat

VARIABLES
    direction,    \* "down" or "up"
    peer,         \* the server's connection
    jsEnd,        \* the page's stream
    fromServer, fromPage,  \* messages under way
    owed,         \* history: a restart was asked for and not offered since
    asked         \* how many restarts were asked for

negotiationVars ==
    <<direction, peer, jsEnd, fromServer, fromPage, owed, asked>>

Candidates == 1..MaxTries

(* What is agreed on: tracks and ICE.                                      *)
Terms == [tracks : 0..(MaxTracks + 1), ice : 0..MaxRestarts]
None == [tracks |-> 0, ice |-> 0]

Messages ==
    [type : {"offer", "answer"}, terms : Terms]
      \cup [type : {"ice"}, candidate : Candidates]
      \cup [type : {"renegotiate", "close", "abort"}]

TypeOK ==
    /\ direction \in {"down", "up"}
    /\ peer \in [open : BOOLEAN, offered : BOOLEAN, needed : 0..2,
                 remote : BOOLEAN, terms : Terms, found : SUBSET Candidates,
                 held : SUBSET Candidates, got : SUBSET Candidates]
    /\ jsEnd \in [open : BOOLEAN,
                  await : {"none", "remote", "create", "local"},
                  offered : BOOLEAN, fired : BOOLEAN, remote : BOOLEAN,
                  localDescriptionSent : BOOLEAN, described : BOOLEAN,
                  terms : Terms, proposed : Terms, found : SUBSET Candidates,
                  localIceCandidates : SUBSET Candidates,
                  remoteIceCandidates : SUBSET Candidates,
                  got : SUBSET Candidates]
    /\ fromServer \in Seq(Messages) /\ fromPage \in Seq(Messages)
    /\ Len(fromServer) <= MaxWaiting + MaxTries + 3
    /\ Len(fromPage) <= MaxWaiting + MaxTries + 3
    /\ owed \in BOOLEAN /\ asked \in 0..MaxRestarts

(* A down stream starts with the server's connection, an up stream with the*)
(* page's.                                                                 *)
Init ==
    /\ direction \in {"down", "up"}
    /\ peer = [open |-> direction = "down", offered |-> FALSE, needed |-> 0,
               remote |-> FALSE, terms |-> None, found |-> {}, held |-> {},
               got |-> {}]
    /\ jsEnd = [open |-> direction = "up",
                await |-> "none", offered |-> FALSE, fired |-> FALSE,
                remote |-> FALSE, localDescriptionSent |-> FALSE,
                described |-> FALSE, terms |-> None, proposed |-> None,
                found |-> {}, localIceCandidates |-> {},
                remoteIceCandidates |-> {}, got |-> {}]
    /\ fromServer = <<>> /\ fromPage = <<>>
    /\ owed = FALSE /\ asked = 0

Message(type) == [type |-> type]
Ice(k) == [type |-> "ice", candidate |-> k]
Room == Len(fromServer) < MaxWaiting /\ Len(fromPage) < MaxWaiting

(* Sent in some order.                                                     *)
Sends(candidates) ==
    {s \in [1..Cardinality(candidates) -> {Ice(k) : k \in candidates}] :
       \A i, j \in DOMAIN s : i # j => s[i] # s[j]}

-----------------------------------------------------------------------------
(* The server.                                                             *)

(* As negotiate, with a restart forgotten while an offer is unanswered.    *)
negotiateOnce(p, restartIce, out) ==
    IF p.offered
    THEN /\ peer' = [p EXCEPT !.needed = 1]
         /\ fromServer' = out
         /\ owed' = (owed \/ restartIce)
    ELSE LET terms == [p.terms EXCEPT !.ice = IF restartIce THEN @ + 1 ELSE @]
         IN /\ peer' = [p EXCEPT !.needed = 0, !.offered = TRUE,
                                 !.terms = terms]
            /\ fromServer' = Append(out, [type |-> "offer", terms |-> terms])
            /\ owed' = (owed /\ ~restartIce)

(* An offer, now or when the one that is unanswered has its answer.        *)
negotiate(p, restartIce, out) ==
    IF p.offered
    THEN /\ peer' = [p EXCEPT !.needed = IF restartIce THEN 2
                                         ELSE IF @ = 0 THEN 1 ELSE @]
         /\ fromServer' = out
         /\ owed' = (owed \/ restartIce)
    ELSE LET terms == [p.terms EXCEPT !.ice = IF restartIce THEN @ + 1 ELSE @]
         IN /\ peer' = [p EXCEPT !.needed = 0, !.offered = TRUE,
                                 !.terms = terms]
            /\ fromServer' = Append(out, [type |-> "offer", terms |-> terms])
            /\ owed' = (owed /\ ~restartIce)

(* The tracks of a down stream change, which needs an offer.               *)
pushDownConn ==
    /\ Room /\ direction = "down" /\ peer.open
    /\ peer.terms.tracks <= MaxTracks
    /\ negotiate([peer EXCEPT !.terms.tracks = @ + 1], FALSE, fromServer)
    /\ UNCHANGED <<direction, jsEnd, fromPage, asked>>

(* The server finds that ICE has failed, and restarts it or asks for it.   *)
connectionFailed ==
    /\ Room /\ peer.open /\ peer.remote /\ asked < MaxRestarts
    /\ IF direction = "down"
       THEN /\ peer.terms.ice < MaxRestarts
            /\ peer.terms.ice = jsEnd.terms.ice
            /\ negotiate(peer, TRUE, fromServer)
       ELSE /\ jsEnd.terms.ice < MaxRestarts
            /\ fromServer' = Append(fromServer, Message("renegotiate"))
            /\ UNCHANGED <<peer, owed>>
    /\ asked' = asked + 1
    /\ UNCHANGED <<direction, jsEnd, fromPage>>

(* Anything else that closes a stream on the server: its sender has gone,  *)
(* or lost the right to present.                                           *)
ServerCloses ==
    /\ Room /\ peer.open
    /\ peer' = [peer EXCEPT !.open = direction = "up"]
    /\ fromServer' = Append(fromServer,
         Message(IF direction = "down" THEN "close" ELSE "abort"))
    /\ UNCHANGED <<direction, jsEnd, fromPage, owed, asked>>

ServerCandidate(k) ==
    /\ Room /\ peer.open /\ k \notin peer.found
    /\ \A j \in 1..(k - 1) : j \in peer.found
    /\ IF direction = "down" THEN peer.terms.tracks > 0 ELSE peer.remote
    /\ peer' = [peer EXCEPT !.found = @ \cup {k}]
    /\ fromServer' = Append(fromServer, Ice(k))
    /\ UNCHANGED <<direction, jsEnd, fromPage, owed, asked>>

(* The server's connection to the page's stream is created by its offer.   *)
serverGotOffer(m) ==
    /\ peer' = [peer EXCEPT !.open = TRUE, !.remote = TRUE, !.terms = m.terms,
                            !.got = @ \cup peer.held, !.held = {}]
    /\ fromServer' = Append(fromServer, [type |-> "answer", terms |-> m.terms])
    /\ UNCHANGED owed

serverGotAnswer(m) ==
    IF ~peer.open
    THEN /\ fromServer' = Append(fromServer, Message("close"))
         /\ UNCHANGED <<peer, owed>>
    ELSE LET p == [peer EXCEPT !.offered = FALSE, !.remote = TRUE,
                               !.got = @ \cup peer.held, !.held = {}]
         IN IF peer.needed > 0
            THEN negotiate(p, peer.needed = 2, fromServer)
            ELSE peer' = p /\ UNCHANGED <<fromServer, owed>>

serverGotICE(k) ==
    /\ peer' = IF ~peer.open THEN peer
               ELSE IF peer.remote THEN [peer EXCEPT !.got = @ \cup {k}]
               ELSE [peer EXCEPT !.held = @ \cup {k}]
    /\ UNCHANGED <<fromServer, owed>>

serverGotRenegotiate ==
    IF peer.open /\ direction = "down" THEN negotiate(peer, TRUE, fromServer)
    ELSE UNCHANGED <<peer, fromServer, owed>>

serverGotAbort ==
    /\ peer' = [peer EXCEPT !.open = FALSE]
    /\ fromServer' = Append(fromServer, Message("close"))
    /\ UNCHANGED owed

serverGotClose ==
    /\ peer' = [peer EXCEPT !.open = FALSE]
    /\ UNCHANGED <<fromServer, owed>>

ServerReceives ==
    /\ fromPage # <<>>
    /\ LET m == Head(fromPage)
       IN \/ m.type = "offer" /\ serverGotOffer(m)
          \/ m.type = "answer" /\ serverGotAnswer(m)
          \/ m.type = "ice" /\ serverGotICE(m.candidate)
          \/ m.type = "renegotiate" /\ serverGotRenegotiate
          \/ m.type = "abort" /\ serverGotAbort
          \/ m.type = "close" /\ serverGotClose
    /\ fromPage' = Tail(fromPage)
    /\ UNCHANGED <<direction, jsEnd, asked>>

-----------------------------------------------------------------------------
(* The page receives.                                                      *)

(* An offer: of a new stream, or of one that is there.                     *)
gotOffer(m) ==
    /\ jsEnd' = [jsEnd EXCEPT !.open = TRUE,
                              !.await = "remote", !.proposed = m.terms]
    /\ UNCHANGED fromPage

(* An answer: the rest follows when the description is set.                *)
gotAnswer(m) ==
    /\ jsEnd' = IF jsEnd.open
                THEN [jsEnd EXCEPT !.await = "remote", !.proposed = m.terms]
                ELSE jsEnd
    /\ UNCHANGED fromPage

gotRemoteIce(k) ==
    /\ jsEnd' = IF ~jsEnd.open THEN jsEnd
                ELSE IF jsEnd.remote THEN [jsEnd EXCEPT !.got = @ \cup {k}]
                ELSE [jsEnd EXCEPT !.remoteIceCandidates = @ \cup {k}]
    /\ UNCHANGED fromPage

(* A closed stream drops what it awaits.                                   *)
closeLocal == [jsEnd EXCEPT !.open = FALSE, !.await = "none"]

gotClose ==
    /\ jsEnd' = IF direction = "down" THEN closeLocal ELSE jsEnd
    /\ UNCHANGED fromPage

gotAbort ==
    IF direction = "up" /\ jsEnd.open
    THEN /\ jsEnd' = closeLocal
         /\ fromPage' = IF jsEnd.localDescriptionSent
                        THEN Append(fromPage, Message("close")) ELSE fromPage
    ELSE UNCHANGED <<jsEnd, fromPage>>

(* The browser is to restart ICE: it will want to negotiate.               *)
gotRenegotiate ==
    /\ jsEnd' = IF direction = "up" /\ jsEnd.open
                THEN [jsEnd EXCEPT !.terms.ice = @ + 1] ELSE jsEnd
    /\ UNCHANGED fromPage

PageReceives ==
    /\ fromServer # <<>>
    /\ LET m == Head(fromServer)
       IN \/ m.type = "offer" /\ gotOffer(m)
          \/ m.type = "answer" /\ gotAnswer(m)
          \/ m.type = "ice" /\ gotRemoteIce(m.candidate)
          \/ m.type = "close" /\ gotClose
          \/ m.type = "abort" /\ gotAbort
          \/ m.type = "renegotiate" /\ gotRenegotiate
    /\ fromServer' = Tail(fromServer)
    /\ UNCHANGED <<direction, peer, owed, asked>>

-----------------------------------------------------------------------------
(* The page acts.                                                          *)

(* setRemoteDescription has succeeded: the candidates that came too early  *)
(* are handed on.  A down stream goes on to create an answer.              *)
flushRemoteIceCandidates ==
    /\ jsEnd.await = "remote"
    /\ jsEnd' = [jsEnd EXCEPT
                   !.remote = TRUE,
                   !.got = @ \cup jsEnd.remoteIceCandidates,
                   !.remoteIceCandidates = {},
                   !.offered = FALSE,
                   !.await = IF direction = "down" THEN "create" ELSE "none"]
    /\ UNCHANGED <<direction, peer, fromServer, fromPage, owed, asked>>

(* The description to send exists.  What the page offers is what its stream*)
(* is at this moment.                                                      *)
Created ==
    /\ jsEnd.await = "create"
    /\ jsEnd' = [jsEnd EXCEPT
                   !.await = "local",
                   !.proposed = IF direction = "up" THEN jsEnd.terms ELSE @]
    /\ UNCHANGED <<direction, peer, fromServer, fromPage, owed, asked>>

(* setLocalDescription takes effect: candidates are found from now on.     *)
Described ==
    /\ jsEnd.await = "local" /\ ~jsEnd.described
    /\ jsEnd' = [jsEnd EXCEPT !.described = TRUE]
    /\ UNCHANGED <<direction, peer, fromServer, fromPage, owed, asked>>

(* The description is sent, and after it the candidates it has waited for. *)
SendDescription ==
    /\ jsEnd.await = "local" /\ jsEnd.described
    /\ \E flushed \in Sends(jsEnd.localIceCandidates) :
         fromPage' =
           Append(fromPage,
             [type |-> IF direction = "up" THEN "offer" ELSE "answer",
              terms |-> jsEnd.proposed]) \o flushed
    /\ jsEnd' = [jsEnd EXCEPT
                   !.await = "none", !.localDescriptionSent = TRUE,
                   !.localIceCandidates = {},
                   !.offered = direction = "up",
                   !.fired = FALSE,
                   !.terms = IF direction = "down" THEN jsEnd.proposed ELSE @]
    /\ UNCHANGED <<direction, peer, fromServer, owed, asked>>

(* As gotLocalIce, with nothing held back.                                 *)
SendAtOnce(k) ==
    /\ fromPage' = Append(fromPage, Ice(k))
    /\ jsEnd' = [jsEnd EXCEPT !.found = @ \cup {k}]

gotLocalIce(k) ==
    IF jsEnd.localDescriptionSent
    THEN /\ fromPage' = Append(fromPage, Ice(k))
         /\ jsEnd' = [jsEnd EXCEPT !.found = @ \cup {k}]
    ELSE /\ jsEnd' = [jsEnd EXCEPT !.found = @ \cup {k},
                                   !.localIceCandidates = @ \cup {k}]
         /\ UNCHANGED fromPage

PageCandidate(k) ==
    /\ Room /\ jsEnd.open /\ jsEnd.described /\ k \notin jsEnd.found
    /\ \A j \in 1..(k - 1) : j \in jsEnd.found
    /\ gotLocalIce(k)
    /\ UNCHANGED <<direction, peer, fromServer, owed, asked>>

(* As NegotiationFails, with the server not told.                          *)
FailsSilently ==
    /\ Room /\ jsEnd.await # "none"
    /\ jsEnd' = [jsEnd EXCEPT !.await = "none"]
    /\ UNCHANGED <<direction, peer, fromServer, fromPage, owed, asked>>

(* A promise fails that an offer of the server, or its answer, awaits.     *)
NegotiationFails ==
    /\ Room /\ jsEnd.await # "none"
    /\ IF direction = "down"
       THEN /\ jsEnd' = [jsEnd EXCEPT !.await = "none"]
            /\ fromPage' = Append(fromPage, Message("abort"))
       ELSE /\ jsEnd.await = "remote"
            /\ jsEnd' = closeLocal
            /\ fromPage' = Append(fromPage, Message("close"))
    /\ UNCHANGED <<direction, peer, fromServer, owed, asked>>

(* The page's stream changes its tracks; the browser negotiates.           *)
ChangeTracks ==
    /\ Room /\ direction = "up" /\ jsEnd.open
    /\ jsEnd.terms.tracks <= MaxTracks
    /\ jsEnd' = [jsEnd EXCEPT !.terms.tracks = @ + 1]
    /\ UNCHANGED <<direction, peer, fromServer, fromPage, owed, asked>>

(* Stable: neither an offer nor an answer is under way here.               *)
onnegotiationneeded ==
    /\ Room /\ direction = "up" /\ jsEnd.open
    /\ ~jsEnd.offered /\ ~jsEnd.fired /\ jsEnd.await = "none"
    /\ jsEnd.terms # jsEnd.proposed
    /\ jsEnd' = [jsEnd EXCEPT !.fired = TRUE, !.await = "create"]
    /\ UNCHANGED <<direction, peer, fromServer, fromPage, owed, asked>>

(* The page finds that ICE has failed.                                     *)
restartIce ==
    /\ Room /\ jsEnd.open /\ jsEnd.remote /\ asked < MaxRestarts
    /\ asked' = asked + 1
    /\ IF direction = "down"
       THEN /\ fromPage' = Append(fromPage, Message("renegotiate"))
            /\ UNCHANGED jsEnd
       ELSE /\ jsEnd' = [jsEnd EXCEPT !.terms.ice = @ + 1]
            /\ UNCHANGED fromPage
    /\ UNCHANGED <<direction, peer, fromServer, owed>>

(* The page closes its own stream.                                         *)
close ==
    /\ Room /\ direction = "up" /\ jsEnd.open
    /\ jsEnd' = closeLocal
    /\ fromPage' = IF jsEnd.localDescriptionSent
                   THEN Append(fromPage, Message("close")) ELSE fromPage
    /\ UNCHANGED <<direction, peer, fromServer, owed, asked>>

Settling ==
    \/ ServerReceives
    \/ PageReceives
    \/ flushRemoteIceCandidates
    \/ Created
    \/ Described
    \/ SendDescription

Next ==
    \/ Settling
    \/ pushDownConn
    \/ connectionFailed
    \/ ServerCloses
    \/ \E k \in Candidates : ServerCandidate(k) \/ PageCandidate(k)
    \/ NegotiationFails
    \/ ChangeTracks
    \/ onnegotiationneeded
    \/ restartIce
    \/ close

(* Messages are received and promises settle.                              *)
Progress == Settling

Spec == Init /\ [][Next]_negotiationVars /\ WF_negotiationVars(Progress)

-----------------------------------------------------------------------------
Under(wire, type) == {i \in DOMAIN wire : wire[i].type = type}
Sent(wire) == {wire[i].candidate : i \in Under(wire, "ice")}
Offered == IF direction = "down" THEN peer.offered ELSE jsEnd.offered
BothOpen == peer.open /\ jsEnd.open

(* One offer at a time: it is on its way, being answered, or its answer is *)
(* on its way; an offer never reaches a page that still answers another    *)
(* (negotiate puts an offer off while one is unanswered).                  *)
OneOffer ==
    BothOpen =>
      LET out == IF direction = "down" THEN fromServer ELSE fromPage
          back == IF direction = "down" THEN fromPage ELSE fromServer
      IN /\ Cardinality(Under(out, "offer") \cup Under(back, "answer")) <= 1
         /\ Under(out, "offer") # {} => Under(back, "answer") = {}
         /\ direction = "down" /\ Under(fromServer, "offer") # {}
              => jsEnd.await = "none"

(* When nothing is under way, both sides have agreed on the tracks and the *)
(* ICE that the offering side has now, and no restart that was asked for   *)
(* has been forgotten (negotiationNeeded, and its use in gotAnswer).       *)
Agreed ==
    BothOpen /\ ~Offered /\ jsEnd.await = "none"
        /\ fromServer = <<>> /\ fromPage = <<>>
      => /\ direction = "down" =>
              peer.terms = jsEnd.terms /\ ~owed /\ peer.needed = 0
         /\ direction = "up" => peer.terms = jsEnd.proposed

(* No candidate is lost: it is held, under way, or handed to the other     *)
(* side's peer connection (gotLocalIce, gotRemoteIce, addICECandidate and  *)
(* their flushes).                                                         *)
CandidatesArrive ==
    /\ jsEnd.open /\ (direction = "up" => peer.open \/ ~jsEnd.localDescriptionSent)
         /\ peer.found # {}
       => peer.found = Sent(fromServer) \cup jsEnd.remoteIceCandidates
                         \cup jsEnd.got
    /\ BothOpen
       => jsEnd.found = jsEnd.localIceCandidates \cup Sent(fromPage)
                          \cup peer.held \cup peer.got

Unanswered == Offered /\ BothOpen

(* An offer does not stay unanswered, unless its stream is closed.         *)
Answered == []<>~Unanswered
=============================================================================
