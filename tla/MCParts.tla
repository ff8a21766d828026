-------------------------------- MODULE MCParts --------------------------------
(***************************************************************************)
(* The parts that have no state in common, checked in one run: a behaviour *)
(* runs one of them, chosen at the start, and leaves the others as they    *)
(* are.                                                                    *)
(***************************************************************************)
EXTENDS Naturals

CONSTANTS
    MaxSize, MaxIce, BufferLow, Tabs, Users, Timely, MaxFresh, MaxActs,
    MaxConns, reconnectMaxAttempts, MaxStreams, MaxMedia, MaxOps,
    MaxConnections, MaxPushes, Members, MaxOffers, Kinds, IceChanges,
    MaxFailures, MaxTracks, MaxRestarts, MaxTries, MaxWaiting, MaxWorkers,
    W, Far, MaxEntries, Starts, Skips, Recent, MaxPackets, MaxDrops, a, b,
    ann, bob

VARIABLES
    part,       \* the part that runs
    f, wire, chan, online, size, ice, saved,
    tab, local, probes, acks, fresh, grants, last, acts,
    serverConnection, conn, pending, attempts, timer, promise, auth, token,
    probing, ui, method, media,
    sc, open, conns, strm, ids, opened, live, starts, chain, version,
    button, desired, server, lost, left,
    label, request, small, reconsidering, low, requested, sends, unasked,
    pushes,
    profile, send, expensive, capped, pressure, healthy, refreshing,
    encoder,
    pg, net,
    flow, transport, alarm, step, acted, republished, replacing, stalled,
    restarts, failures,
    direction, peer, jsEnd, fromServer, fromPage, owed, asked,
    definition, owner, flt, wk, starting, drawing, visible, unloading,
    outlived,
    next, delta, lastEntry, entries, pc, packet, out, head, due, packets,
    drops

F == INSTANCE FileTransfer
I == INSTANCE TabIdentity
R == INSTANCE Reconnect
C == INSTANCE Camera
D == INSTANCE ReceiveRate
S == INSTANCE SendRate
U == INSTANCE Participants
V == INSTANCE Recovery
N == INSTANCE Negotiation
B == INSTANCE Filter
P == INSTANCE PacketMap

filesVars ==
    <<f, wire, chan, online, size, ice, saved>>
identityVars ==
    <<tab, local, probes, acks, fresh, grants, last, acts>>
sessionVars ==
    <<serverConnection, conn, pending, attempts, timer, promise, auth,
      token, probing, ui, method, media>>
cameraVars ==
    <<sc, open, conns, strm, ids, opened, live, starts, chain, version,
      button, desired, server, lost, left>>
receivingVars ==
    <<label, request, small, reconsidering, low, requested, sends, unasked,
      pushes>>
sendingVars ==
    <<profile, send, expensive, capped, pressure, healthy, refreshing,
      encoder>>
peopleVars ==
    <<pg, net>>
recoveryVars ==
    <<flow, transport, alarm, step, acted, republished, replacing, stalled,
      restarts, failures>>
streamsVars ==
    <<direction, peer, jsEnd, fromServer, fromPage, owed, asked>>
filterVars ==
    <<definition, owner, flt, wk, starting, drawing, visible, unloading,
      outlived>>
packetsVars ==
    <<next, delta, lastEntry, entries, pc, packet, out, head, due, packets,
      drops>>

ASSUME FileTransferAssumption == F!FileTransferAssumption
ASSUME TabIdentityAssumption == I!TabIdentityAssumption
ASSUME CameraAssumption == C!CameraAssumption
ASSUME PacketMapAssumption == P!PacketMapAssumption
ASSUME FilterAssumption == B!FilterAssumption
ASSUME NegotiationAssumption == N!NegotiationAssumption
ASSUME ParticipantsAssumption == U!ParticipantsAssumption

Parts == {"files", "identity", "session", "camera", "receiving", "sending",
          "people", "recovery", "streams", "filter", "packets"}

Init ==
    /\ part \in Parts
    /\ F!Init
    /\ part # "files" => size = 0
    /\ I!Init
    /\ R!Init
    /\ part # "session" => ~token /\ method = "password"
    /\ C!Init
    /\ D!Init
    /\ part # "receiving" => label = "camera" /\ request = "everything" /\ ~small
    /\ S!Init
    /\ part # "sending" => profile = "mobile" /\ send = "normal" /\ ~expensive
    /\ U!Init
    /\ V!Init
    /\ part # "recovery" => flow = "down"
    /\ N!Init
    /\ part # "streams" => direction = "down"
    /\ B!Init
    /\ part # "filter" => definition = "plain" /\ visible
    /\ P!Init

Runs ==
    \/ part = "files" /\ F!Next
    \/ part = "identity" /\ I!Next
    \/ part = "session" /\ R!Next
    \/ part = "camera" /\ C!Next
    \/ part = "receiving" /\ D!Next
    \/ part = "sending" /\ S!Next
    \/ part = "people" /\ U!Next
    \/ part = "recovery" /\ V!Next
    \/ part = "streams" /\ N!Next
    \/ part = "filter" /\ B!Next
    \/ part = "packets" /\ P!Next

(* The other parts stand still.                                            *)
Others ==
    /\ UNCHANGED part
    /\ part # "files" => UNCHANGED filesVars
    /\ part # "identity" => UNCHANGED identityVars
    /\ part # "session" => UNCHANGED sessionVars
    /\ part # "camera" => UNCHANGED cameraVars
    /\ part # "receiving" => UNCHANGED receivingVars
    /\ part # "sending" => UNCHANGED sendingVars
    /\ part # "people" => UNCHANGED peopleVars
    /\ part # "recovery" => UNCHANGED recoveryVars
    /\ part # "streams" => UNCHANGED streamsVars
    /\ part # "filter" => UNCHANGED filterVars
    /\ part # "packets" => UNCHANGED packetsVars

(* What is fair in the parts whose properties need it.                     *)
Progress ==
    \/ part = "files" /\ F!Progress
    \/ part = "session" /\ R!Progress
    \/ part = "recovery" /\ V!Progress
    \/ part = "streams" /\ N!Progress
    \/ part = "filter" /\ B!Progress

Next == Runs /\ Others

vars == <<part, filesVars, identityVars, sessionVars, cameraVars,
          receivingVars, sendingVars, peopleVars, recoveryVars,
          streamsVars, filterVars, packetsVars>>

Spec ==
    /\ Init /\ [][Next]_vars
    /\ WF_vars(Progress /\ Others)

(* Every variable keeps its type, in every part.                           *)
TypeOK ==
    /\ part = "files" => F!TypeOK
    /\ part = "identity" => I!TypeOK
    /\ part = "session" => R!TypeOK
    /\ part = "camera" => C!TypeOK
    /\ part = "receiving" => D!TypeOK
    /\ part = "sending" => S!TypeOK
    /\ part = "people" => U!TypeOK
    /\ part = "recovery" => V!TypeOK
    /\ part = "streams" => N!TypeOK
    /\ part = "filter" => B!TypeOK
    /\ part = "packets" => P!TypeOK

(* A file that is said to be sent was received whole, once; no ICE         *)
(* candidate is lost; a page says at most once that it has cancelled.      *)
Files_Safe ==
    part = "files" =>
          /\ F!DoneMeansSaved
          /\ F!CandidatesKept
          /\ F!CancelledOnce

(* A transfer that ends on one page ends for good, and on the other page   *)
(* too; one that was accepted ends once the two pages have found each      *)
(* other, or the sender has left.                                          *)
Files_Ends ==
    /\ []<>(~F!OneEnded /\ ~F!HalfWay)
    /\ F!Settled

(* No two tabs are connected under one client id, and a page presents only *)
(* a resume token that was given for its id and its username; a tab that   *)
(* connects twice under one name, with an identity prepared for that name  *)
(* both times, keeps its id.                                               *)
Identity_Own ==
    /\ [](I!OwnId /\ I!TokenIsOurs)
    /\ I!SurvivesRefresh

(* Every open socket is that of the connection in use, and a page that says*)
(* it is reconnecting has something under way.                             *)
Session_NoStray ==
    part = "session" =>
          /\ R!NoStraySocket
          /\ R!PendingHasCause

(* A page that reconnects ends up in the group or at the login form.       *)
Session_Settles == R!Settles

(* No capture runs unseen, there is one camera stream at most, and what the*)
(* server has of the page is sent, about to be replaced, or forgotten by an*)
(* operation that failed; a filter draws while the page is seen, and its   *)
(* worker ends with it.                                                    *)
Camera_Accounted ==
    /\ part = "camera" =>
          /\ C!DevicesShown
          /\ C!OneCamera
          /\ C!ServerFollows
    /\ part = "filter" =>
          /\ B!WorkersKnown
          /\ B!WorkersEnd
          /\ B!RunsWhenSeen

(* An operation that has been overtaken, by a newer one or by the end of   *)
(* the connection, never puts a stream up.                                 *)
Camera_OvertakenIsSilent == C!OvertakenIsSilent

(* The server sends what the layout and the choice call for; the encoder   *)
(* sends what the choice, the filter and the load allow.                   *)
Rates_Follow ==
    /\ part = "receiving" =>
          /\ D!RequestsAgree
          /\ D!SmallIsLow
          /\ D!LargeIsFull
    /\ part = "sending" =>
          /\ S!EncoderFollows
          /\ S!CapHasReason

(* The user list and the tiles show those who are in the group, as they are*)
(* now; nothing brings back a user who has left.                           *)
Participants_Consistent ==
    part = "people" =>
          /\ U!RowsCurrent
          /\ U!TilesHaveStreams
          /\ U!LayoutCurrent

(* One offer at a time; both sides end up with the tracks and the ICE the  *)
(* offering side has now; no candidate is lost.                            *)
Streams_Negotiated ==
    part = "streams" =>
          /\ N!OneOffer
          /\ N!Agreed
          /\ N!CandidatesArrive

(* An offer is answered, a stream does not stay failed, and the connection *)
(* is given up for it as the last resort only; no filter waits for ever for*)
(* its worker.                                                             *)
Streams_Recover ==
    /\ []<>(~N!Unanswered /\ ~V!Failing /\ (part = "filter" => ~B!Waiting))
    /\ V!LastResort

(* Each packet goes out under one number for good, none of those owed is   *)
(* refused, and a retransmission brings the packet that was asked for.     *)
Packets_Sent ==
    part = "packets" =>
          /\ P!SentAsDue
          /\ P!NoneRefused
          /\ P!SentAsAsked

=============================================================================
