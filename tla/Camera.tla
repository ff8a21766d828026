-------------------------------- MODULE Camera --------------------------------
(***************************************************************************)
(* The streams that a page sends: opening the camera, replacing it when a  *)
(* setting changes, filters, the camera button, and what becomes of all of *)
(* it when the connection goes away (static/owly.js, with newUpStream and  *)
(* Stream of static/protocol.js).  A step is what runs between two waits   *)
(* for something outside of the page: the user's answer to getUserMedia,   *)
(* the start of a filter, the socket.  An await of the page's own code     *)
(* (removeFilter, for one) lets no other event in.                         *)
(***************************************************************************)
EXTENDS Naturals, Sequences, FiniteSets

CONSTANTS
    MaxStreams,     \* up streams created
    MaxMedia,       \* captures (MediaStreams) opened
    MaxOps,         \* tokens given out
    MaxConnections        \* connections made

CameraAssumption == MaxStreams \in Nat

Ids == 1..MaxStreams
Media == 1..MaxMedia
Tracks == Media \X {"audio", "video"}
None == 0

VARIABLES
    sc,         \* serverConnection: the number of a connection, or None
    open,       \* is its socket open?
    conns,      \* connections made so far
    strm,       \* the up streams
    ids,        \* streams created so far
    opened,     \* captures opened so far
    live,       \* the tracks of captures that run: the lights that are on
    starts,     \* filters that are starting: the stream, and who waits for it
    chain,      \* localCameraOperationPromise: the operations, in order
    version,    \* localCameraOperationVersion
    button,     \* the stream for which the camera button waits, or None
    desired,    \* localPresentationDesired
    server,     \* the streams that the server has of this connection
    lost,       \* history: streams whose replacement was never announced
    left        \* history: captures that the camera button left behind

page == <<sc, open, conns>>
vars == <<page, strm, ids, opened, live, starts, chain, version, button,
          desired, server, lost, left>>

NoStream == [up |-> FALSE, sc |-> None, localId |-> None, media |-> None,
             filter |-> FALSE, localDescriptionSent |-> FALSE, replace |-> None]

Idle == [token |-> 0, localId |-> None, had |-> FALSE, at |-> "none",
         replaceId |-> None, stream |-> None]

Up == {i \in Ids : strm[i].up}
UpOf(c) == {i \in Up : strm[i].sc = c}

Init ==
    /\ sc = 1 /\ open = TRUE /\ conns = 1
    /\ strm = [i \in Ids |-> NoStream]
    /\ ids = 0 /\ opened = 0
    /\ live = {} /\ starts = {} /\ chain = <<>> /\ version = 0
    /\ button = None /\ desired = FALSE
    /\ server = {} /\ lost = {} /\ left = {}

findUpMedia(i) == sc # None /\ i \in UpOf(sc)


(* Stream.close and the onclose of setUpStream, of the streams S: the      *)
(* server is told of those it has been offered, unless they are replaced;  *)
(* the filter goes and, unless the stream is replaced, the capture stops.  *)
(* What a stream was to replace is forgotten with its offer.               *)
Closed(f, S) == [i \in Ids |-> IF i \in S
                 THEN [f[i] EXCEPT !.up = FALSE, !.filter = FALSE] ELSE f[i]]

LeaveLive(l, f, S) == l

CloseLive(l, f, S) == {t \in l : \A i \in S : f[i].media # t[1]}

CloseServer(S) == server \ {i \in S : strm[i].localDescriptionSent}

Unannounced(S) == {strm[i].replace : i \in {j \in S : ~strm[j].localDescriptionSent}} \ {None}

close(S) ==
    /\ strm' = Closed(strm, S)
    /\ live' = CloseLive(live, strm, S)
    /\ server' = IF open THEN CloseServer(S) ELSE server
    /\ lost' = lost \cup Unannounced(S)

ReplacesNothing(old, replaceId) == None

Replaces(old, replaceId) ==
    IF old # {} THEN CHOOSE i \in old : TRUE ELSE replaceId

AllButClosed(localId) == {}

findByLocalId(l) == {i \in UpOf(sc) : strm[i].localId = l}

(* newUpStream, through createReplacementUpStream: the stream with the     *)
(* same local id is closed, to be replaced by the new one; so is, by its   *)
(* id alone, one that has been closed already.                             *)
newUpStream(localId, replaceId, n) ==
    LET old == findByLocalId(localId)
        id == ids + 1
        rep == Replaces(old, replaceId)
    IN /\ ids < MaxStreams
       /\ ids' = id
       /\ strm' = [Closed(strm, old) EXCEPT ![id] =
                     [NoStream EXCEPT !.up = TRUE, !.sc = sc, !.media = n,
                        !.localId = IF localId = None THEN id ELSE localId,
                        !.replace = rep]]
       /\ lost' = lost \cup (Unannounced(old) \ {rep})
       /\ UNCHANGED server

-----------------------------------------------------------------------------

(* addLocalMedia and runLocalCameraOperation: an operation joins the chain *)
(* and makes those before it stale.                                        *)
addLocalMedia(localId) ==
    /\ version < MaxOps
    /\ version' = version + 1
    /\ chain' = Append(chain, [Idle EXCEPT !.token = version + 1, !.at = "queued",
                 !.localId = localId, !.had = desired \/ UpOf(sc) # {}])
    /\ desired' = TRUE
    /\ UNCHANGED <<page, strm, ids, opened, live, starts, button, server, lost, left>>

(* gotJoined adds the camera once for a connection.                        *)
gotJoined ==
    /\ open /\ UpOf(sc) = {} /\ chain = <<>> /\ ids < MaxStreams
    /\ addLocalMedia(None)

(* A setting has changed, or the transport has stalled.                    *)
replaceCameraStream(i) ==
    /\ findUpMedia(i)
    /\ addLocalMedia(strm[i].localId)

StillConnected(o) == sc # None

Current(o) == o.token = version /\ sc # None

Done == chain' = Tail(chain)

GiveUp(o) == desired' = (desired /\ o.had)

(* addLocalMediaInternal, up to the question to the user: the stream that  *)
(* it replaces is closed first, and its devices stopped.                   *)
Begin ==
    /\ chain # <<>> /\ Head(chain).at = "queued"
    /\ LET o == Head(chain)
           old == IF sc = None THEN {} ELSE findByLocalId(o.localId)
           rep == IF old = {} THEN None ELSE CHOOSE i \in old : TRUE
       IN /\ strm' = Closed(strm, old)
          /\ live' = CloseLive(live, strm, old)
          /\ IF Current(o)
             THEN /\ chain' = <<[o EXCEPT !.at = "asking", !.replaceId = rep]>> \o Tail(chain)
                  /\ lost' = lost \cup Unannounced(old)
             ELSE Done /\ lost' = lost \cup Unannounced(old) \cup old
    /\ UNCHANGED <<page, ids, opened, starts, version, button, desired, server, left>>

(* The rest of an operation: a capture is refused, comes too late, or      *)
(* becomes a new stream, at once or when its filter has started.           *)
Refused ==
    /\ chain # <<>> /\ Head(chain).at = "asking"
    /\ Done /\ GiveUp(Head(chain))
    /\ lost' = lost \cup ({Head(chain).replaceId} \ {None})
    /\ UNCHANGED <<page, strm, ids, opened, live, starts, version, button, server, left>>

TooLate ==
    /\ chain # <<>> /\ Head(chain).at = "asking"
    /\ ~Current(Head(chain))
    /\ Done
    /\ lost' = lost \cup ({Head(chain).replaceId} \ {None})
    /\ UNCHANGED <<page, strm, ids, opened, live, starts, version, button,
                   desired, server, left>>

MediaOpened(filtered) ==
    /\ chain # <<>> /\ Head(chain).at = "asking" /\ Current(Head(chain))
    /\ opened < MaxMedia
    /\ LET o == Head(chain) IN
       /\ newUpStream(o.localId, o.replaceId, opened + 1)
       /\ opened' = opened + 1
       /\ live' = live \cup {<<opened + 1, "audio">>, <<opened + 1, "video">>}
       /\ IF filtered
          THEN /\ chain' = <<[o EXCEPT !.at = "filter", !.stream = ids + 1]>> \o Tail(chain)
               /\ starts' = starts \cup {<<ids + 1, "operation">>}
          ELSE Done /\ UNCHANGED starts
    /\ UNCHANGED <<page, version, button, desired, left>>

(* replaceUpStream: a new filter or a new view of the same capture.  What  *)
(* is being replaced already is not replaced again.                        *)
replaceUpStream(i, filtered) ==
    /\ findUpMedia(i)
    /\ \A s \in starts : s[2] = "replace" => strm[s[1]].localId # strm[i].localId
    /\ newUpStream(strm[i].localId, None, strm[i].media)
    /\ starts' = IF filtered THEN starts \cup {<<ids + 1, "replace">>} ELSE starts
    /\ UNCHANGED <<page, opened, live, chain, version, button, desired, left>>

NeverStale(i, who) == FALSE

Stale(i, who) == who = "operation" /\ (~Current(Head(chain)) \/ strm[i].sc # sc)

(* setFilter, when the filter has started, or has failed to: a stream that *)
(* has been closed meanwhile throws.  Then setUpStream fails, and the      *)
(* stream with it; a stale operation closes what it has made.              *)
FilterStarted(i, who, ok) ==
    LET works == ok /\ strm[i].up
        stale == Stale(i, who)
    IN /\ <<i, who>> \in starts
       /\ starts' = starts \ {<<i, who>>}
       /\ IF (works /\ ~stale) \/ who = "button"
          THEN /\ strm' = [strm EXCEPT ![i].filter = @ \/ works]
               /\ UNCHANGED <<live, server, lost>>
          ELSE close({i} \cap Up)
       /\ IF who = "operation"
          THEN Done /\ desired' = (desired /\ (works \/ Head(chain).had))
          ELSE UNCHANGED <<chain, desired>>
       /\ button' = IF who = "button" THEN None ELSE button
       /\ UNCHANGED <<page, ids, opened, version, left>>

(* The camera button: off stops the video track, if the microphone is on.  *)
HasTrack(i, kind) == <<strm[i].media, kind>> \in live

stopCameraTrackInSession(i) ==
    /\ findUpMedia(i) /\ button = None
    /\ HasTrack(i, "video") /\ HasTrack(i, "audio")
    /\ live' = live \ {<<strm[i].media, "video">>}
    /\ strm' = [strm EXCEPT ![i].filter = FALSE]
    /\ UNCHANGED <<page, ids, opened, starts, chain, version, button, desired,
                   server, lost, left>>

(* On asks for another track, which joins the capture whatever has become  *)
(* of the stream: no token is checked.                                     *)
startCameraTrackInSession(i) ==
    /\ findUpMedia(i) /\ button = None
    /\ HasTrack(i, "audio") /\ ~HasTrack(i, "video")
    /\ button' = i
    /\ UNCHANGED <<page, strm, ids, opened, live, starts, chain, version,
                   desired, server, lost, left>>

TrackOpened(granted, filtered) ==
    /\ button # None /\ <<button, "button">> \notin starts
    /\ LET track == <<strm[button].media, "video">>
           waits == granted /\ filtered /\ strm[button].up
       IN /\ live' = IF granted THEN live \cup {track} ELSE live
          /\ left' = IF granted /\ ~strm[button].up THEN left \cup {track[1]} ELSE left
          /\ starts' = IF waits THEN starts \cup {<<button, "button">>} ELSE starts
          /\ button' = IF waits THEN button ELSE None
    /\ UNCHANGED <<page, strm, ids, opened, chain, version, desired, server, lost>>

-----------------------------------------------------------------------------

(* The offer of a new stream reaches the server, once its tracks are there,*)
(* and names the stream that it replaces.                                  *)
negotiate(i) ==
    /\ findUpMedia(i) /\ open
    /\ ~strm[i].localDescriptionSent
    /\ \A s \in starts : s[1] = i => s[2] = "button"
    /\ strm' = [strm EXCEPT ![i].localDescriptionSent = TRUE, ![i].replace = None]
    /\ server' = (server \ {strm[i].replace}) \cup {i}
    /\ UNCHANGED <<page, ids, opened, live, starts, chain, version, button,
                   desired, lost, left>>

(* The server gives a stream up, or its device is unplugged.               *)
gotAbort(i) ==
    /\ findUpMedia(i) /\ open
    /\ close({i})
    /\ UNCHANGED <<page, ids, opened, starts, chain, version, button, desired, left>>

(* The connection ends: every stream is closed and the operations are made *)
(* stale; its streams are gone from the server with it.                    *)
ConnectionEnds(keep) ==
    /\ strm' = Closed(strm, UpOf(sc))
    /\ live' = CloseLive(live, strm, UpOf(sc))
    /\ version' = version + 1
    /\ open' = FALSE
    /\ sc' = IF keep THEN sc ELSE None
    /\ server' = {} /\ lost' = {}
    /\ UNCHANGED <<conns, ids, opened, starts, chain, button, left>>

disconnectConferenceNow ==
    /\ sc # None /\ version < MaxOps /\ ConnectionEnds(FALSE) /\ desired' = FALSE

gotClose(keep) ==
    /\ sc # None /\ open /\ version < MaxOps /\ ConnectionEnds(keep) /\ UNCHANGED desired

serverConnect ==
    /\ ~open /\ conns < MaxConnections
    /\ conns' = conns + 1 /\ sc' = conns + 1 /\ open' = TRUE
    /\ UNCHANGED <<strm, ids, opened, live, starts, chain, version, button,
                   desired, server, lost, left>>

Progress ==
    \/ Begin \/ Refused \/ TooLate
    \/ \E f \in BOOLEAN : MediaOpened(f)
    \/ \E s \in starts, ok \in BOOLEAN : FilterStarted(s[1], s[2], ok)

Next ==
    \/ Progress
    \/ gotJoined \/ serverConnect \/ disconnectConferenceNow
    \/ \E keep \in BOOLEAN : gotClose(keep)
    \/ \E g, f \in BOOLEAN : TrackOpened(g, f)
    \/ \E i \in Ids :
          \/ replaceCameraStream(i) \/ negotiate(i) \/ gotAbort(i)
          \/ stopCameraTrackInSession(i) \/ startCameraTrackInSession(i)
          \/ \E f \in BOOLEAN : replaceUpStream(i, f)

Spec == Init /\ [][Next]_vars

TypeOK ==
    /\ sc \in 0..MaxConnections /\ open \in BOOLEAN /\ version \in 0..MaxOps
    /\ \A i \in Ids : strm[i].up => strm[i].media \in Media
    /\ live \subseteq Tracks /\ server \subseteq Ids
    /\ \A s \in starts : s[2] \in {"operation", "replace", "button"}
    /\ chain # <<>> =>
          /\ \A k \in 2..Len(chain) : chain[k].at = "queued"
          /\ (Head(chain).at = "filter") => (<<Head(chain).stream, "operation">> \in starts)

(* No device runs unseen: a capture that is on is that of a stream the page *)
(* sends, but for the track that the camera button opens too late.         *)
DevicesShown == \A t \in live : t[1] \in left \/ \E i \in UpOf(sc) : strm[i].media = t[1]

(* One camera: however often it is reopened, replaced or rejoined, the page *)
(* sends one camera stream and not two.                                    *)
OneCamera == Cardinality(Up) <= 1

(* The server hears that a stream is gone or replaced: what it still has   *)
(* of this page is sent by it, named by an offer to come or by an operation *)
(* under way, or is what a failed or overtaken operation has forgotten.    *)
ServerFollows ==
    open => server \subseteq UpOf(sc) \cup {strm[i].replace : i \in UpOf(sc)}
                \cup {chain[k].replaceId : k \in DOMAIN chain} \cup lost

(* With nothing forgotten: viewers never keep a camera that is gone.       *)
NoFrozenPeer == (open /\ chain = <<>> /\ starts = {}) =>
                    server \subseteq UpOf(sc) \cup {strm[i].replace : i \in UpOf(sc)}

(* An operation that has been overtaken, by a newer one or by the end of   *)
(* the connection, never puts a stream up.                                 *)
OvertakenIsSilent ==
    [][(chain # <<>> /\ Head(chain).at # "queued" /\ Head(chain).token # version
          /\ Len(chain') < Len(chain))
         => Up' \subseteq Up \ {Head(chain).stream}]_vars

=============================================================================
