---------------------------- MODULE Participants ----------------------------
(***************************************************************************)
(* The people a page shows: the rows of the user list and the tiles of the *)
(* conference (static/owly.js), fed by the roster and by the streams that  *)
(* protocol.js receives.  A user has one camera stream at a time, as the   *)
(* sender's operations ensure (Camera), but a stream may outlive its       *)
(* owner's place in the roster, or be known before it.  Handlers run to    *)
(* completion, so each is a function of the page.  Screen shares, speech   *)
(* and the order of rows and tiles are left out, and the layout is that of *)
(* the grid.                                                               *)
(***************************************************************************)
EXTENDS Naturals

CONSTANTS
    Members,      \* the other users
    MaxOffers,    \* how many streams are offered
    Kinds,        \* of tracks: "audio", "video", or both
    IceChanges    \* the states an ICE connection may change to

VARIABLES
    pg,           \* the page: roster, streams, rows, tiles
    net           \* "lost", "joining" or "joined"

peopleVars == <<pg, net>>

Offers == 1..MaxOffers
TrackStates == {"none", "live", "ended"}
IceStates == {"new", "connected", "disconnected", "failed"}

ParticipantsAssumption ==
    /\ Members # {} /\ MaxOffers \in Nat
    /\ Kinds \subseteq {"audio", "video"}
    /\ IceChanges \subseteq IceStates

NoHealth == [last |-> FALSE, since |-> "no", timer |-> 0]
Unset == {"unset"}

(* A presence that was just created: no snapshot of the user yet.          *)
NewPresence ==
    [snap |-> Unset, transient |-> FALSE, waits |-> "no", status |-> "online",
     audio |-> FALSE]

NoStream ==
    [open |-> FALSE, owner |-> CHOOSE u \in Members : TRUE, localId |-> 0,
     stream |-> FALSE, tracks |-> [k \in Kinds |-> "none"], ice |-> "new",
     orphan |-> FALSE]    \* history: its owner had left while it was open

TypeOK ==
    /\ pg.users \subseteq Members
    /\ pg.streamsOf \in [Members -> SUBSET ({"camera"} \cup Kinds)]
    /\ pg.down \in [Offers ->
         [open : BOOLEAN, owner : Members, localId : 0..MaxOffers,
          stream : BOOLEAN, tracks : [Kinds -> TrackStates],
          ice : IceStates, orphan : BOOLEAN]]
    /\ DOMAIN pg.presence \subseteq Members
    /\ \A u \in DOMAIN pg.presence :
         pg.presence[u] \in
           [snap : {Unset} \cup SUBSET ({"camera"} \cup Kinds),
            transient : BOOLEAN, waits : {"no", "recent", "long"},
            status : {"online", "poor"}, audio : BOOLEAN]
    /\ pg.rows \subseteq Members
    /\ pg.recentlyDeleted \subseteq Members
    /\ pg.tiles \subseteq Offers
    /\ pg.shown \in [Members -> {"none", "tile", "placeholder"}]
    /\ DOMAIN pg.health \subseteq Offers
    /\ \A l \in DOMAIN pg.health :
         pg.health[l] \in [last : BOOLEAN, since : {"no", "fresh", "over"},
                           timer : 0..MaxOffers]
    /\ pg.due \in BOOLEAN
    /\ net \in {"lost", "joining", "joined"}

-----------------------------------------------------------------------------
(* What the page knows of a user.                                          *)

getUserStreams(p, u) == {i \in Offers : p.down[i].open /\ p.down[i].owner = u}

Live(p, i) == {k \in Kinds : p.down[i].tracks[k] = "live"}
Present(p, i) == {k \in Kinds : p.down[i].tracks[k] # "none"}

hasVideoTrack(p, i) == p.down[i].stream /\ "video" \in Live(p, i)

Put(f, x, v) == [y \in DOMAIN f \cup {x} |-> IF y = x THEN v ELSE f[y]]
Without(f, x) == [y \in DOMAIN f \ {x} |-> f[y]]

HealthOf(p, i) ==
    LET l == p.down[i].localId
    IN IF l \in DOMAIN p.health THEN p.health[l] ELSE NoHealth

(* The state of a peer connection that was closed is none of IceStates.    *)
iceConnectionState(p, i) == IF p.down[i].open THEN p.down[i].ice ELSE "closed"

getStreamConnectionHealth(p, i) ==
    LET h == HealthOf(p, i)
        ice == iceConnectionState(p, i)
    IN IF ice = "connected" THEN "healthy"
       ELSE IF ice = "failed" \/ (ice = "disconnected" /\ h.since = "over")
         THEN "poor"
       ELSE IF h.last THEN "healthy" ELSE "unknown"

(* Asking for the health of a stream also keeps its record and its timer.  *)
Asked(p, i) ==
    LET h == HealthOf(p, i)
        ice == iceConnectionState(p, i)
        after == CASE ice = "connected" ->
                        [last |-> TRUE, since |-> "no", timer |-> 0]
                   [] ice = "failed" -> [h EXCEPT !.timer = 0]
                   [] ice = "disconnected" ->
                        IF h.since = "over" THEN [h EXCEPT !.timer = 0]
                        ELSE [h EXCEPT !.since = "fresh",
                                       !.timer = IF @ = 0 THEN i ELSE @]
                   [] OTHER -> [h EXCEPT !.since = "no", !.timer = 0]
    IN [p EXCEPT !.health = Put(@, p.down[i].localId, after)]

getParticipantConnectionStatus(p, u) ==
    LET all == {getStreamConnectionHealth(p, i) : i \in getUserStreams(p, u)}
    IN IF "poor" \in all /\ "healthy" \notin all THEN "poor" ELSE "online"

participantHasAudio(p, u, snap) ==
    LET streams == IF u \in p.users THEN p.streamsOf[u] ELSE snap
    IN \/ "audio" \in streams
       \/ \E i \in getUserStreams(p, u) :
            p.down[i].stream /\ "audio" \in Present(p, i)

PresenceOf(p, u) ==
    IF u \in DOMAIN p.presence THEN p.presence[u] ELSE NewPresence

(* A row is drawn for a user who is known, or was.                         *)
renderParticipantRow(p, u) ==
    IF u \in p.users \/ PresenceOf(p, u).snap # Unset
    THEN [p EXCEPT !.rows = @ \cup {u}]
    ELSE p

(* All the streams of a user are asked for, one after the other.           *)
AskedAll(p, u) ==
    LET q[n \in 0..MaxOffers] ==
          IF n = 0 THEN p
          ELSE IF n \in getUserStreams(p, u) THEN Asked(q[n - 1], n)
          ELSE q[n - 1]
    IN q[MaxOffers]

refreshParticipantPresence(p, u) ==
    LET known == u \in p.users
        old == PresenceOf(p, u)
        snap == IF known THEN p.streamsOf[u] ELSE old.snap
        now == [snap |-> snap,
                transient |-> old.transient /\ ~known,
                waits |-> IF known THEN "no" ELSE old.waits,
                status |-> getParticipantConnectionStatus(p, u),
                audio |-> participantHasAudio(p, u, snap)]
    IN IF snap = Unset
       THEN [p EXCEPT !.presence = Put(@, u, old)]
       ELSE renderParticipantRow(
              [AskedAll(p, u) EXCEPT !.presence = Put(@, u, now)], u)

markParticipantStreamReconnecting(p, u) ==
    LET old == PresenceOf(p, u)
    IN renderParticipantRow(
         [p EXCEPT !.presence =
            Put(@, u, [old EXCEPT !.transient = TRUE,
                                  !.waits = IF @ = "no" THEN "recent" ELSE @])],
         u)

-----------------------------------------------------------------------------
(* Tiles and streams.                                                      *)

setMediaStatus(p, i) == refreshParticipantPresence(Asked(p, i), p.down[i].owner)

setMedia(p, i, force) ==
    LET l == p.down[i].localId
    IN setMediaStatus(
         [p EXCEPT !.tiles = @ \cup {l},
                   !.due = @ \/ force \/ l \notin p.tiles], i)

OpenAs(p, l) == {i \in Offers : p.down[i].open /\ p.down[i].localId = l}

RefreshOwners(p, streams) ==
    IF streams = {} THEN p
    ELSE refreshParticipantPresence(p, p.down[CHOOSE i \in streams : TRUE].owner)

(* As delMedia, with the element left where it is.                         *)
delMediaOnly(p, l, u) ==
    RefreshOwners([p EXCEPT !.health = Without(@, l), !.due = TRUE], OpenAs(p, l))

delMedia(p, l, u) ==
    IF l \notin p.tiles THEN RefreshOwners(p, OpenAs(p, l))
    ELSE RefreshOwners(
           [p EXCEPT !.tiles = @ \ {l},
                     !.health = Without(@, l),
                     !.shown[u] = IF @ = "tile" THEN "none" ELSE @,
                     !.due = TRUE],
           OpenAs(p, l))

gotUserChange(p, u) ==
    [refreshParticipantPresence([p EXCEPT !.recentlyDeleted = @ \ {u}], u)
       EXCEPT !.due = TRUE]

(* What is left of a stream that is closed: a timer may still refer to it. *)
Closed(c) == [NoStream EXCEPT !.owner = c.owner, !.localId = c.localId]

(* The summary of the streams of a user, from the tracks that are live.    *)
recomputeUserStreams(p, u) ==
    LET with == {i \in getUserStreams(p, u) : p.down[i].stream}
        now == (IF with = {} THEN {} ELSE {"camera"})
                 \cup UNION {Live(p, i) : i \in with}
    IN IF u \in p.users THEN [p EXCEPT !.streamsOf[u] = now] ELSE p

closeStream(p, i, replace) ==
    LET u == p.down[i].owner
        q == recomputeUserStreams([p EXCEPT !.down[i] = Closed(@)], u)
        told == IF q.streamsOf # p.streamsOf THEN gotUserChange(q, u) ELSE q
        gone == refreshParticipantPresence(
                  delMedia(told, p.down[i].localId, u), u)
    IN IF replace THEN markParticipantStreamReconnecting(gone, u) ELSE gone

removeConferenceArtifactsForUser(p, u) ==
    LET q[n \in 0..MaxOffers] ==
          IF n = 0
          THEN [p EXCEPT !.shown[u] = IF @ = "placeholder" THEN "none" ELSE @]
          ELSE IF n \in getUserStreams(p, u)
          THEN delMedia(q[n - 1], p.down[n].localId, u)
          ELSE q[n - 1]
    IN q[MaxOffers]

(* As removeUser, with the presence of the user kept.                      *)
removeRowOnly(p, u) ==
    [removeConferenceArtifactsForUser(p, u) EXCEPT
       !.recentlyDeleted = @ \cup {u}, !.rows = @ \ {u}, !.due = TRUE]

removeUser(p, u) ==
    [removeConferenceArtifactsForUser(p, u) EXCEPT
       !.recentlyDeleted = @ \cup {u}, !.rows = @ \ {u},
       !.presence = Without(@, u), !.due = TRUE]

clearParticipantPresence(p) ==
    [p EXCEPT !.presence = <<>>, !.rows = {}, !.health = <<>>,
              !.recentlyDeleted = {}]

clearConferenceUi(p) ==
    [p EXCEPT !.tiles = {}, !.shown = [u \in Members |-> "none"]]

-----------------------------------------------------------------------------
(* The layout.                                                             *)

WithMedia(p, u) == {i \in getUserStreams(p, u) : p.down[i].stream}

(* As getConferenceParticipants, with those who have just left.            *)
HasStreams(p) == {u \in Members : u \in p.users \/ WithMedia(p, u) # {}}

(* The users in the conference: those of the roster; those whose streams   *)
(* are here, and who have not just left; those whose stream is being       *)
(* replaced.                                                               *)
getConferenceParticipants(p) ==
    {u \in Members :
       \/ u \in p.users
       \/ /\ u \notin p.recentlyDeleted
          /\ \/ WithMedia(p, u) # {}
             \/ PresenceOf(p, u).snap # Unset /\ PresenceOf(p, u).transient}

(* Whether the placeholder says that the user is connecting: it does unless*)
(* it can say that the camera is off.                                      *)
Connecting(p, u) ==
    LET live == UNION {Live(p, i) : i \in WithMedia(p, u)}
        camera == IF u \in p.users THEN p.streamsOf[u]
                  ELSE PresenceOf(p, u).snap
    IN \/ PresenceOf(p, u).transient
       \/ WithMedia(p, u) # {} /\ "video" \in live
       \/ WithMedia(p, u) = {} /\ (camera \cap Kinds # {} \/ "camera" \notin camera)

CameraTile(p, u) ==
    {p.down[i].localId : i \in {j \in getUserStreams(p, u) : hasVideoTrack(p, j)}}
      \cap p.tiles

shouldRenderConferencePlaceholder(p, u) ==
    \/ ~Connecting(p, u)
    \/ /\ \A i \in getUserStreams(p, u) : ~hasVideoTrack(p, i)
       /\ PresenceOf(p, u).waits # "long"

(* When a layout leaves a user waiting, and when it resets the wait.       *)
Waits(p, u) ==
    IF \/ CameraTile(p, u) # {} \/ ~Connecting(p, u)
       \/ \E i \in getUserStreams(p, u) : hasVideoTrack(p, i)
    THEN "no"
    ELSE IF PresenceOf(p, u).waits = "no" THEN "recent"
    ELSE PresenceOf(p, u).waits

getConferenceLayoutPeers(p) ==
    [u \in Members |->
       IF u \notin getConferenceParticipants(p) THEN "none"
       ELSE IF CameraTile(p, u) # {} THEN "tile"
       ELSE IF shouldRenderConferencePlaceholder(p, u) THEN "placeholder"
       ELSE "none"]

runConferenceLayout(p) ==
    LET in == getConferenceParticipants(p)
        kept == DOMAIN p.presence
                  \cup {u \in in : CameraTile(p, u) = {}}
    IN [p EXCEPT
          !.due = FALSE,
          !.shown = getConferenceLayoutPeers(p),
          !.tiles = UNION {CameraTile(p, u) : u \in in},
          !.presence = [u \in kept |->
            IF u \in in THEN [PresenceOf(p, u) EXCEPT !.waits = Waits(p, u)]
            ELSE p.presence[u]]]

-----------------------------------------------------------------------------
(* What happens to the page.                                               *)

Init ==
    /\ net = "joined"
    /\ pg = [users |-> {}, streamsOf |-> [u \in Members |-> {}],
             down |-> [i \in Offers |-> NoStream],
             presence |-> <<>>, rows |-> {}, recentlyDeleted |-> {},
             tiles |-> {}, shown |-> [u \in Members |-> "none"],
             health |-> <<>>, due |-> TRUE]

(* The server announces a user; the summary of its streams starts empty.   *)
addUser(u) ==
    /\ net = "joined"
    /\ LET p == [pg EXCEPT !.users = @ \cup {u}, !.streamsOf[u] = {},
                           !.recentlyDeleted = @ \ {u},
                           !.presence = Put(@, u, [PresenceOf(pg, u) EXCEPT
                              !.transient = FALSE, !.waits = "no",
                              !.snap = {}])]
       IN pg' = [refreshParticipantPresence(p, u) EXCEPT !.due = TRUE]
    /\ UNCHANGED net

changeUser(u) ==
    /\ net = "joined"
    /\ pg' = gotUserChange(
               [pg EXCEPT !.users = @ \cup {u},
                          !.streamsOf[u] = IF u \in pg.users THEN @ ELSE {}], u)
    /\ UNCHANGED net

delUser(u) ==
    /\ net = "joined"
    /\ u \in pg.users
    /\ pg' = removeUser(
               [pg EXCEPT !.users = @ \ {u}, !.streamsOf[u] = {},
                          !.down = [i \in Offers |->
                            [pg.down[i] EXCEPT !.orphan = @ \/ i \in getUserStreams(pg, u)]]],
               u)
    /\ UNCHANGED net

(* An offer of a new stream.  The one it replaces is closed and gives it   *)
(* its local id, unless it was closed already.                             *)
gotOffer(u, i) ==
    /\ net = "joined"
    /\ pg.down[i].localId = 0
    /\ \A j \in 1..(i - 1) : pg.down[j].localId # 0
    /\ LET old == getUserStreams(pg, u)
           p == IF old = {} THEN pg
                ELSE closeStream(pg, CHOOSE j \in old : TRUE, TRUE)
           l == IF old = {} THEN i ELSE pg.down[CHOOSE j \in old : TRUE].localId
           new == [NoStream EXCEPT !.open = TRUE, !.owner = u, !.localId = l,
                                   !.orphan = u \in pg.recentlyDeleted]
       IN pg' = setMedia([p EXCEPT !.down[i] = new], i, FALSE)
    /\ UNCHANGED net

(* An offer for a stream that is there.                                    *)
Renegotiate(i) ==
    /\ pg.down[i].open
    /\ pg' = setMedia(pg, i, FALSE)
    /\ UNCHANGED net

gotClose(i) ==
    /\ pg.down[i].open
    /\ pg' = closeStream(pg, i, FALSE)
    /\ UNCHANGED net

ontrack(i, k) ==
    /\ pg.down[i].open
    /\ pg.down[i].tracks[k] = "none"
    /\ LET u == pg.down[i].owner
           p == [pg EXCEPT !.down[i].stream = TRUE,
                           !.down[i].tracks[k] = "live"]
           q == recomputeUserStreams(p, u)
           r == setMedia(q, i, TRUE)
       IN pg' = IF q.streamsOf # p.streamsOf THEN gotUserChange(r, u) ELSE r
    /\ UNCHANGED net

(* A track ends, or is taken off the stream: the summary is not recomputed.*)
TrackLost(i, k, left) ==
    /\ pg.down[i].open
    /\ pg.down[i].tracks[k] = "live"
    /\ LET p == [pg EXCEPT !.down[i].tracks[k] = left]
       IN pg' = refreshParticipantPresence(setMedia(p, i, TRUE),
                                           pg.down[i].owner)
    /\ UNCHANGED net

oniceconnectionstatechange(i, s) ==
    /\ pg.down[i].open
    /\ pg.down[i].ice # s
    /\ pg' = setMediaStatus([pg EXCEPT !.down[i].ice = s], i)
    /\ UNCHANGED net

(* A stream has been disconnected for the grace period; its timer fires.   *)
GraceOver(l) ==
    /\ l \in DOMAIN pg.health
    /\ pg.health[l].since = "fresh"
    /\ LET i == pg.health[l].timer
           p == [pg EXCEPT !.health[l].since = "over", !.health[l].timer = 0]
       IN pg' = IF i = 0 THEN p ELSE setMediaStatus(p, i)
    /\ UNCHANGED net

(* A frame: the layout that was asked for.                                 *)
Frame ==
    /\ pg.due
    /\ pg' = runConferenceLayout(pg)
    /\ UNCHANGED net

(* 15 seconds after a user has left.                                       *)
ForgetDeleted(u) ==
    /\ u \in pg.recentlyDeleted
    /\ pg' = [pg EXCEPT !.recentlyDeleted = @ \ {u}]
    /\ UNCHANGED net

(* A placeholder has said for long enough that the user is connecting.     *)
PlaceholderGraceOver(u) ==
    /\ PresenceOf(pg, u).waits = "recent"
    /\ pg' = [pg EXCEPT !.presence[u].waits = "long"]
    /\ UNCHANGED net

(* Every stream that is open is closed, one after the other.               *)
closeStreams(p) ==
    LET q[n \in 0..MaxOffers] ==
          IF n = 0 THEN p
          ELSE IF q[n - 1].down[n].open THEN closeStream(q[n - 1], n, FALSE)
          ELSE q[n - 1]
    IN q[MaxOffers]

(* The socket closes: the roster is forgotten before the streams are       *)
(* closed.  A page that will not reconnect clears everything.              *)
handleSocketClose(again) ==
    /\ net # "lost"
    /\ LET p == [pg EXCEPT !.users = {}, !.streamsOf = [u \in Members |-> {}]]
           q == closeStreams(p)
       IN pg' = IF again THEN q
                ELSE clearConferenceUi(clearParticipantPresence(q))
    /\ net' = "lost"

setConnected ==
    /\ net = "lost"
    /\ pg' = clearParticipantPresence(pg)
    /\ net' = "joining"

(* The first user the server announces is the page's own.                  *)
OwnUser ==
    /\ net = "joining"
    /\ pg' = [pg EXCEPT !.due = TRUE]
    /\ net' = "joined"

Next ==
    \/ \E u \in Members :
         \/ addUser(u) \/ changeUser(u) \/ delUser(u)
         \/ ForgetDeleted(u) \/ PlaceholderGraceOver(u)
         \/ \E i \in Offers : gotOffer(u, i)
    \/ \E i \in Offers :
         \/ Renegotiate(i) \/ gotClose(i) \/ GraceOver(i)
         \/ \E k \in Kinds :
              \/ ontrack(i, k)
              \/ \E left \in {"none", "ended"} : TrackLost(i, k, left)
         \/ \E s \in IceChanges : oniceconnectionstatechange(i, s)
    \/ Frame
    \/ \E again \in BOOLEAN : handleSocketClose(again)
    \/ setConnected
    \/ OwnUser

Spec == Init /\ [][Next]_peopleVars

-----------------------------------------------------------------------------
(* While the page is in the group, the list has one row for each user of   *)
(* the roster and for nobody else, and the row says what is so: no late    *)
(* event of a stream brings back a user who has left, none leaves a stale  *)
(* status (refreshParticipantPresence, removeUserRow, delMedia).           *)
RowsCurrent ==
    net = "joined" =>
      /\ pg.rows = pg.users
      /\ \A u \in pg.users :
           /\ u \in DOMAIN pg.presence
           /\ pg.presence[u].status = getParticipantConnectionStatus(pg, u)
           /\ pg.presence[u].audio
                = participantHasAudio(pg, u, pg.presence[u].snap)
           /\ ~pg.presence[u].transient

(* Every tile is that of a stream that is open (Stream.close, delMedia).   *)
TilesHaveStreams == \A l \in pg.tiles : OpenAs(pg, l) # {}

(* Once the layout has run, a user of the roster whose camera is received  *)
(* has a tile, unless the user left and came back while the stream was     *)
(* open, and a user who has just left has nothing, whatever becomes of the *)
(* user's streams (getConferenceLayoutPeers, scheduleConferenceLayout).    *)
LayoutCurrent ==
    net = "joined" /\ ~pg.due =>
      \A u \in Members :
        /\ u \in pg.users
           /\ (\E i \in getUserStreams(pg, u) :
                 hasVideoTrack(pg, i) /\ ~pg.down[i].orphan)
             => pg.shown[u] = "tile"
        /\ u \in pg.recentlyDeleted => pg.shown[u] = "none"
=============================================================================
