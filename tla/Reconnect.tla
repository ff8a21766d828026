------------------------------ MODULE Reconnect ------------------------------
(***************************************************************************)
(* How a page reaches its group, and comes back to it: the login, the      *)
(* WebSocket of a ServerConnection and its watchdog (static/protocol.js),  *)
(* and the state that reconnects by itself (static/owly.js).  A connection *)
(* object outlives its place in the global serverConnection: its socket    *)
(* closes later, its join may still be waiting for an authorisation        *)
(* server, and every handler compares `this` with the global.              *)
(***************************************************************************)
EXTENDS Naturals, FiniteSets

CONSTANTS
    MaxConns,               \* connection objects alive at one time
    reconnectMaxAttempts    \* attempts before the page gives up

None == 0
Conns == 1..MaxConns

VARIABLES
    serverConnection,   \* the global: a connection or None
    conn,               \* the connection objects
    pending,            \* reconnectPending
    attempts,           \* reconnectAttempts
    timer,              \* reconnectTimer
    promise,            \* serverConnectPromise: waiting for the tab's identity
    auth,               \* reconnectState: the kind of credentials kept
    token,              \* is there a token from the URL?
    probing,            \* probingState
    ui,                 \* what the page shows: nothing, the login form, the call
    method,             \* what the group asks for: a password, or its own server
    media               \* the wish to present, and the work it has started

vars == <<serverConnection, conn, pending, attempts, timer, promise, auth,
          token, probing, ui, method, media>>

session == <<pending, attempts, timer, auth>>

NoSocket == [ws |-> "closed", attached |-> FALSE, requested |-> FALSE,
             reason |-> "", join |-> "no"]

Up == {"connecting", "open"}
Free == {c \in Conns : conn[c] = NoSocket /\ c # serverConnection}

(* ServerConnection.close: it takes the socket away at once, and says why  *)
(* unless there was nothing left to close.                                 *)
close(cn, c, why, internal) ==
    [cn EXCEPT ![c] =
        IF @.attached /\ @.ws \in Up
        THEN [@ EXCEPT !.ws = "closing", !.attached = FALSE,
                       !.requested = ~internal, !.reason = why]
        ELSE IF internal /\ @.ws # "closed"
        THEN [@ EXCEPT !.attached = FALSE, !.requested = FALSE, !.reason = why]
        ELSE [@ EXCEPT !.attached = FALSE]]

closeConnectionIfOpen(cn, c, why, internal) ==
    IF c # None /\ cn[c].attached /\ cn[c].ws \in Up
    THEN close(cn, c, why, internal) ELSE cn

AbandonOpen(cn, c) ==
    IF c = None THEN cn
    ELSE [cn EXCEPT ![c].join = IF @ = "fetching" THEN "fetching" ELSE "no"]

(* The global moves on: all that still matters of the old connection is    *)
(* that its socket closes, and that it may be waiting for credentials.     *)
abandon(cn, c) ==
    IF c = None THEN cn
    ELSE [cn EXCEPT ![c] = [NoSocket EXCEPT
            !.ws = IF cn[c].ws \in Up THEN "closing" ELSE cn[c].ws,
            !.join = IF cn[c].join = "fetching" THEN "fetching" ELSE "no"]]

cancelPendingReconnect ==
    timer' = FALSE /\ pending' = FALSE /\ attempts' = 0

Init ==
    /\ serverConnection = None
    /\ conn = [c \in Conns |-> NoSocket]
    /\ pending = FALSE /\ attempts = 0 /\ timer = FALSE
    /\ auth = "none" /\ probing = "none"
    /\ method \in {"password", "authServer"}
    /\ token \in BOOLEAN
    /\ promise = token
    /\ ui = IF token THEN "nothing" ELSE "login"
    /\ media = [desired |-> FALSE, restore |-> FALSE, present |-> FALSE, adding |-> "no"]

(* The login form, whose button is disabled while a reconnection is        *)
(* pending: camera and microphone are wanted.  A serverConnect that is     *)
(* already under way is joined, not repeated.                              *)
loginform ==
    /\ ui = "login" /\ ~pending
    /\ cancelPendingReconnect
    /\ promise' = TRUE
    /\ media' = [media EXCEPT !.present = TRUE]
    /\ UNCHANGED <<serverConnection, conn, auth, token, probing, ui, method>>

TriedBefore == promise \/ (pending /\ serverConnection = None)

Tried == promise \/ pending

(* The timer of scheduleReconnect.                                         *)
ReconnectTimer ==
    /\ timer
    /\ timer' = FALSE
    /\ promise' = Tried
    /\ UNCHANGED <<serverConnection, conn, pending, attempts, auth, token,
                   probing, ui, method, media>>

(* The identity is known: the old connection is closed, a new one opened.  *)
serverConnect(c) ==
    /\ promise /\ c \in Free /\ \A d \in Free : c <= d
    /\ promise' = FALSE
    /\ serverConnection' = c
    /\ conn' = [abandon(conn, serverConnection) EXCEPT
                    ![c] = [NoSocket EXCEPT !.ws = "connecting", !.attached = TRUE]]
    /\ UNCHANGED <<session, token, probing, ui, method, media>>

SocketOpen(c) ==
    /\ conn[c].ws = "connecting"
    /\ conn' = [conn EXCEPT ![c].ws = "open"]
    /\ UNCHANGED <<serverConnection, session, promise, token, probing, ui,
                   method, media>>

(* The credentials of a join: a token first, then, while reconnecting, the *)
(* ones that were kept, then the form.                                     *)
Credentials ==
    IF token THEN "token" ELSE IF pending /\ auth # "none" THEN auth ELSE method

(* A token is first tried without a username, to see whether one is needed *)
(* (the probe); any other state is left for the real join.                 *)
ProbingState ==
    IF token THEN IF probing = "none" THEN "probing" ELSE "none"
    ELSE IF pending /\ auth # "none" THEN probing ELSE "none"

(* The server's handshake: gotConnected, and join up to the question to    *)
(* the authorisation server.                                               *)
gotConnected(c) ==
    /\ conn[c].ws = "open" /\ conn[c].join = "no"
    /\ IF c = serverConnection
       THEN /\ ui' = "call"
            /\ auth' = Credentials
            /\ probing' = ProbingState
            /\ conn' = [conn EXCEPT ![c].join =
                           IF Credentials = "authServer" THEN "fetching" ELSE "sent"]
       ELSE /\ conn' = [conn EXCEPT ![c].join = "ignored"]
            /\ UNCHANGED <<ui, auth, probing>>
    /\ UNCHANGED <<serverConnection, pending, attempts, timer, promise, token,
                   method, media>>

(* The authorisation server's answer lets the join message be sent, if the *)
(* socket is still there; it fails otherwise, and the failure closes the   *)
(* global connection, whichever it is now.  (No error that this await can  *)
(* throw reads like a failure of authorisation.)                           *)
join(c, answered) ==
    /\ conn[c].join = "fetching"
    /\ IF answered /\ conn[c].attached /\ conn[c].ws = "open"
       THEN conn' = [conn EXCEPT ![c].join = "sent"]
       ELSE LET done == [conn EXCEPT ![c] =
                            IF @.ws = "closed" THEN NoSocket ELSE [@ EXCEPT !.join = "ignored"]]
            IN conn' = IF serverConnection = None THEN done
                       ELSE close(done, serverConnection, "join failed", TRUE)
    /\ UNCHANGED <<serverConnection, session, promise, token, probing, ui,
                   method, media>>

Answer(c) == conn[c].ws = "open" /\ conn[c].join = "sent"

(* gotJoined, kind fail: the wish to present is dropped, the credentials   *)
(* too when they were refused.                                             *)
JoinRefused(c, error) ==
    /\ Answer(c)
    /\ LET heard == [conn EXCEPT ![c].join = "ignored"]
           named == probing = "probing" /\ error = "need-username"
       IN IF c # serverConnection
          THEN conn' = heard /\ UNCHANGED <<pending, auth, probing, token, media>>
          ELSE /\ conn' = closeConnectionIfOpen(heard, c, "join failed",
                                                error # "not-authorised")
               /\ pending' = FALSE
               /\ auth' = IF error = "not-authorised" THEN "none" ELSE auth
               /\ probing' = IF named THEN "need-username" ELSE probing
               /\ token' = (token /\ named)
               /\ media' = [media EXCEPT !.restore = FALSE, !.present = FALSE]
    /\ UNCHANGED <<serverConnection, attempts, timer, promise, ui, method>>

(* gotJoined, kind join: a probe has succeeded, and the connection is      *)
(* closed again, or the page is in the group.  Then the camera is opened   *)
(* if the user asked for it or was presenting; gotJoined waits for it.     *)
Joined(c) ==
    /\ Answer(c)
    /\ LET in == [conn EXCEPT ![c].join = "in"]
       IN IF c # serverConnection
          THEN conn' = in /\ UNCHANGED <<session, probing, token, media>>
          ELSE IF probing = "probing"
          THEN /\ probing' = "success"
               /\ conn' = closeConnectionIfOpen(in, c, "probing complete", FALSE)
               /\ media' = [media EXCEPT !.present = FALSE]
               /\ UNCHANGED <<session, token>>
          ELSE /\ conn' = in
               /\ token' = FALSE
               /\ cancelPendingReconnect
               /\ media' = IF media.present \/ media.restore
                           THEN [media EXCEPT !.present = FALSE, !.desired = TRUE,
                                              !.adding = IF media.desired THEN "again" ELSE "first"]
                           ELSE [media EXCEPT !.restore = FALSE]
               /\ UNCHANGED <<auth, probing>>
    /\ UNCHANGED <<serverConnection, promise, ui, method>>

(* The camera is open, or the user has refused it: the end of gotJoined.   *)
(* A first refusal means that the user does not present.                   *)
LocalMediaAdded(opened) ==
    /\ media.adding # "no"
    /\ media' = [media EXCEPT !.restore = FALSE, !.adding = "no",
                              !.desired = @ /\ (opened \/ media.adding = "again")]
    /\ UNCHANGED <<serverConnection, conn, session, promise, token, probing, ui, method>>

(* disconnectConferenceNow: the user leaves, or the server says so.        *)
disconnectConferenceNow ==
    /\ cancelPendingReconnect
    /\ auth' = "none"
    /\ media' = [media EXCEPT !.desired = FALSE, !.restore = FALSE]
    /\ serverConnection' = None
    /\ ui' = "login"
    /\ conn' = abandon(conn, serverConnection)
    /\ UNCHANGED <<promise, token, probing, method>>

Disconnect == ui = "call" /\ disconnectConferenceNow

Kicked(c) ==
    /\ conn[c].ws = "open" /\ conn[c].join = "in" /\ c = serverConnection
    /\ disconnectConferenceNow

(* The watchdog finds no message for too long, or none at all: error().    *)
(* It runs until the socket has closed.                                    *)
PingTimeout(c) ==
    /\ conn[c].ws # "closed" /\ c = serverConnection
    /\ conn' = close(conn, c, "timeout", TRUE)
    /\ UNCHANGED <<serverConnection, session, promise, token, probing, ui,
                   method, media>>

(* Media that does not come back closes the socket (runTransportRecovery). *)
MediaStall ==
    /\ serverConnection # None /\ conn[serverConnection].join = "in"
    /\ conn' = closeConnectionIfOpen(conn, serverConnection, "media stall", TRUE)
    /\ UNCHANGED <<serverConnection, session, promise, token, probing, ui,
                   method, media>>

shouldAutoReconnectAfterClose(c) ==
    /\ ~conn[c].requested
    /\ auth # "none"
    /\ conn[c].reason # "join failed"
    /\ attempts < reconnectMaxAttempts

SameAttempt == attempts

NextAttempt == attempts + 1

(* handleSocketClose and gotClose: another attempt is scheduled, or the    *)
(* page gives up and shows the login form.                                 *)
gotClose(c) ==
    /\ conn[c].ws # "closed"
    /\ conn' = [conn EXCEPT ![c] = IF @.join = "fetching"
                                   THEN [NoSocket EXCEPT !.join = "fetching"]
                                   ELSE NoSocket]
    /\ IF c # serverConnection
       THEN UNCHANGED <<serverConnection, session, ui, media>>
       ELSE LET auto == shouldAutoReconnectAfterClose(c)
            IN /\ pending' = auto /\ timer' = auto
               /\ attempts' = IF auto THEN NextAttempt
                              ELSE IF conn[c].requested THEN 0 ELSE attempts
               /\ auth' = IF conn[c].requested THEN "none" ELSE auth
               /\ media' = [media EXCEPT !.restore = auto /\ media.desired]
               /\ serverConnection' = IF auto THEN c ELSE None
               /\ ui' = IF auto THEN ui ELSE "login"
    /\ UNCHANGED <<promise, token, probing, method>>

Progress ==
    \/ ReconnectTimer
    \/ \E c \in Conns :
          \/ serverConnect(c) \/ SocketOpen(c) \/ gotConnected(c) \/ gotClose(c)
          \/ \E answered \in BOOLEAN : join(c, answered)
          \/ \E error \in {"not-authorised", "need-username", "other"} : JoinRefused(c, error)
          \/ Joined(c)

Next ==
    \/ Progress
    \/ loginform \/ Disconnect \/ MediaStall
    \/ \E opened \in BOOLEAN : LocalMediaAdded(opened)
    \/ \E c \in Conns : Kicked(c) \/ PingTimeout(c)

(* Timers fire, sockets open or close, and what the server does not answer *)
(* the watchdog ends.  Users need not do anything.                         *)
Spec == Init /\ [][Next]_vars /\ WF_vars(Progress)

TypeOK ==
    /\ serverConnection \in Conns \cup {None}
    /\ \A c \in Conns : conn[c].ws \in {"connecting", "open", "closing", "closed"}
    /\ attempts \in 0..reconnectMaxAttempts
    /\ auth \in {"none", "token", "password", "authServer"}
    /\ ui \in {"nothing", "login", "call"}

(* Every socket that is open, or opening, is the one the page uses: old    *)
(* connections never stay behind as a second client of the same user.      *)
NoStraySocket == \A c \in Conns : conn[c].ws \in Up => c = serverConnection

(* A page that says Reconnecting... is doing something about it: a timer,  *)
(* a new connection, or a socket whose end it will hear of.                *)
PendingHasCause ==
    pending => \/ timer \/ promise
               \/ serverConnection # None /\ conn[serverConnection].ws # "closed"

(* A page that is reconnecting ends up in the group or at the login form.  *)
Settles ==
    pending ~> (ui = "login" \/ \E c \in Conns : c = serverConnection /\ conn[c].join = "in")

(* A user who was presenting still is to after any number of failures of   *)
(* the connection.                                                         *)
PresentationKept == (pending /\ media.desired) => media.restore

(* A join that fails closes the connection that it was for.                *)
FailsItself ==
    [][\A c \in Conns :
          (conn[c].reason # "join failed" /\ conn'[c].reason = "join failed")
             => conn[c].join \in {"fetching", "sent"}]_vars

(* A probe ends with the server's answer.                                  *)
ProbeAnswered == [][probing = "probing" => probing' # "none"]_vars

=============================================================================
