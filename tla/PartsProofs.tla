---------------------------- MODULE PartsProofs ----------------------------
(***************************************************************************)
(* Theorems about MCParts, the specification that the runs check.  What is *)
(* proved of FileTransfer, TabIdentity, Participants and Negotiation in    *)
(* modules of their own is carried over: a behaviour of the parts is, as   *)
(* far as the variables of a part go, one of that part.  FP, PP and NP are *)
(* second instances of them, with their theorems; they say the same.  What *)
(* is said of the session (Reconnect), the camera (Camera), its filters    *)
(* (Filter), the revival of streams (Recovery) and the rates (ReceiveRate, *)
(* SendRate) is proved here.                                               *)
(***************************************************************************)
EXTENDS MCParts, SequenceTheorems, FiniteSetTheorems, TLAPS

(* The session: what the two properties need to know of its variables.     *)
Sockets == {"connecting", "open", "closing", "closed"}

Reasons == {"", "timeout", "media stall", "join failed", "probing complete"}
Joins == {"no", "fetching", "sent", "ignored", "in"}

Connection == [ws : Sockets, attached : BOOLEAN, requested : BOOLEAN,
               reason : Reasons, join : Joins]

SessionShape ==
    /\ serverConnection \in R!Conns \cup {R!None}
    /\ pending \in BOOLEAN /\ timer \in BOOLEAN /\ promise \in BOOLEAN
    /\ conn \in [R!Conns -> Connection]

SessionInv == SessionShape /\ R!NoStraySocket /\ R!PendingHasCause

LEMMA NoSocketShape == R!NoSocket \in Connection /\ R!NoSocket.ws = "closed"
  BY DEF R!NoSocket, Connection, Sockets, Reasons, Joins

LEMMA SessionStarts == R!Init => SessionInv
<1> SUFFICES ASSUME R!Init PROVE SessionInv
  OBVIOUS
<1>1. SessionShape
  BY NoSocketShape DEF R!Init, SessionShape
<1>2. R!NoStraySocket
  BY NoSocketShape DEF R!Init, R!NoStraySocket, R!Up
<1>3. R!PendingHasCause
  BY DEF R!Init, R!PendingHasCause
<1>4. QED
  BY <1>1, <1>2, <1>3 DEF SessionInv

(* Going down: no socket comes up, none is forgotten before it has closed. *)
Lower(new, old) ==
    /\ new \in [R!Conns -> Connection]
    /\ \A d \in R!Conns : /\ new[d].ws \in R!Up => old[d].ws \in R!Up
                          /\ new[d].ws = "closed" => old[d].ws = "closed"

LEMMA LowerStill ==
  ASSUME NEW cn, NEW mid, NEW new, Lower(new, mid), Lower(mid, cn)
  PROVE  Lower(new, cn)
BY DEF Lower

LEMMA SocketCloses ==
  ASSUME NEW cn \in [R!Conns -> Connection], NEW c \in R!Conns, NEW why \in Reasons,
         NEW internal \in BOOLEAN
  PROVE  Lower(R!close(cn, c, why, internal), cn)
<1> DEFINE new == R!close(cn, c, why, internal)
<1>1. new = [cn EXCEPT ![c] = new[c]]
  BY DEF R!close
<1>2. new[c] \in Connection
  BY DEF R!close, Connection, Sockets
<1>3. /\ new[c].ws \in R!Up => cn[c].ws \in R!Up
      /\ new[c].ws = "closed" => cn[c].ws = "closed"
  BY DEF R!close, Connection, R!Up
<1> HIDE DEF new
<1>4. new \in [R!Conns -> Connection] /\ \A d \in R!Conns : d # c => new[d] = cn[d]
  BY <1>1, <1>2
<1>5. Lower(new, cn)
  BY <1>3, <1>4 DEF Lower
<1>6. QED
  BY <1>5 DEF new

LEMMA SocketClosesIfOpen ==
  ASSUME NEW cn \in [R!Conns -> Connection], NEW c \in R!Conns, NEW why \in Reasons,
         NEW internal \in BOOLEAN
  PROVE  Lower(R!closeConnectionIfOpen(cn, c, why, internal), cn)
<1>1. \/ R!closeConnectionIfOpen(cn, c, why, internal) = R!close(cn, c, why, internal)
      \/ R!closeConnectionIfOpen(cn, c, why, internal) = cn
  BY DEF R!closeConnectionIfOpen
<1>2. Lower(cn, cn)
  BY DEF Lower
<1>3. QED
  BY <1>1, <1>2, SocketCloses

(* A word of the protocol changes no socket.                               *)
LEMMA WordsTouchNoSocket ==
  ASSUME NEW cn \in [R!Conns -> Connection], NEW c \in R!Conns, NEW j \in Joins
  PROVE  /\ [cn EXCEPT ![c].join = j] \in [R!Conns -> Connection]
         /\ Lower([cn EXCEPT ![c].join = j], cn)
BY DEF Connection, Lower

(* An abandoned connection goes down, and no other is touched.             *)
LEMMA AbandonDoes ==
  ASSUME NEW cn \in [R!Conns -> Connection], NEW c \in R!Conns \cup {R!None}
  PROVE  /\ R!abandon(cn, c) \in [R!Conns -> Connection]
         /\ \A d \in R!Conns :
              /\ d # c => R!abandon(cn, c)[d] = cn[d]
              /\ R!abandon(cn, c)[d].ws \in R!Up => d # c /\ cn[d].ws \in R!Up
<1>1. CASE c = R!None
  BY <1>1 DEF R!abandon, R!None, R!Conns
<1>2. CASE c \in R!Conns /\ c # R!None
  <2> DEFINE new == R!abandon(cn, c)
  <2>1. new = [cn EXCEPT ![c] = new[c]]
    BY <1>2 DEF R!abandon
  <2>2. new[c] \in Connection /\ new[c].ws \notin R!Up
    BY <1>2 DEF R!abandon, R!NoSocket, Connection, Sockets, Reasons, Joins, R!Up
  <2>3. QED
    BY <1>2, <2>1, <2>2
<1>3. QED
  BY <1>1, <1>2

-----------------------------------------------------------------------------
(* Most steps only take sockets down, leave the global alone, and keep     *)
(* what is under way for as long as the page waits.                        *)
LEMMA Quieter ==
  ASSUME SessionInv, Lower(conn', conn), serverConnection' = serverConnection,
         \/ pending' = pending /\ timer' = timer /\ promise' = promise
         \/ pending' = FALSE /\ timer' \in BOOLEAN /\ promise' \in BOOLEAN
  PROVE  SessionInv'
<1>1. SessionShape'
  BY DEF SessionInv, SessionShape, Lower
<1>2. R!NoStraySocket'
  BY DEF SessionInv, R!NoStraySocket, Lower
<1>3. R!PendingHasCause'
  <2> SUFFICES ASSUME pending' PROVE R!PendingHasCause'
    BY DEF R!PendingHasCause
  <2>1. pending /\ timer' = timer /\ promise' = promise
    OBVIOUS
  <2>2. CASE timer \/ promise
    BY <2>1, <2>2 DEF R!PendingHasCause
  <2>3. CASE serverConnection # R!None /\ conn[serverConnection].ws # "closed"
    <3>1. serverConnection \in R!Conns
      BY <2>3 DEF SessionInv, SessionShape
    <3>2. conn'[serverConnection].ws # "closed"
      BY <2>3, <3>1 DEF Lower
    <3>3. QED
      BY <2>3, <3>2 DEF R!PendingHasCause
  <2>4. QED
    BY <2>1, <2>2, <2>3 DEF SessionInv, R!PendingHasCause
<1>4. QED
  BY <1>1, <1>2, <1>3 DEF SessionInv

LEMMA TimerKeepsSession == SessionInv /\ R!ReconnectTimer => SessionInv'
<1> SUFFICES ASSUME SessionInv, R!ReconnectTimer PROVE SessionInv'
  OBVIOUS
<1> USE DEF R!ReconnectTimer, R!Tried
<1>1. SessionShape'
  BY DEF SessionInv, SessionShape
<1>2. R!NoStraySocket'
  BY DEF SessionInv, R!NoStraySocket
<1>3. R!PendingHasCause'
  BY DEF SessionInv, R!PendingHasCause
<1>4. QED
  BY <1>1, <1>2, <1>3 DEF SessionInv

LEMMA ServerConnectKeepsSession ==
  ASSUME SessionInv, NEW c \in R!Conns, R!serverConnect(c) PROVE SessionInv'
<1> DEFINE new == [R!NoSocket EXCEPT !.ws = "connecting", !.attached = TRUE]
           old == R!abandon(conn, serverConnection)
<1>1. /\ serverConnection' = c /\ promise' = FALSE
      /\ pending' = pending /\ timer' = timer
      /\ conn' = [old EXCEPT ![c] = new]
  BY DEF R!serverConnect, R!session
<1>2. new \in Connection /\ new.ws = "connecting"
  BY DEF R!NoSocket, Connection, Sockets, Reasons, Joins
<1>3. /\ old \in [R!Conns -> Connection]
      /\ \A d \in R!Conns : old[d].ws \in R!Up => d # serverConnection /\ conn[d].ws \in R!Up
  BY AbandonDoes DEF SessionInv, SessionShape
<1>4. SessionShape'
  BY <1>1, <1>2, <1>3 DEF SessionInv, SessionShape
<1>5. R!NoStraySocket'
  <2> SUFFICES ASSUME NEW d \in R!Conns, conn'[d].ws \in R!Up, d # c PROVE FALSE
    BY <1>1 DEF R!NoStraySocket
  <2>1. old[d].ws \in R!Up
    BY <1>1, <1>3
  <2>2. QED
    BY <2>1, <1>3 DEF SessionInv, R!NoStraySocket
<1>6. R!PendingHasCause'
  BY <1>1, <1>2, <1>3 DEF R!PendingHasCause, R!Conns, R!None
<1>7. QED
  BY <1>4, <1>5, <1>6 DEF SessionInv

LEMMA ConnectionKeepsSession ==
  ASSUME SessionInv, NEW c \in R!Conns,
         \/ R!SocketOpen(c) \/ R!gotConnected(c) \/ R!PingTimeout(c)
         \/ \E answered \in BOOLEAN : R!join(c, answered)
         \/ \E error \in {"not-authorised", "need-username", "other"} : R!JoinRefused(c, error)
         \/ R!Joined(c)
  PROVE  SessionInv'
<1>a. conn \in [R!Conns -> Connection] /\ serverConnection \in R!Conns \cup {R!None}
  BY DEF SessionInv, SessionShape
<1>b. pending \in BOOLEAN /\ timer \in BOOLEAN /\ promise \in BOOLEAN
  BY DEF SessionInv, SessionShape
<1>c. ASSUME NEW j \in Joins, NEW why \in Reasons, NEW internal \in BOOLEAN
      PROVE  Lower(R!closeConnectionIfOpen([conn EXCEPT ![c].join = j], c, why, internal), conn)
  BY <1>a, <1>c, WordsTouchNoSocket, SocketClosesIfOpen, LowerStill
<1>1. CASE R!SocketOpen(c)
  <2>1. /\ conn' = [conn EXCEPT ![c].ws = "open"] /\ conn[c].ws = "connecting"
        /\ UNCHANGED <<serverConnection, pending, timer, promise>>
    BY <1>1 DEF R!SocketOpen, R!session
  <2>2. Lower(conn', conn)
    BY <1>a, <2>1 DEF Lower, Connection, Sockets, R!Up
  <2>3. QED
    BY <2>1, <2>2, Quieter
<1>2. CASE R!gotConnected(c)
  <2>1. PICK j \in Joins : conn' = [conn EXCEPT ![c].join = j]
    BY <1>2 DEF R!gotConnected, Joins
  <2>2. UNCHANGED <<serverConnection, pending, timer, promise>>
    BY <1>2 DEF R!gotConnected
  <2>3. QED
    BY <1>a, <2>1, <2>2, WordsTouchNoSocket, Quieter
<1>3. CASE R!PingTimeout(c)
  <2>1. /\ conn' = R!close(conn, c, "timeout", TRUE)
        /\ UNCHANGED <<serverConnection, pending, timer, promise>>
    BY <1>3 DEF R!PingTimeout, R!session
  <2>2. "timeout" \in Reasons
    BY DEF Reasons
  <2>3. QED
    BY <1>a, <2>1, <2>2, SocketCloses, Quieter
<1>4. ASSUME NEW answered \in BOOLEAN, R!join(c, answered) PROVE SessionInv'
  <2>1. UNCHANGED <<serverConnection, pending, timer, promise>>
    BY <1>4 DEF R!join, R!session
  <2>2. CASE conn' = [conn EXCEPT ![c].join = "sent"]
    <3>1. "sent" \in Joins
      BY DEF Joins
    <3>2. Lower(conn', conn)
      BY <1>a, <2>2, <3>1, WordsTouchNoSocket
    <3>3. QED
      BY <2>1, <3>2, Quieter
  <2>3. CASE conn' # [conn EXCEPT ![c].join = "sent"]
    <3> DEFINE rest == IF conn[c].ws = "closed" THEN R!NoSocket
                       ELSE [conn[c] EXCEPT !.join = "ignored"]
               done == [conn EXCEPT ![c] = rest]
    <3>1. conn' = IF serverConnection = R!None THEN done
                  ELSE R!close(done, serverConnection, "join failed", TRUE)
      BY <1>4, <2>3 DEF R!join
    <3>2. rest \in Connection /\ rest.ws = conn[c].ws
      BY <1>a, NoSocketShape DEF Connection, Joins
    <3>3. done \in [R!Conns -> Connection] /\ Lower(done, conn)
      <4> HIDE DEF rest
      <4>1. QED
        BY <1>a, <3>2 DEF Lower
    <3>4. Lower(conn', conn)
      <4> HIDE DEF done
      <4>1. CASE serverConnection = R!None
        BY <4>1, <3>1, <3>3
      <4>2. CASE serverConnection # R!None
        <5>1. serverConnection \in R!Conns /\ "join failed" \in Reasons
          BY <4>2, <1>a DEF Reasons
        <5>2. conn' = R!close(done, serverConnection, "join failed", TRUE)
          BY <4>2, <3>1
        <5>3. Lower(conn', done)
          BY <5>1, <5>2, <3>3, SocketCloses
        <5>4. QED
          BY <5>3, <3>3, LowerStill
      <4>3. QED
        BY <4>1, <4>2
    <3>5. QED
      BY <3>4, <2>1, Quieter
  <2>4. QED
    BY <2>2, <2>3
<1>5. ASSUME NEW error \in {"not-authorised", "need-username", "other"},
             R!JoinRefused(c, error)
      PROVE  SessionInv'
  <2>1. /\ UNCHANGED <<serverConnection, timer, promise>>
        /\ pending' = pending \/ pending' = FALSE
    BY <1>5 DEF R!JoinRefused
  <2>2. \/ conn' = [conn EXCEPT ![c].join = "ignored"]
        \/ conn' = R!closeConnectionIfOpen([conn EXCEPT ![c].join = "ignored"], c,
                                         "join failed", error # "not-authorised")
    BY <1>5 DEF R!JoinRefused
  <2>3. "ignored" \in Joins /\ "join failed" \in Reasons
    BY DEF Joins, Reasons
  <2>4. Lower(conn', conn)
    <3>1. CASE conn' = [conn EXCEPT ![c].join = "ignored"]
      BY <3>1, <1>a, <2>3, WordsTouchNoSocket
    <3>2. CASE conn' = R!closeConnectionIfOpen([conn EXCEPT ![c].join = "ignored"], c,
                                             "join failed", error # "not-authorised")
      <4>1. (error # "not-authorised") \in BOOLEAN
        OBVIOUS
      <4>2. QED
        BY <3>2, <4>1, <2>3, <1>c
    <3>3. QED
      BY <2>2, <3>1, <3>2
  <2>5. QED
    BY <2>1, <2>4, <1>b, Quieter
<1>6. CASE R!Joined(c)
  <2>1. /\ UNCHANGED <<serverConnection, promise>>
        /\ \/ pending' = pending /\ timer' = timer
           \/ pending' = FALSE /\ timer' = FALSE
    BY <1>6 DEF R!Joined, R!session, R!cancelPendingReconnect
  <2>2. \/ conn' = [conn EXCEPT ![c].join = "in"]
        \/ conn' = R!closeConnectionIfOpen([conn EXCEPT ![c].join = "in"], c,
                                         "probing complete", FALSE)
    BY <1>6 DEF R!Joined
  <2>3. "in" \in Joins /\ "probing complete" \in Reasons
    BY DEF Joins, Reasons
  <2>4. Lower(conn', conn)
    <3>1. CASE conn' = [conn EXCEPT ![c].join = "in"]
      BY <3>1, <1>a, <2>3, WordsTouchNoSocket
    <3>2. CASE conn' = R!closeConnectionIfOpen([conn EXCEPT ![c].join = "in"], c,
                                             "probing complete", FALSE)
      <4>1. (FALSE) \in BOOLEAN
        OBVIOUS
      <4>2. QED
        BY <3>2, <4>1, <2>3, <1>c
    <3>3. QED
      BY <2>2, <3>1, <3>2
  <2>5. QED
    BY <2>1, <2>4, <1>b, Quieter
<1>7. QED
  BY <1>1, <1>2, <1>3, <1>4, <1>5, <1>6

(* The socket of the connection in use closes: either the page goes on     *)
(* with its timer running, or it stops saying that it will.                *)
LEMMA ClosedKeeps ==
  ASSUME SessionInv, NEW c \in R!Conns, R!gotClose(c) PROVE SessionInv'
<1>a. conn \in [R!Conns -> Connection] /\ serverConnection \in R!Conns \cup {R!None}
  BY DEF SessionInv, SessionShape
<1>1. PICK gone \in Connection : gone.ws = "closed" /\ conn' = [conn EXCEPT ![c] = gone]
  <2>1. [R!NoSocket EXCEPT !.join = "fetching"] \in Connection
    BY DEF R!NoSocket, Connection, Sockets, Reasons, Joins
  <2>2. [R!NoSocket EXCEPT !.join = "fetching"].ws = "closed"
    BY DEF R!NoSocket
  <2>3. QED
    BY <2>1, <2>2, NoSocketShape DEF R!gotClose
<1>2. /\ conn' \in [R!Conns -> Connection]
      /\ \A d \in R!Conns : d # c => conn'[d] = conn[d]
      /\ conn'[c].ws = "closed"
  BY <1>a, <1>1
<1>3. \A d \in R!Conns : conn'[d].ws \in R!Up => d # c /\ d = serverConnection
  BY <1>2 DEF SessionInv, R!NoStraySocket, R!Up
<1>4. promise' = promise
  BY DEF R!gotClose
<1>5. CASE c # serverConnection
  <2>1. UNCHANGED <<serverConnection, pending, timer>>
    BY <1>5 DEF R!gotClose, R!session
  <2>2. SessionShape' /\ R!NoStraySocket'
    BY <1>2, <1>3, <1>4, <2>1 DEF SessionInv, SessionShape, R!NoStraySocket
  <2>3. R!PendingHasCause'
    BY <1>2, <1>4, <1>5, <2>1, <1>a DEF SessionInv, R!PendingHasCause
  <2>4. QED
    BY <2>2, <2>3 DEF SessionInv
<1>6. CASE c = serverConnection
  <2>1. \/ pending' = TRUE /\ timer' = TRUE /\ serverConnection' = c
        \/ pending' = FALSE /\ timer' = FALSE /\ serverConnection' = R!None
    <3>1. R!shouldAutoReconnectAfterClose(c) \in BOOLEAN
      BY DEF R!shouldAutoReconnectAfterClose
    <3> HIDE DEF R!shouldAutoReconnectAfterClose
    <3>2. QED
      BY <1>6, <3>1 DEF R!gotClose
  <2>2. SessionShape'
    BY <1>2, <1>4, <2>1 DEF SessionInv, SessionShape
  <2>3. R!NoStraySocket'
    BY <1>3, <1>6 DEF R!NoStraySocket
  <2>4. R!PendingHasCause'
    BY <2>1 DEF R!PendingHasCause
  <2>5. QED
    BY <2>2, <2>3, <2>4 DEF SessionInv
<1>7. QED
  BY <1>5, <1>6

(* The page leaves: nothing of the old connection stays up.                *)
LEMMA DisconnectKeepsSession ==
  ASSUME SessionInv, R!disconnectConferenceNow PROVE SessionInv'
<1>1. /\ serverConnection' = R!None /\ conn' = R!abandon(conn, serverConnection)
      /\ pending' = FALSE /\ timer' = FALSE /\ promise' = promise
  BY DEF R!disconnectConferenceNow, R!cancelPendingReconnect
<1>2. /\ conn' \in [R!Conns -> Connection]
      /\ \A d \in R!Conns : conn'[d].ws \in R!Up => d # serverConnection /\ conn[d].ws \in R!Up
  BY <1>1, AbandonDoes DEF SessionInv, SessionShape
<1>3. SessionShape'
  BY <1>1, <1>2 DEF SessionInv, SessionShape
<1>4. R!NoStraySocket'
  BY <1>2 DEF SessionInv, R!NoStraySocket
<1>5. R!PendingHasCause'
  BY <1>1 DEF R!PendingHasCause
<1>6. QED
  BY <1>3, <1>4, <1>5 DEF SessionInv

(* The form and the camera touch no socket, a stall takes one down.        *)
LEMMA FormKeeps ==
  ASSUME SessionInv,
         \/ R!loginform \/ R!MediaStall \/ UNCHANGED sessionVars
         \/ \E granted \in BOOLEAN : R!LocalMediaAdded(granted)
  PROVE  SessionInv'
<1>a. conn \in [R!Conns -> Connection] /\ serverConnection \in R!Conns \cup {R!None}
  BY DEF SessionInv, SessionShape
<1>b. Lower(conn, conn)
  BY <1>a DEF Lower
<1>1. CASE R!loginform
  <2>1. /\ conn' = conn /\ serverConnection' = serverConnection
        /\ pending' = FALSE /\ timer' = FALSE /\ promise' = TRUE
    BY <1>1 DEF R!loginform, R!cancelPendingReconnect
  <2>2. QED
    BY <1>b, <2>1, Quieter
<1>2. CASE R!MediaStall
  <2>1. /\ conn' = R!closeConnectionIfOpen(conn, serverConnection, "media stall", TRUE)
        /\ serverConnection # R!None
        /\ UNCHANGED <<serverConnection, pending, timer, promise>>
    BY <1>2 DEF R!MediaStall, R!session
  <2>2. "media stall" \in Reasons
    BY DEF Reasons
  <2>3. Lower(conn', conn)
    BY <1>a, <2>1, <2>2, SocketClosesIfOpen
  <2>4. QED
    BY <2>1, <2>3, Quieter
<1>3. CASE UNCHANGED sessionVars \/ \E granted \in BOOLEAN : R!LocalMediaAdded(granted)
  <2>1. UNCHANGED <<conn, serverConnection, pending, timer, promise>>
    BY <1>3 DEF sessionVars, R!LocalMediaAdded, R!session
  <2>2. QED
    BY <1>b, <2>1, Quieter
<1>4. QED
  BY <1>1, <1>2, <1>3

LEMMA SessionKeeps == SessionInv /\ [R!Next]_sessionVars => SessionInv'
<1> SUFFICES ASSUME SessionInv, [R!Next]_sessionVars PROVE SessionInv'
  OBVIOUS
<1>1. CASE R!ReconnectTimer
  BY <1>1, TimerKeepsSession
<1>2. ASSUME NEW c \in R!Conns, R!serverConnect(c) PROVE SessionInv'
  BY <1>2, ServerConnectKeepsSession
<1>3. ASSUME NEW c \in R!Conns,
             \/ R!SocketOpen(c) \/ R!gotConnected(c) \/ R!PingTimeout(c)
             \/ \E answered \in BOOLEAN : R!join(c, answered)
             \/ \E error \in {"not-authorised", "need-username", "other"} : R!JoinRefused(c, error)
             \/ R!Joined(c)
      PROVE  SessionInv'
  BY <1>3, ConnectionKeepsSession
<1>4. ASSUME NEW c \in R!Conns, R!gotClose(c) PROVE SessionInv'
  BY <1>4, ClosedKeeps
<1>5. CASE R!Disconnect \/ \E c \in R!Conns : R!Kicked(c)
  BY <1>5, DisconnectKeepsSession DEF R!Disconnect, R!Kicked
<1>6. CASE \/ R!loginform \/ R!MediaStall \/ UNCHANGED sessionVars
           \/ \E granted \in BOOLEAN : R!LocalMediaAdded(granted)
  BY <1>6, FormKeeps
<1>7. QED
  BY <1>1, <1>2, <1>3, <1>4, <1>5, <1>6 DEF R!Next, R!Progress

LEMMA SessionSteps == [Next]_vars => [R!Next]_sessionVars
<1> SUFFICES ASSUME [Next]_vars PROVE [R!Next]_sessionVars
  OBVIOUS
<1>1. CASE UNCHANGED vars
  BY <1>1 DEF vars
<1>2. CASE Next /\ part # "session"
  BY <1>2 DEF Next, Others
<1>3. CASE Next /\ part = "session"
  BY <1>3 DEF Next, Runs
<1>4. QED
  BY <1>1, <1>2, <1>3

(* In every part, for any number of connections and attempts: each open    *)
(* socket is that of the connection in use, and a page that says it is     *)
(* reconnecting has something under way (the handlers of ServerConnection  *)
(* that compare it with the global serverConnection).                      *)
THEOREM SessionsAreOurs == Spec => []Session_NoStray
<1>1. Init => SessionInv
  BY SessionStarts DEF Init
<1>2. SessionInv /\ [Next]_vars => SessionInv'
  BY SessionSteps, SessionKeeps
<1>3. SessionInv => Session_NoStray
  BY DEF SessionInv, Session_NoStray
<1>4. QED
  BY <1>1, <1>2, <1>3, PTL DEF Spec

-----------------------------------------------------------------------------
(* The camera: the chain of operations.  The first may have begun, the     *)
(* others wait; a filter that an operation waits for is that of the first, *)
(* and an operation knows its stream only while it waits for the filter.   *)

Operation == [token : Nat, localId : Nat, had : BOOLEAN,
              at : {"none", "queued", "asking", "filter"},
              replaceId : Nat, stream : Nat]

UpStream == [up : BOOLEAN, sc : Nat, localId : Nat, media : Nat, filter : BOOLEAN,
             localDescriptionSent : BOOLEAN, replace : Nat]

Lined(ch) ==
    /\ ch \in Seq(Operation)
    /\ \A k \in 1..Len(ch) :
         /\ k # 1 => ch[k].at = "queued"
         /\ ch[k].at # "filter" => ch[k].stream = 0

Awaited(st, ch) ==
    /\ st \subseteq Nat \X {"operation", "replace", "button"}
    /\ \A s \in st : s[2] = "operation" =>
         ch # <<>> /\ ch[1].at = "filter" /\ ch[1].stream = s[1]

CameraTyped ==
    /\ version \in Nat /\ sc \in Nat /\ conns \in Nat /\ ids \in Nat /\ opened \in Nat
    /\ button \in Nat
    /\ strm \in [C!Ids -> UpStream]

CameraInv == CameraTyped /\ Lined(chain) /\ Awaited(starts, chain)

LEMMA LinedTail ==
  ASSUME NEW ch, Lined(ch), ch # <<>>
  PROVE  /\ ch[1] \in Operation /\ Head(ch) = ch[1] /\ Len(ch) \in Nat \ {0}
         /\ Lined(Tail(ch)) /\ Len(Tail(ch)) = Len(ch) - 1
         /\ \A st : Awaited(st, ch) /\ (\A s \in st : s[2] # "operation")
                      => Awaited(st, Tail(ch))
<1>1. ch \in Seq(Operation) /\ Len(ch) \in Nat /\ Len(ch) # 0
  BY EmptySeq, LenProperties DEF Lined
<1>2. /\ Head(ch) = ch[1] /\ ch[1] \in Operation
      /\ Tail(ch) \in Seq(Operation) /\ Len(Tail(ch)) = Len(ch) - 1
      /\ \A k \in 1..Len(Tail(ch)) : Tail(ch)[k] = ch[k + 1]
  BY <1>1, HeadTailProperties, ElementOfSeq
<1>3. Lined(Tail(ch))
  <2> SUFFICES ASSUME NEW k \in 1..Len(Tail(ch))
               PROVE  /\ k # 1 => Tail(ch)[k].at = "queued"
                      /\ Tail(ch)[k].at # "filter" => Tail(ch)[k].stream = 0
    BY <1>2 DEF Lined
  <2>1. k + 1 \in 1..Len(ch) /\ k + 1 # 1 /\ Tail(ch)[k] = ch[k + 1]
    BY <1>1, <1>2
  <2>2. QED
    BY <2>1 DEF Lined
<1>4. \A st : Awaited(st, ch) /\ (\A s \in st : s[2] # "operation")
                => Awaited(st, Tail(ch))
  BY DEF Awaited
<1>5. QED
  BY <1>1, <1>2, <1>3, <1>4

LEMMA LinedHead ==
  ASSUME NEW ch, Lined(ch), ch # <<>>, NEW o \in Operation,
         o.at # "filter" => o.stream = 0
  PROVE  /\ Lined(<<o>> \o Tail(ch)) /\ (<<o>> \o Tail(ch))[1] = o
         /\ Len(<<o>> \o Tail(ch)) = Len(ch) /\ <<o>> \o Tail(ch) # <<>>
<1> DEFINE new == <<o>> \o Tail(ch)
<1>1. /\ ch \in Seq(Operation) /\ Len(ch) \in Nat \ {0}
      /\ Tail(ch) \in Seq(Operation) /\ Len(Tail(ch)) = Len(ch) - 1 /\ Lined(Tail(ch))
  BY LinedTail DEF Lined
<1>2. /\ \A k \in 1..Len(Tail(ch)) : Tail(ch)[k] = ch[k + 1]
      /\ <<o>> \in Seq(Operation) /\ Len(<<o>>) = 1 /\ <<o>>[1] = o
  BY <1>1, HeadTailProperties
<1>3. /\ new \in Seq(Operation) /\ Len(new) = Len(ch)
      /\ \A k \in 1..Len(ch) : new[k] = IF k <= 1 THEN <<o>>[k] ELSE Tail(ch)[k - 1]
  BY <1>1, <1>2, ConcatProperties
<1> HIDE DEF new
<1>4. new[1] = o /\ new # <<>>
  BY <1>1, <1>2, <1>3, EmptySeq
<1>5. ASSUME NEW k \in 1..Len(new), k # 1 PROVE new[k] = ch[k]
  BY <1>1, <1>2, <1>3, <1>5
<1>6. Lined(new)
  BY <1>3, <1>4, <1>5 DEF Lined
<1>7. QED
  BY <1>3, <1>4, <1>6 DEF new

LEMMA LinedAppend ==
  ASSUME NEW ch, Lined(ch), NEW o \in Operation, o.at = "queued", o.stream = 0
  PROVE  /\ Lined(Append(ch, o)) /\ Len(Append(ch, o)) = Len(ch) + 1
         /\ \A st : Awaited(st, ch) => Awaited(st, Append(ch, o))
<1>1. /\ ch \in Seq(Operation) /\ Len(ch) \in Nat
      /\ Append(ch, o) \in Seq(Operation) /\ Len(Append(ch, o)) = Len(ch) + 1
      /\ \A k \in 1..Len(ch) : Append(ch, o)[k] = ch[k]
      /\ Append(ch, o)[Len(ch) + 1] = o
  BY AppendProperties, LenProperties DEF Lined
<1>2. Lined(Append(ch, o))
  BY <1>1 DEF Lined
<1>3. ASSUME NEW st, Awaited(st, ch) PROVE Awaited(st, Append(ch, o))
  <2>1. CASE ch = <<>>
    BY <1>3, <2>1 DEF Awaited
  <2>2. CASE ch # <<>>
    <3>1. Append(ch, o) # <<>> /\ Append(ch, o)[1] = ch[1]
      BY <1>1, <2>2, EmptySeq
    <3>2. QED
      BY <1>3, <3>1 DEF Awaited
  <2>3. QED
    BY <2>1, <2>2
<1>4. QED
  BY <1>1, <1>2, <1>3

LEMMA ClosedTyped ==
  ASSUME NEW streams \in [C!Ids -> UpStream], NEW these
  PROVE  C!Closed(streams, these) \in [C!Ids -> UpStream]
BY DEF C!Closed, UpStream

(* What newUpStream does to the types, and to the streams.                 *)
LEMMA NewTyped ==
  ASSUME CameraTyped, NEW localId \in Nat, NEW replaceId \in Nat, NEW n \in Nat,
         C!newUpStream(localId, replaceId, n)
  PROVE  ids' = ids + 1 /\ ids' \in Nat /\ strm' \in [C!Ids -> UpStream]
<1> DEFINE old == C!findByLocalId(localId)
           rep == C!Replaces(old, replaceId)
           id == IF localId = C!None THEN ids + 1 ELSE localId
           new == [C!NoStream EXCEPT !.up = TRUE, !.sc = sc, !.media = n,
                     !.localId = id, !.replace = rep]
<1>1. old \subseteq C!Ids /\ C!Ids \subseteq Nat
  BY DEF C!findByLocalId, C!UpOf, C!Up, C!Ids
<1>2. rep \in Nat
  BY <1>1 DEF C!Replaces
<1>3. new \in UpStream
  <2>a. id \in Nat /\ sc \in Nat
    BY DEF CameraTyped
  <2> HIDE DEF id, rep
  <2>1. C!NoStream \in UpStream
    BY DEF C!NoStream, C!None, UpStream
  <2>2. QED
    BY <1>2, <2>a, <2>1 DEF UpStream
<1>4. ids' = ids + 1 /\ strm' = [C!Closed(strm, old) EXCEPT ![ids + 1] = new]
  BY DEF C!newUpStream
<1> HIDE DEF new
<1>5. C!Closed(strm, old) \in [C!Ids -> UpStream]
  BY ClosedTyped DEF CameraTyped
<1> DEFINE rest == C!Closed(strm, old)
<1> HIDE DEF rest
<1>6. rest \in [C!Ids -> UpStream] /\ strm' = [rest EXCEPT ![ids + 1] = new]
  BY <1>4, <1>5 DEF rest
<1>7. strm' \in [C!Ids -> UpStream]
  BY <1>3, <1>6
<1>8. QED
  BY <1>4, <1>7 DEF CameraTyped

(* addLocalMedia makes the chain longer.                                   *)
LEMMA AddKeeps ==
  ASSUME CameraInv, NEW localId \in Nat, C!addLocalMedia(localId)
  PROVE  CameraInv' /\ Len(chain') = Len(chain) + 1
<1> DEFINE had == desired \/ C!UpOf(sc) # {}
           o == [C!Idle EXCEPT !.token = version + 1, !.at = "queued",
                   !.localId = localId, !.had = had]
<1>1. /\ chain' = Append(chain, o) /\ version' = version + 1 /\ starts' = starts
      /\ UNCHANGED <<sc, conns, ids, opened, button, strm>>
  BY DEF C!addLocalMedia, C!page
<1>2. o \in Operation /\ o.at = "queued" /\ o.stream = 0
  <2>a. had \in BOOLEAN
    OBVIOUS
  <2> HIDE DEF had
  <2>1. C!Idle \in Operation /\ C!Idle.stream = 0
    BY DEF C!Idle, C!None, Operation
  <2>3. version + 1 \in Nat
    BY DEF CameraInv, CameraTyped
  <2>4. QED
    BY <2>a, <2>1, <2>3 DEF Operation
<1> HIDE DEF o
<1>3. Lined(chain') /\ Len(chain') = Len(chain) + 1 /\ Awaited(starts, chain')
  BY <1>1, <1>2, LinedAppend DEF CameraInv
<1>4. CameraTyped'
  BY <1>1 DEF CameraInv, CameraTyped
<1>5. QED
  BY <1>1, <1>3, <1>4 DEF CameraInv

(* What leaves the chain, the filters that start and the types alone.      *)
LEMMA StaysInv ==
  ASSUME CameraInv, chain' = chain, CameraTyped',
         starts' \subseteq Nat \X {"operation", "replace", "button"},
         \A s \in starts' : s \in starts \/ s[2] # "operation"
  PROVE  CameraInv' /\ Len(chain') = Len(chain)
BY DEF CameraInv, Awaited

(* One that is done leaves the chain, its filter with it.                  *)
LEMMA DoneInv ==
  ASSUME CameraInv, chain # <<>>, C!Done, CameraTyped', starts' \subseteq starts,
         \A s \in starts' : s[2] # "operation"
  PROVE  CameraInv'
<1>1. Awaited(starts', chain)
  BY DEF CameraInv, Awaited
<1>2. QED
  BY <1>1, LinedTail DEF CameraInv, C!Done

(* The first one goes on.                                                  *)
LEMMA NextInv ==
  ASSUME CameraInv, chain # <<>>, NEW o \in Operation, o.at # "filter" => o.stream = 0,
         chain' = <<o>> \o Tail(chain), CameraTyped',
         starts' \subseteq Nat \X {"operation", "replace", "button"},
         \A s \in starts' : s[2] = "operation" => o.at = "filter" /\ o.stream = s[1]
  PROVE  CameraInv' /\ Len(chain') = Len(chain)
<1>1. Lined(chain') /\ chain'[1] = o /\ Len(chain') = Len(chain) /\ chain' # <<>>
  BY LinedHead DEF CameraInv
<1>2. Awaited(starts', chain')
  BY <1>1 DEF Awaited
<1>3. QED
  BY <1>1, <1>2 DEF CameraInv

(* OvertakenIsSilent, of one step.                                         *)
Silent ==
    (chain # <<>> /\ Head(chain).at # "queued" /\ Head(chain).token # version
        /\ Len(chain') < Len(chain))
      => C!Up' \subseteq C!Up \ {Head(chain).stream}

LEMMA BeginKeeps == CameraInv /\ C!Begin => CameraInv' /\ Silent
<1> SUFFICES ASSUME CameraInv, C!Begin PROVE CameraInv' /\ Silent
  OBVIOUS
<1> DEFINE o == Head(chain)
           old == IF sc = C!None THEN {} ELSE C!findByLocalId(o.localId)
           rep == IF old = {} THEN C!None ELSE CHOOSE i \in old : TRUE
           new == [o EXCEPT !.at = "asking", !.replaceId = rep]
<1>1. /\ chain # <<>> /\ o.at = "queued"
      /\ strm' = C!Closed(strm, old)
      /\ UNCHANGED <<sc, conns, ids, opened, starts, version, button>>
      /\ C!Done \/ chain' = <<new>> \o Tail(chain)
  BY DEF C!Begin, C!page
<1>2. o \in Operation /\ o = chain[1] /\ o.stream = 0
  <2> HIDE DEF rep, old
  <2>1. Lined(chain)
    BY DEF CameraInv
  <2>2. o \in Operation /\ o = chain[1] /\ Len(chain) \in Nat \ {0}
    BY <1>1, <2>1, LinedTail
  <2>3. 1 \in 1..Len(chain)
    BY <2>2
  <2>4. QED
    BY <1>1, <2>1, <2>2, <2>3 DEF Lined
<1>3. CameraTyped'
  BY <1>1, ClosedTyped DEF CameraInv, CameraTyped
<1>4. \A s \in starts : s[2] # "operation"
  BY <1>1, <1>2 DEF CameraInv, Awaited
<1>5. CASE C!Done
  BY <1>1, <1>3, <1>4, <1>5, DoneInv DEF Silent
<1>6. CASE chain' = <<new>> \o Tail(chain)
  <2>1. rep \in Nat
    BY DEF C!None, C!findByLocalId, C!UpOf, C!Up, C!Ids
  <2> HIDE DEF rep
  <2>2. new \in Operation /\ new.at = "asking" /\ new.stream = 0
    BY <1>2, <2>1 DEF Operation
  <2> HIDE DEF new
  <2>3. starts' \subseteq Nat \X {"operation", "replace", "button"}
    BY <1>1 DEF CameraInv, Awaited
  <2>4. CameraInv'
    BY <1>1, <1>3, <1>4, <1>6, <2>2, <2>3, NextInv
  <2>5. QED
    BY <1>1, <2>4 DEF Silent
<1>7. QED
  BY <1>1, <1>5, <1>6

(* An operation that asks has no stream yet.                               *)
LEMMA AskingFacts ==
  ASSUME CameraInv, chain # <<>>, Head(chain).at = "asking"
  PROVE  /\ Head(chain) \in Operation /\ Head(chain).stream \notin C!Up
         /\ \A s \in starts : s[2] # "operation"
<1>1. Head(chain) \in Operation /\ Head(chain) = chain[1] /\ 1 \in 1..Len(chain)
  BY LinedTail DEF CameraInv
<1>2. Head(chain).stream = 0
  BY <1>1 DEF CameraInv, Lined
<1>3. QED
  BY <1>1, <1>2 DEF CameraInv, Awaited, C!Up, C!Ids

LEMMA NotOpenedKeeps == CameraInv /\ (C!Refused \/ C!TooLate) => CameraInv' /\ Silent
<1> SUFFICES ASSUME CameraInv, C!Refused \/ C!TooLate PROVE CameraInv' /\ Silent
  OBVIOUS
<1>1. /\ chain # <<>> /\ Head(chain).at = "asking" /\ C!Done
      /\ UNCHANGED <<sc, conns, ids, opened, starts, version, button, strm>>
  BY DEF C!Refused, C!TooLate, C!page
<1>2. CameraTyped'
  BY <1>1 DEF CameraInv, CameraTyped
<1>3. CameraInv'
  BY <1>1, <1>2, AskingFacts, DoneInv
<1>4. C!Up' = C!Up
  BY <1>1 DEF C!Up, C!Ids
<1>5. QED
  BY <1>1, <1>3, <1>4, AskingFacts DEF Silent

LEMMA OpenedKeeps ==
  ASSUME CameraInv, NEW filtered \in BOOLEAN, C!MediaOpened(filtered)
  PROVE  CameraInv' /\ Silent
<1> DEFINE o == Head(chain)
           new == [o EXCEPT !.at = "filter", !.stream = ids + 1]
<1>1. /\ chain # <<>> /\ o.at = "asking" /\ o.token = version
      /\ C!newUpStream(o.localId, o.replaceId, opened + 1)
      /\ opened' = opened + 1
      /\ UNCHANGED <<sc, conns, version, button>>
      /\ \/ chain' = <<new>> \o Tail(chain) /\ starts' = starts \cup {<<ids + 1, "operation">>}
         \/ C!Done /\ starts' = starts
  BY DEF C!MediaOpened, C!Current, C!page
<1>2. o \in Operation /\ \A s \in starts : s[2] # "operation"
  BY <1>1, AskingFacts
<1>3. CameraTyped'
  <2>1. o.localId \in Nat /\ o.replaceId \in Nat /\ opened + 1 \in Nat /\ CameraTyped
    BY <1>2 DEF Operation, CameraInv, CameraTyped
  <2> HIDE DEF o
  <2>2. ids' \in Nat /\ strm' \in [C!Ids -> UpStream]
    BY <1>1, <2>1, NewTyped
  <2>3. QED
    BY <1>1, <2>1, <2>2 DEF CameraTyped
<1>4. CASE C!Done /\ starts' = starts
  BY <1>1, <1>2, <1>3, <1>4, DoneInv DEF Silent
<1>5. CASE chain' = <<new>> \o Tail(chain) /\ starts' = starts \cup {<<ids + 1, "operation">>}
  <2>1. ids + 1 \in Nat
    BY DEF CameraInv, CameraTyped
  <2>2. new \in Operation /\ new.at = "filter" /\ new.stream = ids + 1
    BY <1>2, <2>1 DEF Operation
  <2> HIDE DEF new
  <2>3. starts' \subseteq Nat \X {"operation", "replace", "button"}
    BY <1>5, <2>1 DEF CameraInv, Awaited
  <2>4. \A s \in starts' : s[2] = "operation" => new.at = "filter" /\ new.stream = s[1]
    BY <1>2, <1>5, <2>2
  <2>5. QED
    BY <1>1, <1>3, <1>5, <2>2, <2>3, <2>4, NextInv DEF Silent
<1>6. QED
  BY <1>1, <1>4, <1>5

(* The filter of an operation that was overtaken closes its stream.        *)
LEMMA FilterKeeps ==
  ASSUME CameraInv, NEW s \in starts, NEW ok \in BOOLEAN, C!FilterStarted(s[1], s[2], ok)
  PROVE  CameraInv' /\ Silent
<1> DEFINE i == s[1]
           who == s[2]
<1>1. /\ <<i, who>> \in starts /\ starts' = starts \ {<<i, who>>}
      /\ UNCHANGED <<sc, conns, ids, opened, version>>
      /\ button' = button \/ button' = C!None
      /\ IF who = "operation" THEN C!Done ELSE chain' = chain
  BY DEF C!FilterStarted, C!page
<1>2. /\ \/ \E on \in BOOLEAN : strm' = [strm EXCEPT ![i].filter = on]
         \/ strm' = C!Closed(strm, {i} \cap C!Up)
      /\ who = "operation" /\ C!Stale(i, who)
           => strm' = C!Closed(strm, {i} \cap C!Up)
  <2> DEFINE works == ok /\ strm[i].up
             on == strm[i].filter \/ works
  <2>1. on \in BOOLEAN
    OBVIOUS
  <2>2. IF (works /\ ~C!Stale(i, who)) \/ who = "button"
        THEN strm' = [strm EXCEPT ![i].filter = on]
        ELSE strm' = C!Closed(strm, {i} \cap C!Up)
    BY DEF C!FilterStarted, C!close
  <2> HIDE DEF on, works
  <2>3. QED
    BY <2>1, <2>2
<1>3. CameraTyped'
  <2>1. button' \in Nat
    BY <1>1 DEF C!None, CameraInv, CameraTyped
  <2>2. strm' \in [C!Ids -> UpStream]
    <3>1. strm \in [C!Ids -> UpStream]
      BY DEF CameraInv, CameraTyped
    <3>2. ASSUME NEW on \in BOOLEAN
          PROVE  [strm EXCEPT ![i].filter = on] \in [C!Ids -> UpStream]
      BY <3>1 DEF UpStream
    <3>3. QED
      <4>1. CASE strm' = C!Closed(strm, {i} \cap C!Up)
        BY <3>1, <4>1, ClosedTyped
      <4>2. CASE \E on \in BOOLEAN : strm' = [strm EXCEPT ![i].filter = on]
        BY <3>2, <4>2
      <4>3. QED
        BY <1>2, <4>1, <4>2
  <2>3. QED
    BY <1>1, <2>1, <2>2 DEF CameraInv, CameraTyped
<1>4. CASE who # "operation"
  <2>1. starts' \subseteq Nat \X {"operation", "replace", "button"}
    BY <1>1 DEF CameraInv, Awaited
  <2>2. CameraInv' /\ chain' = chain
    BY <1>1, <1>3, <1>4, <2>1, StaysInv
  <2>3. QED
    BY <2>2, LinedTail DEF Silent, CameraInv
<1>5. CASE who = "operation"
  <2>1. chain # <<>> /\ chain[1].at = "filter" /\ chain[1].stream = i
    BY <1>1, <1>5 DEF CameraInv, Awaited
  <2>2. Head(chain) = chain[1]
    BY <2>1, LinedTail DEF CameraInv
  <2>3. \A t \in starts' : t[2] # "operation"
    <3> SUFFICES ASSUME NEW t \in starts', t[2] = "operation" PROVE FALSE
      OBVIOUS
    <3>1. t \in starts /\ t[1] = i /\ starts \subseteq Nat \X {"operation", "replace", "button"}
      BY <1>1, <2>1 DEF CameraInv, Awaited
    <3>2. t = <<i, who>>
      BY <1>5, <3>1
    <3>3. QED
      BY <1>1, <3>2
  <2>4. CameraInv'
    BY <1>1, <1>3, <1>5, <2>1, <2>3, DoneInv
  <2>5. Silent
    <3> SUFFICES ASSUME Head(chain).token # version
                 PROVE  C!Up' \subseteq C!Up \ {i}
      BY <2>1, <2>2 DEF Silent
    <3>1. strm' = C!Closed(strm, {i} \cap C!Up)
      BY <1>2, <1>5 DEF C!Stale, C!Current
    <3>2. QED
      BY <3>1 DEF C!Closed, C!Up, C!Ids, CameraInv, CameraTyped, UpStream
  <2>6. QED
    BY <2>4, <2>5
<1>6. QED
  BY <1>4, <1>5

(* The other steps make the chain no shorter.                              *)
LEMMA ReplaceKeeps ==
  ASSUME CameraInv, NEW i \in C!Ids, NEW filtered \in BOOLEAN,
         C!replaceUpStream(i, filtered)
  PROVE  CameraInv' /\ Len(chain') = Len(chain)
<1>1. /\ C!newUpStream(strm[i].localId, C!None, strm[i].media)
      /\ UNCHANGED <<sc, conns, opened, chain, version, button>>
      /\ starts' = starts \/ starts' = starts \cup {<<ids + 1, "replace">>}
  BY DEF C!replaceUpStream, C!page
<1>2. /\ strm[i].localId \in Nat /\ strm[i].media \in Nat /\ C!None \in Nat
      /\ ids + 1 \in Nat /\ CameraTyped
  BY DEF CameraInv, CameraTyped, UpStream, C!None
<1>3. ids' \in Nat /\ strm' \in [C!Ids -> UpStream]
  BY <1>1, <1>2, NewTyped
<1>4. CameraTyped'
  BY <1>1, <1>2, <1>3 DEF CameraTyped
<1>5. /\ starts' \subseteq Nat \X {"operation", "replace", "button"}
      /\ \A s \in starts' : s \in starts \/ s[2] # "operation"
  BY <1>1, <1>2 DEF CameraInv, Awaited
<1>6. QED
  BY <1>1, <1>4, <1>5, StaysInv

LEMMA ButtonKeeps ==
  ASSUME CameraInv,
         \/ \E g, h \in BOOLEAN : C!TrackOpened(g, h)
         \/ \E i \in C!Ids : C!stopCameraTrackInSession(i) \/ C!startCameraTrackInSession(i)
  PROVE  CameraInv' /\ Len(chain') = Len(chain)
<1>a. button \in Nat /\ strm \in [C!Ids -> UpStream] /\ C!None \in Nat
  BY DEF CameraInv, CameraTyped, C!None
<1>1. CASE \E g, h \in BOOLEAN : C!TrackOpened(g, h)
  <2>1. /\ UNCHANGED <<sc, conns, strm, ids, opened, chain, version>>
        /\ button' = button \/ button' = C!None
        /\ starts' = starts \/ starts' = starts \cup {<<button, "button">>}
    BY <1>1 DEF C!TrackOpened, C!page
  <2>2. /\ starts' \subseteq Nat \X {"operation", "replace", "button"}
        /\ \A s \in starts' : s \in starts \/ s[2] # "operation"
    BY <1>a, <2>1 DEF CameraInv, Awaited
  <2>3. CameraTyped'
    BY <1>a, <2>1 DEF CameraInv, CameraTyped
  <2>4. QED
    BY <2>1, <2>2, <2>3, StaysInv
<1>2. ASSUME NEW i \in C!Ids,
             C!stopCameraTrackInSession(i) \/ C!startCameraTrackInSession(i)
      PROVE  CameraInv' /\ Len(chain') = Len(chain)
  <2>1. /\ UNCHANGED <<sc, conns, ids, opened, chain, version, starts>>
        /\ button' = button \/ button' = i
        /\ strm' = strm \/ strm' = [strm EXCEPT ![i].filter = FALSE]
    BY <1>2 DEF C!stopCameraTrackInSession, C!startCameraTrackInSession, C!page
  <2>a. i \in Nat
    BY DEF C!Ids
  <2>2. [strm EXCEPT ![i].filter = FALSE] \in [C!Ids -> UpStream]
    BY <1>a DEF UpStream
  <2>3. CameraTyped'
    BY <1>a, <2>1, <2>a, <2>2 DEF CameraInv, CameraTyped
  <2>4. QED
    BY <2>1, <2>3, StaysInv DEF CameraInv, Awaited
<1>3. QED
  BY <1>1, <1>2

LEMMA WireKeeps ==
  ASSUME CameraInv,
         \/ \E i \in C!Ids : C!negotiate(i) \/ C!gotAbort(i)
         \/ C!serverConnect \/ C!disconnectConferenceNow
         \/ \E keep \in BOOLEAN : C!gotClose(keep)
  PROVE  CameraInv' /\ Len(chain') = Len(chain)
<1>a. /\ strm \in [C!Ids -> UpStream] /\ sc \in Nat /\ conns + 1 \in Nat
      /\ version + 1 \in Nat /\ C!None \in Nat
  BY DEF CameraInv, CameraTyped, C!None
<1>1. UNCHANGED <<ids, opened, chain, starts, button>>
  BY DEF C!negotiate, C!gotAbort, C!serverConnect, C!disconnectConferenceNow,
         C!gotClose, C!ConnectionEnds, C!page
<1>2. /\ sc' \in Nat /\ conns' \in Nat /\ version' \in Nat
      /\ strm' \in [C!Ids -> UpStream]
  <2>1. ASSUME NEW i \in C!Ids, C!negotiate(i)
        PROVE  /\ UNCHANGED <<sc, conns, version>>
               /\ strm' = [strm EXCEPT ![i].localDescriptionSent = TRUE, ![i].replace = C!None]
    BY <2>1 DEF C!negotiate, C!page
  <2>2. ASSUME NEW i \in C!Ids
        PROVE  [strm EXCEPT ![i].localDescriptionSent = TRUE, ![i].replace = C!None]
                 \in [C!Ids -> UpStream]
    BY <1>a DEF UpStream
  <2>3. ASSUME NEW i \in C!Ids, C!gotAbort(i)
        PROVE  UNCHANGED <<sc, conns, version>> /\ strm' = C!Closed(strm, {i})
    BY <2>3 DEF C!gotAbort, C!close, C!page
  <2>4. ASSUME C!serverConnect
        PROVE  /\ UNCHANGED <<strm, version>>
               /\ conns' = conns + 1 /\ sc' = conns + 1
    BY <2>4 DEF C!serverConnect
  <2>5. ASSUME C!disconnectConferenceNow \/ \E keep \in BOOLEAN : C!gotClose(keep)
        PROVE  /\ version' = version + 1 /\ conns' = conns
               /\ sc' = sc \/ sc' = C!None
               /\ strm' = C!Closed(strm, C!UpOf(sc))
    BY <2>5 DEF C!disconnectConferenceNow, C!gotClose, C!ConnectionEnds
  <2>6. conns \in Nat /\ version \in Nat
    BY DEF CameraInv, CameraTyped
  <2>7. CASE \E i \in C!Ids : C!negotiate(i)
    BY <1>a, <2>1, <2>2, <2>6, <2>7
  <2>8. CASE \E i \in C!Ids : C!gotAbort(i)
    BY <1>a, <2>3, <2>6, <2>8, ClosedTyped
  <2>9. CASE C!serverConnect
    BY <1>a, <2>4, <2>6, <2>9
  <2>10. CASE C!disconnectConferenceNow \/ \E keep \in BOOLEAN : C!gotClose(keep)
    BY <1>a, <2>5, <2>6, <2>10, ClosedTyped
  <2>11. QED
    BY <2>7, <2>8, <2>9, <2>10
<1>3. CameraTyped'
  BY <1>1, <1>2 DEF CameraInv, CameraTyped
<1>4. QED
  BY <1>1, <1>3, StaysInv DEF CameraInv, Awaited

LEMMA CameraStarts == C!Init => CameraInv
<1> SUFFICES ASSUME C!Init PROVE CameraInv
  OBVIOUS
<1> USE DEF C!Init
<1>1. C!NoStream \in UpStream
  BY DEF C!NoStream, C!None, UpStream
<1>2. CameraTyped
  BY <1>1 DEF CameraTyped, C!None
<1>3. Lined(chain)
  BY EmptySeq DEF Lined
<1>4. QED
  BY <1>2, <1>3 DEF CameraInv, Awaited

LEMMA CameraKeeps == CameraInv /\ C!Next => CameraInv' /\ Silent
<1> SUFFICES ASSUME CameraInv, C!Next PROVE CameraInv' /\ Silent
  OBVIOUS
<1>1. CASE C!Begin \/ C!Refused \/ C!TooLate
  BY <1>1, BeginKeeps, NotOpenedKeeps
<1>2. CASE \E h \in BOOLEAN : C!MediaOpened(h)
  BY <1>2, OpenedKeeps
<1>3. CASE \E s \in starts, ok \in BOOLEAN : C!FilterStarted(s[1], s[2], ok)
  BY <1>3, FilterKeeps
<1>4. ASSUME CameraInv', Len(chain') = Len(chain) \/ Len(chain') = Len(chain) + 1
      PROVE  CameraInv' /\ Silent
  <2>1. Len(chain) \in Nat
    BY LenProperties DEF CameraInv, Lined
  <2>2. QED
    BY <1>4, <2>1 DEF Silent
<1>5. CASE C!gotJoined \/ \E i \in C!Ids : C!replaceCameraStream(i)
  <2>1. C!None \in Nat /\ \A i \in C!Ids : strm[i].localId \in Nat
    BY DEF CameraInv, CameraTyped, UpStream, C!None
  <2>2. QED
    BY <1>4, <1>5, <2>1, AddKeeps DEF C!gotJoined, C!replaceCameraStream
<1>6. CASE \E i \in C!Ids, h \in BOOLEAN : C!replaceUpStream(i, h)
  BY <1>4, <1>6, ReplaceKeeps
<1>7. CASE \/ \E g, h \in BOOLEAN : C!TrackOpened(g, h)
           \/ \E i \in C!Ids : C!stopCameraTrackInSession(i) \/ C!startCameraTrackInSession(i)
  BY <1>4, <1>7, ButtonKeeps
<1>8. CASE \/ \E i \in C!Ids : C!negotiate(i) \/ C!gotAbort(i)
           \/ C!serverConnect \/ C!disconnectConferenceNow
           \/ \E keep \in BOOLEAN : C!gotClose(keep)
  BY <1>4, <1>8, WireKeeps
<1>9. QED
  BY <1>1, <1>2, <1>3, <1>5, <1>6, <1>7, <1>8 DEF C!Next, C!Progress

LEMMA CameraStill == CameraInv /\ UNCHANGED cameraVars => CameraInv'
BY DEF cameraVars, CameraInv, CameraTyped, Lined, Awaited

LEMMA CameraSteps == [Next]_vars => C!Next \/ UNCHANGED cameraVars
<1> SUFFICES ASSUME [Next]_vars PROVE C!Next \/ UNCHANGED cameraVars
  OBVIOUS
<1>1. CASE UNCHANGED vars
  BY <1>1 DEF vars
<1>2. CASE Next /\ part # "camera"
  BY <1>2 DEF Next, Others
<1>3. CASE Next /\ part = "camera"
  BY <1>3 DEF Next, Runs
<1>4. QED
  BY <1>1, <1>2, <1>3

(* For any number of streams, captures, operations and connections: an     *)
(* operation on the camera that has begun and been overtaken, by a newer   *)
(* one or by the end of the connection, ends without putting a stream up,  *)
(* and takes down the one it has made (the token that                      *)
(* isLocalCameraOperationCurrent compares).                                *)
THEOREM OvertakenEnds == Spec => Camera_OvertakenIsSilent
<1>1. Init => CameraInv
  BY CameraStarts DEF Init
<1>2. CameraInv /\ [Next]_vars => CameraInv'
  BY CameraSteps, CameraKeeps, CameraStill
<1>3. CameraInv /\ [Next]_vars => [Silent]_cameraVars
  BY CameraSteps, CameraKeeps
<1>4. [Silent]_cameraVars => [Silent]_C!vars
  BY DEF cameraVars, C!vars, C!page
<1>5. CameraInv /\ [Next]_vars => [Silent]_C!vars
  BY <1>3, <1>4
<1>6. QED
  BY <1>1, <1>2, <1>5, PTL
     DEF Spec, Camera_OvertakenIsSilent, C!OvertakenIsSilent, Silent

(* What becomes of a stream that is not new: it may have been closed.      *)
Alike(r, q) ==
    /\ r.sc = q.sc /\ r.localId = q.localId /\ r.media = q.media
    /\ r.localDescriptionSent = q.localDescriptionSent /\ r.replace = q.replace

(* There is one stream that is up, of the connection in use.               *)
StreamsOk ==
    /\ open \in BOOLEAN /\ (open = TRUE => sc # C!None)
    /\ \A i \in C!Up : strm[i].sc = sc /\ open = TRUE /\ strm[i].localId # C!None
    /\ \A i, j \in C!Up : i = j
    /\ \A i \in C!Ids : i > ids => i \notin C!Up /\ strm[i].localDescriptionSent = FALSE
    /\ button \in C!Ids \cup {C!None}

(* An operation that is not overtaken is of the connection in use; it      *)
(* replaces the stream that is up, which it has closed when it asks.       *)
Begun(o) ==
    o.token = version =>
       /\ open = TRUE
       /\ o.at = "queued" => \A i \in C!Up : strm[i].localId = o.localId
       /\ o.at = "asking" => C!Up = {}

(* Only the last operation is not overtaken.                               *)
OpsOk ==
    \A k \in 1..Len(chain) :
       /\ chain[k].token <= version
       /\ k # Len(chain) => chain[k].token # version
       /\ Begun(chain[k])

(* What the server has was offered; it is up, or its successor is, or will *)
(* be if the user agrees, or it was forgotten.                             *)
Named(s) ==
    \/ s \in C!Up \/ s \in lost \/ \E i \in C!Up : strm[i].replace = s
    \/ chain # <<>> /\ chain[1].at = "asking" /\ chain[1].replaceId = s

ServerOk ==
    /\ server \subseteq C!Ids /\ (open = FALSE => server = {})
    /\ \A s \in server : strm[s].localDescriptionSent = TRUE
    /\ \A i \in C!Ids : strm[i].localDescriptionSent = TRUE => strm[i].replace = C!None
    /\ \A s \in server : Named(s)

Seen == \A t \in live : t[1] \in left \/ \E i \in C!Up : strm[i].media = t[1]

CameraOk == StreamsOk /\ OpsOk /\ ServerOk /\ Seen

LEMMA UpIs ==
  ASSUME StreamsOk
  PROVE  C!UpOf(sc) = C!Up /\ C!Up \subseteq C!Ids /\ (open = FALSE => C!Up = {})
BY DEF StreamsOk, C!UpOf, C!Up

LEMMA FirstIs ==
  ASSUME CameraInv, chain # <<>>
  PROVE  /\ Head(chain) = chain[1] /\ chain[1] \in Operation
         /\ Len(chain) \in Nat \ {0} /\ 1 \in 1..Len(chain)
BY LinedTail DEF CameraInv

LEMMA TailIs ==
  ASSUME CameraInv, chain # <<>>, C!Done
  PROVE  /\ Len(chain') \in Nat /\ Len(chain') = Len(chain) - 1
         /\ \A k \in 1..Len(chain') : /\ k + 1 \in 1..Len(chain)
                                     /\ chain'[k] = chain[k + 1]
                                     /\ chain'[k].at = "queued"
                                     /\ chain'[k].token \in Nat
<1>1. /\ chain \in Seq(Operation) /\ Len(chain) \in Nat \ {0} /\ Lined(chain)
  BY FirstIs DEF CameraInv, Lined
<1>2. /\ chain' \in Seq(Operation) /\ Len(chain') = Len(chain) - 1
      /\ \A k \in 1..Len(chain') : chain'[k] = chain[k + 1]
  BY <1>1, HeadTailProperties DEF C!Done
<1>3. ASSUME NEW k \in 1..Len(chain') PROVE k + 1 \in 1..Len(chain) /\ k + 1 # 1
  BY <1>1, <1>2
<1>4. \A k \in 1..Len(chain') : chain'[k] \in Operation
  BY <1>2, ElementOfSeq
<1>5. ASSUME NEW k \in 1..Len(chain') PROVE chain[k + 1].at = "queued"
  BY <1>1, <1>3, <1>5 DEF Lined
<1>6. \A k \in 1..Len(chain') : chain'[k].token \in Nat
  BY <1>4 DEF Operation
<1>7. QED
  BY <1>1, <1>2, <1>3, <1>5, <1>6

LEMMA ClosedIs ==
  ASSUME NEW streams \in [C!Ids -> UpStream], NEW these, NEW i \in C!Ids
  PROVE  /\ Alike(C!Closed(streams, these)[i], streams[i])
         /\ C!Closed(streams, these)[i].up = (streams[i].up /\ i \notin these)
<1>1. streams[i] \in UpStream
  OBVIOUS
<1>2. CASE i \in these
  <2>1. C!Closed(streams, these)[i] = [streams[i] EXCEPT !.up = FALSE, !.filter = FALSE]
    BY <1>2 DEF C!Closed
  <2>2. QED
    BY <1>1, <1>2, <2>1 DEF Alike, UpStream
<1>3. CASE i \notin these
  <2>1. C!Closed(streams, these)[i] = streams[i]
    BY <1>3 DEF C!Closed
  <2>2. QED
    BY <1>1, <1>3, <2>1 DEF Alike, UpStream
<1>4. QED
  BY <1>2, <1>3

LEMMA CloseDoes ==
  ASSUME CameraInv, NEW these, strm' = C!Closed(strm, these)
  PROVE  C!Up' = C!Up \ these /\ \A i \in C!Ids : Alike(strm'[i], strm[i])
<1>1. strm \in [C!Ids -> UpStream]
  BY DEF CameraInv, CameraTyped
<1>2. QED
  BY <1>1, ClosedIs DEF C!Up

LEMMA FilterDoes ==
  ASSUME CameraInv, NEW i, NEW on, strm' = [strm EXCEPT ![i].filter = on]
  PROVE  C!Up' = C!Up /\ \A j \in C!Ids : Alike(strm'[j], strm[j])
<1>1. strm \in [C!Ids -> UpStream]
  BY DEF CameraInv, CameraTyped
<1>2. QED
  BY <1>1 DEF C!Up, Alike, UpStream

(* What newUpStream does: the new stream is up, those with its local id    *)
(* are not any more.                                                       *)
LEMMA NewDoes ==
  ASSUME CameraInv, StreamsOk, NEW localId \in Nat, NEW replaceId \in Nat, NEW n \in Nat,
         C!newUpStream(localId, replaceId, n)
  PROVE  /\ ids + 1 \in C!Ids /\ ids + 1 \notin C!Up
         /\ ids' = ids + 1 /\ server' = server
         /\ C!Up' = (C!Up \ C!findByLocalId(localId)) \cup {ids + 1}
         /\ \A i \in C!Ids \ {ids + 1} : Alike(strm'[i], strm[i])
         /\ strm'[ids + 1].sc = sc /\ strm'[ids + 1].media = n
         /\ strm'[ids + 1].localId # C!None
         /\ localId # C!None => strm'[ids + 1].localId = localId
         /\ strm'[ids + 1].localDescriptionSent = FALSE
         /\ strm'[ids + 1].replace = C!Replaces(C!findByLocalId(localId), replaceId)
         /\ lost \subseteq lost'
         /\ \A j \in C!findByLocalId(localId) :
               strm[j].localDescriptionSent # TRUE /\ strm[j].replace # C!None =>
                 strm[j].replace \in lost' \cup {strm'[ids + 1].replace}
<1> DEFINE old == C!findByLocalId(localId)
           rep == C!Replaces(old, replaceId)
           id == IF localId = C!None THEN ids + 1 ELSE localId
           new == [C!NoStream EXCEPT !.up = TRUE, !.sc = sc, !.media = n,
                     !.localId = id, !.replace = rep]
           rest == C!Closed(strm, old)
<1>1. /\ ids < MaxStreams /\ ids' = ids + 1 /\ server' = server
      /\ strm' = [rest EXCEPT ![ids + 1] = new]
      /\ lost' = lost \cup (C!Unannounced(old) \ {rep})
  BY DEF C!newUpStream
<1>2. ids \in Nat /\ strm \in [C!Ids -> UpStream]
  BY DEF CameraInv, CameraTyped
<1>3. ids + 1 \in C!Ids /\ ids + 1 \notin C!Up /\ ids + 1 # C!None
  <2>1. ids + 1 \in C!Ids
    BY <1>1, <1>2, CameraAssumption DEF C!Ids, C!CameraAssumption
  <2>2. QED
    BY <1>2, <2>1 DEF StreamsOk, C!None
<1>4. old \subseteq C!Ids
  BY DEF C!findByLocalId, C!UpOf, C!Up
<1>5. /\ rest \in [C!Ids -> UpStream]
      /\ \A i \in C!Ids : /\ Alike(rest[i], strm[i])
                        /\ rest[i].up = (strm[i].up /\ i \notin old)
  BY <1>2, ClosedTyped, ClosedIs
<1>6. /\ new.up = TRUE /\ new.sc = sc /\ new.media = n /\ new.localId # C!None
      /\ localId # C!None => new.localId = localId
      /\ new.localDescriptionSent = FALSE /\ new.replace = rep
  <2>1. id # C!None /\ (localId # C!None => id = localId)
    BY <1>3
  <2> HIDE DEF id, rep
  <2>2. QED
    BY <2>1 DEF C!NoStream
<1> HIDE DEF new, rest
<1>7. strm'[ids + 1] = new /\ \A i \in C!Ids \ {ids + 1} : strm'[i] = rest[i]
  BY <1>1, <1>3, <1>5
<1>8. C!Up' = (C!Up \ old) \cup {ids + 1}
  BY <1>3, <1>5, <1>6, <1>7 DEF C!Up
<1>9. ASSUME NEW j \in old, strm[j].localDescriptionSent # TRUE, strm[j].replace # C!None
      PROVE  strm[j].replace \in lost' \cup {rep}
  <2>1. strm[j].replace \in C!Unannounced(old)
    <3>1. j \in {i \in old : ~strm[i].localDescriptionSent}
      BY <1>2, <1>4, <1>9 DEF UpStream
    <3>2. QED
      BY <1>9, <3>1 DEF C!Unannounced
  <2>2. QED
    BY <1>1, <2>1
<1>10. QED
  BY <1>1, <1>3, <1>5, <1>6, <1>7, <1>8, <1>9


(* The rest of the invariant, of steps that put no stream up.              *)
LEMMA StreamsFewer ==
  ASSUME StreamsOk, sc' = sc, open' = open, ids' = ids,
         button' \in C!Ids \cup {C!None}, C!Up' \subseteq C!Up,
         \A i \in C!Ids : strm'[i].sc = strm[i].sc /\ strm'[i].localId = strm[i].localId,
         \A i \in C!Ids \ C!Up : strm'[i].localDescriptionSent = strm[i].localDescriptionSent
  PROVE  StreamsOk'
<1>1. C!Up \subseteq C!Ids
  BY DEF C!Up
<1>2. /\ open' \in BOOLEAN /\ (open' = TRUE => sc' # C!None)
      /\ button' \in C!Ids \cup {C!None}
  BY DEF StreamsOk
<1>3. \A i \in C!Up' : strm'[i].sc = sc' /\ open' = TRUE /\ strm'[i].localId # C!None
  BY <1>1 DEF StreamsOk
<1>4. \A i, j \in C!Up' : i = j
  BY DEF StreamsOk
<1>5. \A i \in C!Ids : i > ids' => i \notin C!Up' /\ strm'[i].localDescriptionSent = FALSE
  BY DEF StreamsOk
<1>6. QED
  BY <1>2, <1>3, <1>4, <1>5 DEF StreamsOk, C!Ids

LEMMA OpsSame ==
  ASSUME OpsOk, StreamsOk, chain' = chain, version' = version, open' = open,
         C!Up' \subseteq C!Up, \A i \in C!Ids : strm'[i].localId = strm[i].localId
  PROVE  OpsOk'
<1>1. \A i \in C!Up' : strm'[i].localId = strm[i].localId
  BY DEF C!Up
<1>2. SUFFICES ASSUME NEW k \in 1..Len(chain)
               PROVE  /\ chain[k].token <= version
                      /\ k # Len(chain) => chain[k].token # version
                      /\ Begun(chain[k])'
  BY DEF OpsOk
<1>3. Begun(chain[k]) /\ chain'[k] = chain[k]
  BY DEF OpsOk
<1>4. Begun(chain[k])'
  BY <1>1, <1>3 DEF Begun
<1>5. QED
  BY <1>4 DEF OpsOk

LEMMA OpsDone ==
  ASSUME CameraInv, OpsOk, chain # <<>>, C!Done, version' = version, open' = open,
         C!Up' \subseteq C!Up, \A i \in C!Ids : strm'[i].localId = strm[i].localId
  PROVE  OpsOk'
<1>1. \A i \in C!Up' : strm'[i].localId = strm[i].localId
  BY DEF C!Up
<1>2. Len(chain') \in Nat /\ Len(chain') = Len(chain) - 1 /\ Len(chain) \in Nat
  BY TailIs, FirstIs
<1>3. SUFFICES ASSUME NEW k \in 1..Len(chain')
               PROVE  /\ chain'[k].token <= version
                      /\ k # Len(chain') => chain'[k].token # version
                      /\ Begun(chain[k])'
  BY DEF OpsOk
<1>4. /\ k + 1 \in 1..Len(chain) /\ chain'[k] = chain[k + 1]
      /\ chain'[k].at = "queued"
  BY TailIs
<1>5. k # Len(chain') => k + 1 # Len(chain)
  BY <1>2
<1>6. /\ chain[k + 1].token <= version /\ Begun(chain[k + 1])
      /\ (k + 1 # Len(chain) => chain[k + 1].token # version)
  BY <1>4 DEF OpsOk
<1>7. Begun(chain[k])'
  BY <1>1, <1>4, <1>6 DEF Begun
<1>8. QED
  BY <1>4, <1>5, <1>6, <1>7

(* The operation that is not overtaken is the only one, once it is first.  *)
LEMMA OnlyOne ==
  ASSUME CameraInv, OpsOk, chain # <<>>, Head(chain).token = version
  PROVE  Len(chain) = 1 /\ Begun(Head(chain))
BY FirstIs DEF OpsOk

LEMMA OpsOne ==
  ASSUME CameraInv, OpsOk, chain # <<>>, Head(chain).token = version, version' = version,
         \/ C!Done
         \/ Len(chain') = Len(chain) /\ chain'[1].token = version /\ Begun(chain[1])'
  PROVE  OpsOk'
<1>1. Len(chain) = 1 /\ version \in Nat
  BY OnlyOne DEF CameraInv, CameraTyped
<1>2. CASE C!Done
  <2>1. Len(chain') = 0
    BY <1>1, <1>2, TailIs
  <2>2. QED
    BY <2>1 DEF OpsOk
<1>3. CASE Len(chain') = Len(chain) /\ chain'[1].token = version /\ Begun(chain[1])'
  <2>1. SUFFICES ASSUME NEW k \in 1..Len(chain')
                 PROVE  /\ chain'[k].token <= version
                        /\ k # Len(chain') => chain'[k].token # version
                        /\ Begun(chain[k])'
    BY DEF OpsOk
  <2>2. k = 1
    BY <1>1, <1>3
  <2>3. Begun(chain[k])'
    BY <1>3, <2>2
  <2>4. QED
    BY <1>1, <1>3, <2>2, <2>3
<1>4. QED
  BY <1>2, <1>3

(* Streams are closed, and the server told.                                *)
LEMMA ServerCloses ==
  ASSUME CameraInv, StreamsOk, ServerOk, NEW these, these \subseteq C!Up, C!close(these),
         open' = open,
         chain # <<>> /\ chain[1].at = "asking" => chain' = chain
  PROVE  ServerOk'
<1>1. C!Up' = C!Up \ these /\ \A i \in C!Ids : Alike(strm'[i], strm[i])
  BY CloseDoes DEF C!close
<1>2. /\ server' = IF open THEN C!CloseServer(these) ELSE server
      /\ lost' = lost \cup C!Unannounced(these)
      /\ \A i \in C!Ids : strm[i].localDescriptionSent \in BOOLEAN
  BY DEF C!close, CameraInv, CameraTyped, UpStream
<1>3. server' \subseteq server /\ server \subseteq C!Ids /\ C!Up \subseteq C!Ids /\ C!None \notin C!Ids
  BY <1>2 DEF C!CloseServer, ServerOk, C!Up, C!Ids, C!None
<1>4. ASSUME NEW s \in server' PROVE Named(s)'
  <2>1. s \in server /\ s \in C!Ids /\ s # C!None /\ open = TRUE
    BY <1>3 DEF ServerOk, StreamsOk
  <2>2. CASE s \in C!Up
    <3>1. strm[s].localDescriptionSent = TRUE
      BY <2>1 DEF ServerOk
    <3>2. s \notin these
      BY <1>2, <1>4, <2>1, <3>1 DEF C!CloseServer
    <3>3. QED
      BY <1>1, <2>2, <3>2 DEF Named
  <2>3. CASE s \in lost
    BY <1>2, <2>3 DEF Named
  <2>4. ASSUME NEW i \in C!Up, strm[i].replace = s PROVE Named(s)'
    <3>1. strm[i].localDescriptionSent = FALSE /\ strm'[i].replace = s
      BY <1>1, <1>2, <1>3, <2>1, <2>4 DEF ServerOk, Alike
    <3>2. CASE i \in these
      BY <1>2, <2>1, <2>4, <3>1, <3>2 DEF C!Unannounced, Named
    <3>3. CASE i \notin these
      BY <1>1, <3>1, <3>3 DEF Named
    <3>4. QED
      BY <3>2, <3>3
  <2>5. CASE chain # <<>> /\ chain[1].at = "asking" /\ chain[1].replaceId = s
    BY <2>5 DEF Named
  <2>6. QED
    BY <2>1, <2>2, <2>3, <2>4, <2>5 DEF ServerOk, Named
<1>5. QED
  BY <1>1, <1>3, <1>4 DEF ServerOk, Alike, C!Ids

(* What of the server's streams is left alone, while no operation asks or  *)
(* the one that asks goes on asking.                                       *)
LEMMA ServerStays ==
  ASSUME ServerOk, open' = open, server' = server, lost \subseteq lost',
         C!Up' = C!Up, \A i \in C!Ids : Alike(strm'[i], strm[i]),
         chain # <<>> /\ chain[1].at = "asking" =>
            \/ chain' # <<>> /\ chain'[1] = chain[1]
            \/ chain[1].replaceId \in lost' \cup {C!None}
  PROVE  ServerOk'
<1>1. server \subseteq C!Ids /\ C!Up \subseteq C!Ids /\ C!None \notin C!Ids
  BY DEF ServerOk, C!Up, C!Ids, C!None
<1>2. ASSUME NEW s \in server PROVE Named(s)'
  <2>1. Named(s) /\ s # C!None
    BY <1>1 DEF ServerOk
  <2>2. QED
    BY <1>1, <2>1 DEF Named, Alike
<1>3. QED
  BY <1>1, <1>2 DEF ServerOk, Alike, C!Ids

(* The devices, when streams are closed.                                   *)
LEMMA SeenCloses ==
  ASSUME Seen, NEW these, live' = C!CloseLive(live, strm, these),
         C!Up' = C!Up \ these, left' = left,
         \A i \in C!Ids : Alike(strm'[i], strm[i])
  PROVE  Seen'
<1>1. SUFFICES ASSUME NEW t \in live', t[1] \notin left
               PROVE  \E i \in C!Up' : strm'[i].media = t[1]
  BY DEF Seen
<1>2. t \in live /\ \A i \in these : strm[i].media # t[1]
  BY DEF C!CloseLive
<1>3. PICK i \in C!Up : strm[i].media = t[1]
  BY <1>1, <1>2 DEF Seen
<1>4. i \in C!Up' /\ strm'[i].media = t[1]
  BY <1>2, <1>3 DEF Alike, C!Up
<1>5. QED
  BY <1>4

(* and when they stay up.                                                  *)
LEMMA SeenStays ==
  ASSUME Seen, live' \subseteq live, left \subseteq left', C!Up' = C!Up,
         \A i \in C!Ids : strm'[i].media = strm[i].media
  PROVE  Seen'
BY DEF Seen, C!Up

LEMMA AddOk ==
  ASSUME CameraInv, CameraOk, NEW localId \in Nat, C!addLocalMedia(localId),
         open = TRUE, \A i \in C!Up : strm[i].localId = localId
  PROVE  CameraOk'
<1> DEFINE had == desired \/ C!UpOf(sc) # {}
           o == [C!Idle EXCEPT !.token = version + 1, !.at = "queued",
                   !.localId = localId, !.had = had]
<1>1. /\ chain' = Append(chain, o) /\ version' = version + 1
      /\ UNCHANGED <<sc, open, strm, ids, live, button, server, lost, left>>
  BY DEF C!addLocalMedia, C!page
<1>2. /\ o \in Operation /\ o.token = version + 1 /\ o.at = "queued" /\ o.localId = localId
      /\ o.stream = 0
  <2>1. had \in BOOLEAN
    OBVIOUS
  <2> HIDE DEF had
  <2>2. C!Idle \in Operation /\ C!Idle.stream = 0
    BY DEF C!Idle, C!None, Operation
  <2>3. version + 1 \in Nat
    BY DEF CameraInv, CameraTyped
  <2>4. QED
    BY <2>1, <2>2, <2>3 DEF Operation
<1> HIDE DEF o
<1>3. /\ Len(chain) \in Nat /\ Len(chain') = Len(chain) + 1
      /\ \A k \in 1..Len(chain) : chain'[k] = chain[k]
      /\ chain'[Len(chain) + 1] = o
  BY <1>1, <1>2, AppendProperties, LenProperties DEF CameraInv, Lined
<1>4. C!Up' = C!Up /\ version \in Nat
  BY <1>1 DEF C!Up, C!Ids, CameraInv, CameraTyped
<1>5. StreamsOk'
  BY <1>1, <1>4, StreamsFewer DEF CameraOk, StreamsOk
<1>6. OpsOk'
  <2>1. SUFFICES ASSUME NEW k \in 1..Len(chain')
                 PROVE  /\ chain'[k].token <= version'
                        /\ k # Len(chain') => chain'[k].token # version'
                        /\ Begun(chain[k])'
    BY DEF OpsOk
  <2>2. CASE k = Len(chain')
    <3>1. chain'[k] = o
      BY <1>3, <2>2
    <3>2. Begun(chain[k])'
      BY <1>1, <1>2, <1>4, <3>1 DEF Begun
    <3>3. QED
      BY <1>1, <1>2, <1>4, <2>2, <3>1, <3>2
  <2>3. CASE k # Len(chain')
    <3>1. k \in 1..Len(chain) /\ chain'[k] = chain[k]
      BY <1>3, <2>3
    <3>2. chain[k].token <= version /\ chain[k] \in Operation
      BY <3>1, ElementOfSeq DEF CameraOk, OpsOk, CameraInv, Lined
    <3>3. chain'[k].token <= version' /\ chain'[k].token # version'
      BY <1>1, <1>4, <3>1, <3>2 DEF Operation
    <3>4. QED
      BY <3>3 DEF Begun
  <2>4. QED
    BY <2>2, <2>3
<1>7. ServerOk'
  <2>1. chain # <<>> => chain' # <<>> /\ chain'[1] = chain[1]
    BY <1>3, FirstIs, EmptySeq
  <2>2. QED
    BY <1>1, <1>4, <2>1, ServerStays DEF CameraOk, Alike
<1>8. Seen'
  BY <1>1, <1>4, SeenStays DEF CameraOk
<1>9. QED
  BY <1>5, <1>6, <1>7, <1>8 DEF CameraOk

LEMMA BeginOk == CameraInv /\ CameraOk /\ C!Begin => CameraOk'
<1> SUFFICES ASSUME CameraInv, CameraOk, C!Begin PROVE CameraOk'
  OBVIOUS
<1> DEFINE o == Head(chain)
           old == IF sc = C!None THEN {} ELSE C!findByLocalId(o.localId)
           rep == IF old = {} THEN C!None ELSE CHOOSE i \in old : TRUE
           new == [o EXCEPT !.at = "asking", !.replaceId = rep]
<1>1. /\ chain # <<>> /\ o.at = "queued"
      /\ strm' = C!Closed(strm, old)
      /\ live' = C!CloseLive(live, strm, old)
      /\ UNCHANGED <<sc, open, ids, version, button, server, left>>
      /\ IF C!Current(o) THEN /\ chain' = <<new>> \o Tail(chain)
                            /\ lost' = lost \cup C!Unannounced(old)
                       ELSE C!Done /\ lost' = lost \cup C!Unannounced(old) \cup old
  BY ZenonT(40) DEF C!Begin, C!page
<1>a. old \subseteq C!Up /\ (sc # C!None => old = C!findByLocalId(o.localId))
  BY DEF C!findByLocalId, C!UpOf
<1>b. rep = IF old = {} THEN C!None ELSE CHOOSE i \in old : TRUE
  OBVIOUS
<1> HIDE DEF old, rep
<1>2. C!Up' = C!Up \ old /\ (\A i \in C!Ids : Alike(strm'[i], strm[i])) /\ C!Up \subseteq C!Ids
  BY <1>1, CloseDoes DEF C!Up
<1>4. o \in Operation /\ o = chain[1]
  BY <1>1, FirstIs
<1>5. StreamsOk'
  BY <1>1, <1>2, StreamsFewer DEF CameraOk, StreamsOk, Alike
<1>6. Seen'
  BY <1>1, <1>2, SeenCloses DEF CameraOk
<1>7. CASE C!Current(o)
  <2>1. o.token = version /\ Begun(o)
    BY <1>1, <1>7, OnlyOne DEF C!Current, CameraOk
  <2>2. /\ new.at = "asking" /\ new.replaceId = rep /\ new.token = version
        /\ new \in Operation /\ new.stream = o.stream
    <3>1. rep \in Nat
      <4>1. old \subseteq Nat
        BY <1>a DEF C!Up, C!Ids
      <4>2. CASE old = {}
        BY <1>b, <4>2 DEF C!None
      <4>3. CASE old # {}
        BY <1>b, <4>1, <4>3
      <4>4. QED
        BY <4>2, <4>3
    <3>2. QED
      BY <1>4, <2>1, <3>1 DEF Operation
  <2>3. new.at # "filter" => new.stream = 0
    BY <1>1, <1>4, <2>2, FirstIs DEF CameraInv, Lined
  <2> HIDE DEF new
  <2>4. /\ chain' = <<new>> \o Tail(chain) /\ lost' = lost \cup C!Unannounced(old)
    BY <1>1, <1>7
  <2>5. chain'[1] = new /\ Len(chain') = Len(chain) /\ chain' # <<>>
    BY <1>1, <2>2, <2>3, <2>4, LinedHead DEF CameraInv
  <2>6. old = C!Up
    <3>1. \A i \in C!Up : strm[i].localId = o.localId /\ strm[i].sc = sc
      BY <1>1, <2>1 DEF Begun, CameraOk, StreamsOk
    <3>2. sc # C!None
      BY <1>7 DEF C!Current
    <3>3. QED
      BY <1>a, <3>1, <3>2 DEF C!findByLocalId, C!UpOf
  <2>7. OpsOk'
    <3>1. Begun(chain[1])'
      BY <1>1, <1>2, <2>1, <2>2, <2>5, <2>6 DEF Begun
    <3>2. QED
      BY <1>1, <2>1, <2>2, <2>5, <3>1, OpsOne DEF CameraOk
  <2>8. ASSUME NEW s \in server PROVE Named(s)'
    <3>1. Named(s) /\ s \in C!Ids /\ s # C!None
      BY DEF CameraOk, ServerOk, C!Ids, C!None
    <3>2. CASE s \in C!Up
      <4>1. old = {s}
        BY <1>2, <2>6, <3>2 DEF CameraOk, StreamsOk
      <4>2. rep = s
        BY <1>b, <4>1
      <4>3. QED
        BY <2>2, <2>5, <4>2 DEF Named
    <3>3. CASE s \in lost
      BY <2>4, <3>3 DEF Named
    <3>4. ASSUME NEW i \in C!Up, strm[i].replace = s PROVE Named(s)'
      <4>1. ~strm[i].localDescriptionSent
        BY <1>2, <3>1, <3>4 DEF CameraOk, ServerOk, CameraInv, CameraTyped, UpStream
      <4>2. s \in lost'
        BY <2>4, <2>6, <3>1, <3>4, <4>1 DEF C!Unannounced
      <4>3. QED
        BY <4>2 DEF Named
    <3>5. QED
      BY <1>1, <1>4, <3>1, <3>2, <3>3, <3>4 DEF Named
  <2>9. ServerOk'
    BY <1>1, <1>2, <2>8 DEF CameraOk, ServerOk, Alike, C!Ids
  <2>10. QED
    BY <1>5, <1>6, <2>7, <2>9 DEF CameraOk
<1>8. CASE ~C!Current(o)
  <2>1. C!Done /\ lost' = lost \cup C!Unannounced(old) \cup old
    BY <1>1, <1>8
  <2>2. OpsOk'
    BY <1>1, <1>2, <2>1, OpsDone DEF CameraOk, Alike
  <2>3. ASSUME NEW s \in server PROVE Named(s)'
    <3>1. Named(s) /\ s \in C!Ids /\ s # C!None
      BY DEF CameraOk, ServerOk, C!Ids, C!None
    <3>2. CASE s \in C!Up \/ s \in lost
      BY <1>2, <2>1, <3>2 DEF Named
    <3>4. ASSUME NEW i \in C!Up, strm[i].replace = s PROVE Named(s)'
      <4>1. ~strm[i].localDescriptionSent /\ strm'[i].replace = s
        BY <1>2, <3>1, <3>4
           DEF CameraOk, ServerOk, CameraInv, CameraTyped, UpStream, Alike
      <4>2. CASE i \in old
        <5>1. s \in lost'
          BY <2>1, <3>1, <3>4, <4>1, <4>2 DEF C!Unannounced
        <5>2. QED
          BY <5>1 DEF Named
      <4>3. CASE i \notin old
        BY <1>2, <4>1, <4>3 DEF Named
      <4>4. QED
        BY <4>2, <4>3
    <3>5. QED
      BY <1>1, <1>4, <3>1, <3>2, <3>4 DEF Named
  <2>4. ServerOk'
    BY <1>1, <1>2, <2>3 DEF CameraOk, ServerOk, Alike, C!Ids
  <2>5. QED
    BY <1>5, <1>6, <2>2, <2>4 DEF CameraOk
<1>9. QED
  BY <1>7, <1>8

LEMMA NotOpenedOk == CameraInv /\ CameraOk /\ (C!Refused \/ C!TooLate) => CameraOk'
<1> SUFFICES ASSUME CameraInv, CameraOk, C!Refused \/ C!TooLate PROVE CameraOk'
  OBVIOUS
<1>1. /\ chain # <<>> /\ C!Done
      /\ lost' = lost \cup ({Head(chain).replaceId} \ {C!None})
      /\ UNCHANGED <<sc, open, strm, ids, live, version, button, server, left>>
  BY DEF C!Refused, C!TooLate, C!page
<1>2. C!Up' = C!Up /\ Head(chain) = chain[1]
  BY <1>1, FirstIs DEF C!Up, C!Ids
<1>3. StreamsOk'
  BY <1>1, <1>2, StreamsFewer DEF CameraOk, StreamsOk
<1>4. OpsOk'
  BY <1>1, <1>2, OpsDone DEF CameraOk
<1>5. ServerOk'
  BY <1>1, <1>2, ServerStays DEF CameraOk, Alike
<1>6. Seen'
  BY <1>1, <1>2, SeenStays DEF CameraOk
<1>7. QED
  BY <1>3, <1>4, <1>5, <1>6 DEF CameraOk

(* A new stream is up: the only one that was up is replaced, if any was.   *)
LEMMA NewOk ==
  ASSUME CameraInv, CameraOk, NEW localId \in Nat, NEW replaceId \in Nat, NEW n \in Nat,
         C!newUpStream(localId, replaceId, n),
         open = TRUE, UNCHANGED <<sc, open, button, left>>,
         C!Up = C!findByLocalId(localId),
         \A t \in live' : t \in live \/ t[1] = n,
         \A i \in C!Up : strm[i].media = n,
         \/ chain' = chain
         \/ C!Up = {} /\ (chain # <<>> => chain[1].replaceId = replaceId)
  PROVE  /\ StreamsOk' /\ ServerOk' /\ Seen'
         /\ localId # C!None => \A i \in C!Up' : strm'[i].localId = localId
<1> DEFINE id == ids + 1
           rep == C!Replaces(C!Up, replaceId)
<1>1. /\ id \in C!Ids /\ id \notin C!Up
      /\ ids' = id /\ server' = server
      /\ C!Up' = {id}
      /\ \A i \in C!Ids \ {id} : Alike(strm'[i], strm[i])
      /\ strm'[id].sc = sc /\ strm'[id].media = n /\ strm'[id].localId # C!None
      /\ (localId # C!None => strm'[id].localId = localId)
      /\ strm'[id].localDescriptionSent = FALSE
      /\ strm'[id].replace = rep /\ lost \subseteq lost'
      /\ \A j \in C!Up : strm[j].localDescriptionSent # TRUE /\ strm[j].replace # C!None =>
                 strm[j].replace \in lost' \cup {rep}
  BY NewDoes DEF CameraOk
<1>2. ids \in Nat /\ id \in Nat /\ id # C!None /\ C!Up \subseteq C!Ids /\ C!Ids \subseteq Nat
  BY <1>1 DEF CameraInv, CameraTyped, C!None, C!Up, C!Ids
<1>3. rep = IF C!Up = {} THEN replaceId ELSE CHOOSE i \in C!Up : TRUE
  BY DEF C!Replaces
<1> HIDE DEF id, rep
<1>4. StreamsOk'
  <2>1. \A i \in C!Ids : i > ids' => i \notin C!Up' /\ strm'[i].localDescriptionSent = FALSE
    <3> SUFFICES ASSUME NEW i \in C!Ids, i > id
                 PROVE  i \notin C!Up' /\ strm'[i].localDescriptionSent = FALSE
      BY <1>1
    <3>1. i # id /\ i > ids
      BY <1>2 DEF id
    <3>2. QED
      BY <1>1, <3>1 DEF CameraOk, StreamsOk, Alike
  <2>2. sc # C!None
    BY DEF CameraOk, StreamsOk
  <2>3. \A i \in C!Up' : strm'[i].sc = sc' /\ open' = TRUE /\ strm'[i].localId # C!None
    BY <1>1
  <2>4. QED
    BY <1>1, <2>1, <2>2, <2>3 DEF CameraOk, StreamsOk, C!Ids
<1>5. ASSUME NEW s \in server PROVE Named(s)'
  <2>1. Named(s) /\ s \in C!Ids /\ s # C!None
    BY DEF CameraOk, ServerOk, C!Ids, C!None
  <2>2. s = rep => Named(s)'
    BY <1>1 DEF Named
  <2>3. CASE s \in C!Up
    <3>1. C!Up = {s}
      BY <2>3 DEF CameraOk, StreamsOk
    <3>2. s = rep
      BY <1>3, <3>1
    <3>3. QED
      BY <2>2, <3>2
  <2>4. CASE s \in lost
    BY <1>1, <2>4 DEF Named
  <2>5. ASSUME NEW j \in C!Up, strm[j].replace = s PROVE Named(s)'
    <3>1. strm[j].localDescriptionSent # TRUE
      BY <1>2, <2>1, <2>5 DEF CameraOk, ServerOk
    <3>2. s \in lost' \cup {rep}
      BY <1>1, <2>1, <2>5, <3>1
    <3>3. QED
      BY <2>2, <3>2 DEF Named
  <2>6. CASE chain # <<>> /\ chain[1].at = "asking" /\ chain[1].replaceId = s
    <3>1. CASE C!Up = {} /\ chain[1].replaceId = replaceId
      BY <1>3, <2>2, <2>6, <3>1
    <3>2. CASE chain' = chain
      BY <2>6, <3>2 DEF Named
    <3>3. QED
      BY <2>6, <3>1, <3>2
  <2>7. QED
    BY <2>1, <2>3, <2>4, <2>5, <2>6 DEF Named
<1>6. ServerOk'
  <2>1. /\ \A s \in server : s # id
        /\ \A s \in server : strm[s].localDescriptionSent = TRUE /\ s \in C!Ids
    <3>1. strm[id].localDescriptionSent = FALSE
      <4>1. id > ids
        BY <1>2 DEF id
      <4>2. QED
        BY <1>1, <4>1 DEF CameraOk, StreamsOk
    <3>2. QED
      BY <3>1 DEF CameraOk, ServerOk
  <2>2. \A s \in server' : strm'[s].localDescriptionSent = TRUE
    BY <1>1, <2>1 DEF Alike
  <2>3. \A i \in C!Ids : strm'[i].localDescriptionSent = TRUE => strm'[i].replace = C!None
    BY <1>1 DEF Alike, CameraOk, ServerOk
  <2>4. server' \subseteq C!Ids /\ (open' = FALSE => server' = {})
    BY <1>1, <2>1
  <2>5. QED
    BY <1>1, <1>5, <2>2, <2>3, <2>4 DEF ServerOk, C!Ids
<1>7. Seen'
  <2>1. SUFFICES ASSUME NEW t \in live', t[1] \notin left
                 PROVE  t[1] = n
    BY <1>1 DEF Seen
  <2>2. t \in live => \E i \in C!Up : strm[i].media = t[1]
    BY <2>1 DEF CameraOk, Seen
  <2>3. QED
    BY <2>2
<1>8. QED
  BY <1>1, <1>4, <1>6, <1>7

LEMMA OpenedOk ==
  ASSUME CameraInv, CameraOk, NEW filtered \in BOOLEAN, C!MediaOpened(filtered)
  PROVE  CameraOk'
<1> DEFINE o == Head(chain)
           new == [o EXCEPT !.at = "filter", !.stream = ids + 1]
<1>1. /\ chain # <<>> /\ o.at = "asking" /\ C!Current(o)
      /\ C!newUpStream(o.localId, o.replaceId, opened + 1)
      /\ live' = live \cup {<<opened + 1, "audio">>, <<opened + 1, "video">>}
      /\ UNCHANGED <<sc, open, version, button, left>>
      /\ C!Done \/ chain' = <<new>> \o Tail(chain)
  BY DEF C!MediaOpened, C!page
<1>2. o \in Operation /\ o = chain[1] /\ ids + 1 \in Nat /\ opened + 1 \in Nat
  BY <1>1, FirstIs DEF CameraInv, CameraTyped
<1>3. o.token = version /\ open = TRUE /\ C!Up = {}
  BY <1>1, OnlyOne DEF C!Current, CameraOk, Begun
<1>4. new \in Operation /\ new.token = version /\ new.at = "filter"
  BY <1>2, <1>3 DEF Operation
<1> HIDE DEF new
<1>5. OpsOk'
  <2>1. CASE C!Done
    BY <1>1, <1>3, <2>1, OpsOne DEF CameraOk
  <2>2. CASE chain' = <<new>> \o Tail(chain)
    <3>1. chain'[1] = new /\ Len(chain') = Len(chain)
      BY <1>1, <1>4, <2>2, LinedHead DEF CameraInv
    <3>2. Begun(chain[1])'
      BY <1>1, <1>3, <1>4, <3>1 DEF Begun
    <3>3. QED
      BY <1>1, <1>3, <1>4, <3>1, <3>2, OpsOne DEF CameraOk
  <2>3. QED
    BY <1>1, <2>1, <2>2
<1>6. StreamsOk' /\ ServerOk' /\ Seen'
  <2>1. C!findByLocalId(o.localId) = C!Up
    BY <1>3 DEF C!findByLocalId, C!UpOf
  <2>2. o.localId \in Nat /\ o.replaceId \in Nat
    BY <1>2 DEF Operation
  <2>3. \A t \in live' : t \in live \/ t[1] = opened + 1
    BY <1>1
  <2>4. chain[1].replaceId = o.replaceId
    BY <1>2
  <2> HIDE DEF o
  <2>5. QED
    BY <1>1, <1>2, <1>3, <2>1, <2>2, <2>3, <2>4, NewOk
<1>7. QED
  BY <1>5, <1>6 DEF CameraOk

LEMMA ReplaceOk ==
  ASSUME CameraInv, CameraOk, NEW i \in C!Ids, NEW filtered \in BOOLEAN,
         C!replaceUpStream(i, filtered)
  PROVE  CameraOk'
<1>1. /\ C!findUpMedia(i) /\ C!newUpStream(strm[i].localId, C!None, strm[i].media)
      /\ UNCHANGED <<sc, open, live, chain, version, button, left>>
  BY DEF C!replaceUpStream, C!page
<1>2. strm[i].localId \in Nat /\ strm[i].media \in Nat /\ C!None \in Nat
  BY DEF CameraInv, CameraTyped, UpStream, C!None
<1>3. i \in C!Up /\ C!Up = {i} /\ open = TRUE /\ strm[i].sc = sc
  BY <1>1 DEF C!findUpMedia, C!UpOf, CameraOk, StreamsOk
<1>4. C!findByLocalId(strm[i].localId) = C!Up
  BY <1>3 DEF C!findByLocalId, C!UpOf
<1>5. strm[i].localId # C!None
  BY <1>3 DEF CameraOk, StreamsOk
<1>6. /\ StreamsOk' /\ ServerOk' /\ Seen'
      /\ \A j \in C!Up' : strm'[j].localId = strm[i].localId
  <2>1. \A t \in live' : t \in live \/ t[1] = strm[i].media
    BY <1>1
  <2>2. \A j \in C!Up : strm[j].media = strm[i].media
    BY <1>3
  <2>3. QED
    BY <1>1, <1>2, <1>3, <1>4, <1>5, <2>1, <2>2, NewOk
<1>7. ASSUME NEW k \in 1..Len(chain)
      PROVE  /\ chain[k].token <= version
             /\ k # Len(chain) => chain[k].token # version
             /\ Begun(chain[k])'
  <2>1. chain' = chain /\ version' = version /\ open' = open
    BY <1>1
  <2>2. /\ chain[k].token <= version /\ Begun(chain[k])
        /\ (k # Len(chain) => chain[k].token # version)
    BY DEF CameraOk, OpsOk
  <2>3. Begun(chain[k])'
    BY <1>3, <1>6, <2>1, <2>2 DEF Begun
  <2>4. QED
    BY <2>2, <2>3
<1>8. OpsOk'
  BY <1>1, <1>7 DEF OpsOk
<1>9. QED
  BY <1>6, <1>8 DEF CameraOk

(* A filter has started: its stream stays as it is, or is closed.          *)
LEMMA FilterOk ==
  ASSUME CameraInv, CameraOk, NEW s \in starts, NEW ok \in BOOLEAN,
         C!FilterStarted(s[1], s[2], ok)
  PROVE  CameraOk'
<1> DEFINE i == s[1]
           who == s[2]
           these == {i} \cap C!Up
           on == strm[i].filter \/ (ok /\ strm[i].up)
<1>1. /\ UNCHANGED <<sc, open, ids, version, left>>
      /\ <<i, who>> \in starts
      /\ button' = button \/ button' = C!None
      /\ IF who = "operation" THEN C!Done ELSE chain' = chain
  BY DEF C!FilterStarted, C!page
<1>2. \/ C!close(these)
      \/ /\ strm' = [strm EXCEPT ![i].filter = on]
         /\ UNCHANGED <<live, server, lost>>
  BY DEF C!FilterStarted
<1>3. who = "operation" => chain # <<>> /\ chain[1].at = "filter"
  BY <1>1 DEF CameraInv, Awaited
<1> HIDE DEF these, on, i, who
<1>4. /\ C!Up' \subseteq C!Up /\ C!Up \subseteq C!Ids
      /\ \A j \in C!Ids : Alike(strm'[j], strm[j])
      /\ C!close(these) => C!Up' = C!Up \ these
      /\ C!close(these) \/ C!Up' = C!Up
  <2>1. ASSUME C!close(these)
        PROVE  C!Up' = C!Up \ these /\ \A j \in C!Ids : Alike(strm'[j], strm[j])
    BY <2>1, CloseDoes DEF C!close
  <2>2. ASSUME strm' = [strm EXCEPT ![i].filter = on]
        PROVE  C!Up' = C!Up /\ \A j \in C!Ids : Alike(strm'[j], strm[j])
    BY <2>2, FilterDoes
  <2>3. QED
    BY <1>2, <2>1, <2>2 DEF C!Up
<1>5. StreamsOk'
  <2>1. button' \in C!Ids \cup {C!None}
    BY <1>1 DEF CameraOk, StreamsOk
  <2>2. QED
    BY <1>1, <1>4, <2>1, StreamsFewer DEF CameraOk, Alike
<1>6. OpsOk'
  <2>1. CASE who = "operation"
    BY <1>1, <1>3, <1>4, <2>1, OpsDone DEF CameraOk, Alike
  <2>2. CASE who # "operation"
    BY <1>1, <1>4, <2>2, OpsSame DEF CameraOk, Alike
  <2>3. QED
    BY <2>1, <2>2
<1>7. chain # <<>> /\ chain[1].at = "asking" => chain' = chain
  BY <1>1, <1>3
<1>8. ServerOk' /\ Seen'
  <2>1. CASE C!close(these)
    <3>1. these \subseteq C!Up
      BY DEF these
    <3>2. ServerOk'
      BY <1>1, <1>7, <2>1, <3>1, ServerCloses DEF CameraOk
    <3>3. live' = C!CloseLive(live, strm, these)
      BY <2>1 DEF C!close
    <3>4. Seen'
      BY <1>1, <1>4, <2>1, <3>3, SeenCloses DEF CameraOk
    <3>5. QED
      BY <3>2, <3>4
  <2>2. CASE ~C!close(these)
    <3>1. C!Up' = C!Up /\ UNCHANGED <<live, server, lost>>
      BY <1>2, <1>4, <2>2
    <3>2. ServerOk'
      BY <1>1, <1>4, <1>7, <3>1, ServerStays DEF CameraOk
    <3>3. Seen'
      BY <1>1, <1>4, <3>1, SeenStays DEF CameraOk, Alike
    <3>4. QED
      BY <3>2, <3>3
  <2>3. QED
    BY <2>1, <2>2
<1>9. QED
  BY <1>5, <1>6, <1>8 DEF CameraOk

LEMMA TrackOk ==
  ASSUME CameraInv, CameraOk, NEW granted \in BOOLEAN, NEW filtered \in BOOLEAN,
         C!TrackOpened(granted, filtered)
  PROVE  CameraOk'
<1> DEFINE track == <<strm[button].media, "video">>
<1>1. /\ UNCHANGED <<sc, open, strm, ids, chain, version, server, lost>>
      /\ button # C!None /\ (button' = button \/ button' = C!None)
      /\ live' = live \/ live' = live \cup {track}
      /\ live' # live => granted = TRUE
      /\ left' = IF granted /\ ~strm[button].up THEN left \cup {track[1]} ELSE left
  BY DEF C!TrackOpened, C!page
<1>2. C!Up' = C!Up /\ \A i \in C!Ids : Alike(strm'[i], strm[i])
  BY <1>1 DEF C!Up, C!Ids, Alike
<1>3. StreamsOk'
  BY <1>1, <1>2, StreamsFewer DEF CameraOk, StreamsOk
<1>4. OpsOk' /\ ServerOk'
  BY <1>1, <1>2, OpsSame, ServerStays DEF CameraOk
<1>5. Seen'
  <2>1. SUFFICES ASSUME NEW t \in live', t \notin live, t[1] \notin left'
                 PROVE  \E i \in C!Up : strm[i].media = t[1]
    BY <1>1, <1>2 DEF CameraOk, Seen
  <2>2. t[1] = strm[button].media /\ track[1] = strm[button].media /\ granted = TRUE
    BY <1>1, <2>1
  <2>3. button \in C!Up
    BY <1>1, <2>1, <2>2 DEF CameraOk, StreamsOk, C!Up
  <2>4. QED
    BY <2>2, <2>3
<1>6. QED
  BY <1>3, <1>4, <1>5 DEF CameraOk

LEMMA ButtonOk ==
  ASSUME CameraInv, CameraOk, NEW i \in C!Ids,
         C!stopCameraTrackInSession(i) \/ C!startCameraTrackInSession(i)
  PROVE  CameraOk'
<1>1. /\ UNCHANGED <<sc, open, ids, chain, version, server, lost, left>>
      /\ button' = button \/ button' = i
      /\ live' \subseteq live
      /\ strm' = strm \/ strm' = [strm EXCEPT ![i].filter = FALSE]
  BY DEF C!stopCameraTrackInSession, C!startCameraTrackInSession, C!page
<1>2. C!Up' = C!Up /\ \A j \in C!Ids : Alike(strm'[j], strm[j])
  <2>1. CASE strm' = strm
    BY <2>1 DEF C!Up, C!Ids, Alike
  <2>2. CASE strm' = [strm EXCEPT ![i].filter = FALSE]
    BY <2>2, FilterDoes
  <2>3. QED
    BY <1>1, <2>1, <2>2
<1>3. StreamsOk'
  BY <1>1, <1>2, StreamsFewer DEF CameraOk, StreamsOk, Alike
<1>4. OpsOk'
  BY <1>1, <1>2, OpsSame DEF CameraOk, Alike
<1>5. ServerOk'
  BY <1>1, <1>2, ServerStays DEF CameraOk
<1>6. Seen'
  BY <1>1, <1>2, SeenStays DEF CameraOk, Alike
<1>7. QED
  BY <1>3, <1>4, <1>5, <1>6 DEF CameraOk

(* The offer names what the stream replaces.                               *)
LEMMA NegotiateOk ==
  ASSUME CameraInv, CameraOk, NEW i \in C!Ids, C!negotiate(i)
  PROVE  CameraOk'
<1>1. /\ C!findUpMedia(i) /\ open
      /\ strm' = [strm EXCEPT ![i].localDescriptionSent = TRUE, ![i].replace = C!None]
      /\ server' = (server \ {strm[i].replace}) \cup {i}
      /\ UNCHANGED <<sc, open, ids, live, chain, version, button, lost, left>>
  BY DEF C!negotiate, C!page
<1>2. i \in C!Up /\ C!Up = {i}
  BY <1>1 DEF C!findUpMedia, C!UpOf, CameraOk, StreamsOk
<1>3. /\ \A j \in C!Ids : /\ strm'[j].sc = strm[j].sc /\ strm'[j].localId = strm[j].localId
                        /\ strm'[j].media = strm[j].media /\ strm'[j].up = strm[j].up
      /\ \A j \in C!Ids \ {i} : strm'[j] = strm[j]
      /\ strm'[i].localDescriptionSent = TRUE /\ strm'[i].replace = C!None
  BY <1>1 DEF CameraInv, CameraTyped, UpStream
<1>4. C!Up' = C!Up
  BY <1>3 DEF C!Up, C!Ids
<1>5. StreamsOk'
  BY <1>1, <1>2, <1>3, <1>4, StreamsFewer DEF CameraOk, StreamsOk
<1>6. OpsOk'
  BY <1>1, <1>3, <1>4, OpsSame DEF CameraOk
<1>7. ServerOk'
  <2>1. ASSUME NEW s \in server' PROVE Named(s)'
    <3>1. CASE s = i
      BY <1>2, <1>4, <3>1 DEF Named
    <3>2. CASE s # i
      <4>1. s \in server /\ Named(s) /\ s # strm[i].replace
        BY <1>1, <3>2 DEF CameraOk, ServerOk
      <4>2. s \notin C!Up /\ \A j \in C!Up : strm[j].replace # s
        BY <1>2, <3>2, <4>1
      <4>3. QED
        BY <1>1, <4>1, <4>2 DEF Named
    <3>3. QED
      BY <3>1, <3>2
  <2>2. server' \subseteq C!Ids /\ open' = TRUE
    BY <1>1, <1>2 DEF CameraOk, ServerOk, StreamsOk
  <2>3. \A s \in server' : strm'[s].localDescriptionSent = TRUE
    BY <1>1, <1>3 DEF CameraOk, ServerOk
  <2>4. \A j \in C!Ids : strm'[j].localDescriptionSent = TRUE => strm'[j].replace = C!None
    BY <1>3 DEF CameraOk, ServerOk
  <2>5. QED
    BY <2>1, <2>2, <2>3, <2>4 DEF ServerOk, C!Ids
<1>8. Seen'
  BY <1>1, <1>3, <1>4, SeenStays DEF CameraOk
<1>9. QED
  BY <1>5, <1>6, <1>7, <1>8 DEF CameraOk

LEMMA AbortOk ==
  ASSUME CameraInv, CameraOk, NEW i \in C!Ids, C!gotAbort(i)
  PROVE  CameraOk'
<1>1. /\ C!findUpMedia(i) /\ C!close({i})
      /\ UNCHANGED <<sc, open, ids, chain, version, button, left>>
  BY DEF C!gotAbort, C!page
<1>2. {i} \subseteq C!Up
  BY <1>1 DEF C!findUpMedia, C!UpOf
<1>3. /\ C!Up' = C!Up \ {i} /\ C!Up' \subseteq C!Up /\ \A j \in C!Ids : Alike(strm'[j], strm[j])
      /\ live' = C!CloseLive(live, strm, {i})
  BY <1>1, CloseDoes DEF C!close
<1>4. StreamsOk'
  BY <1>1, <1>3, StreamsFewer DEF CameraOk, StreamsOk, Alike
<1>5. OpsOk'
  BY <1>1, <1>3, OpsSame DEF CameraOk, Alike
<1>6. ServerOk'
  BY <1>1, <1>2, ServerCloses DEF CameraOk
<1>7. Seen'
  BY <1>1, <1>3, SeenCloses DEF CameraOk
<1>8. QED
  BY <1>4, <1>5, <1>6, <1>7 DEF CameraOk

(* With the connection every stream goes, and no operation is current.     *)
LEMMA EndsOk ==
  ASSUME CameraInv, CameraOk, NEW keep \in BOOLEAN, C!ConnectionEnds(keep)
  PROVE  CameraOk'
<1>1. /\ strm' = C!Closed(strm, C!Up) /\ live' = C!CloseLive(live, strm, C!Up)
      /\ version' = version + 1 /\ open' = FALSE
      /\ server' = {} /\ lost' = {} /\ UNCHANGED <<ids, chain, button, left>>
  BY UpIs DEF C!ConnectionEnds, CameraOk
<1>2. C!Up' = C!Up \ C!Up /\ C!Up' = {} /\ \A i \in C!Ids : Alike(strm'[i], strm[i])
  BY <1>1, CloseDoes
<1>3. StreamsOk'
  BY <1>1, <1>2 DEF CameraOk, StreamsOk, Alike, C!Ids
<1>4. OpsOk'
  <2>1. ASSUME NEW k \in 1..Len(chain)
        PROVE  chain[k].token <= version' /\ chain[k].token # version'
    <3>1. chain[k].token <= version
      BY DEF CameraOk, OpsOk
    <3>2. chain[k].token \in Nat
      <4>1. chain \in Seq(Operation)
        BY DEF CameraInv, Lined
      <4>2. chain[k] \in Operation
        BY <4>1, ElementOfSeq
      <4>3. QED
        BY <4>2 DEF Operation
    <3>3. version \in Nat
      BY DEF CameraInv, CameraTyped
    <3>4. QED
      BY <1>1, <3>1, <3>2, <3>3
  <2>2. QED
    BY <1>1, <2>1 DEF OpsOk, Begun
<1>5. ServerOk'
  BY <1>1, <1>2 DEF CameraOk, ServerOk, Alike, C!Ids
<1>6. Seen'
  BY <1>1, <1>2, SeenCloses DEF CameraOk
<1>7. QED
  BY <1>3, <1>4, <1>5, <1>6 DEF CameraOk

LEMMA ConnectOk == CameraInv /\ CameraOk /\ C!serverConnect => CameraOk'
<1> SUFFICES ASSUME CameraInv, CameraOk, C!serverConnect PROVE CameraOk'
  OBVIOUS
<1>1. /\ open = FALSE /\ open' = TRUE /\ sc' = conns + 1
      /\ UNCHANGED <<strm, ids, live, chain, version, button, server, lost, left>>
  BY DEF C!serverConnect, CameraOk, StreamsOk
<1>2. C!Up = {} /\ C!Up' = C!Up
  BY <1>1, UpIs DEF CameraOk, C!Up, C!Ids
<1>3. sc' # C!None
  BY <1>1 DEF CameraInv, CameraTyped, C!None
<1>4. StreamsOk'
  BY <1>1, <1>2, <1>3 DEF CameraOk, StreamsOk, C!Ids
<1>5. OpsOk'
  BY <1>1 DEF CameraOk, OpsOk, Begun
<1>6. ServerOk'
  BY <1>1, <1>2 DEF CameraOk, ServerOk, Named, C!Ids
<1>7. Seen'
  BY <1>1, <1>2, SeenStays DEF CameraOk
<1>8. QED
  BY <1>4, <1>5, <1>6, <1>7 DEF CameraOk

LEMMA CameraOkStarts == C!Init => CameraOk
<1> SUFFICES ASSUME C!Init PROVE CameraOk
  OBVIOUS
<1>1. C!Up = {} /\ \A i \in C!Ids : strm[i] = C!NoStream
  BY DEF C!Init, C!Up, C!NoStream
<1>2. StreamsOk
  BY <1>1 DEF C!Init, StreamsOk, C!NoStream, C!None
<1>3. OpsOk
  BY DEF C!Init, OpsOk
<1>4. ServerOk /\ Seen
  BY <1>1 DEF C!Init, ServerOk, Seen, C!NoStream
<1>5. QED
  BY <1>2, <1>3, <1>4 DEF CameraOk

LEMMA CameraOkKeeps == CameraInv /\ CameraOk /\ C!Next => CameraOk'
<1> SUFFICES ASSUME CameraInv, CameraOk, C!Next PROVE CameraOk'
  OBVIOUS
<1>1. CASE C!Begin \/ C!Refused \/ C!TooLate
  BY <1>1, BeginOk, NotOpenedOk
<1>2. CASE \E filtered \in BOOLEAN : C!MediaOpened(filtered)
  BY <1>2, OpenedOk
<1>3. CASE \E s \in starts, ok \in BOOLEAN : C!FilterStarted(s[1], s[2], ok)
  BY <1>3, FilterOk
<1>4. CASE C!gotJoined
  <2>1. C!addLocalMedia(C!None) /\ open = TRUE /\ C!Up = {} /\ C!None \in Nat
    BY <1>4, UpIs DEF C!gotJoined, CameraOk, StreamsOk, C!None
  <2>2. QED
    BY <2>1, AddOk
<1>5. ASSUME NEW i \in C!Ids, C!replaceCameraStream(i) PROVE CameraOk'
  <2>1. C!addLocalMedia(strm[i].localId) /\ i \in C!Up
    BY <1>5 DEF C!replaceCameraStream, C!findUpMedia, C!UpOf
  <2>2. open = TRUE /\ \A j \in C!Up : j = i
    BY <2>1 DEF CameraOk, StreamsOk
  <2>3. strm[i].localId \in Nat
    BY DEF CameraInv, CameraTyped, UpStream
  <2>4. \A j \in C!Up : strm[j].localId = strm[i].localId
    BY <2>2
  <2>5. QED
    BY <2>1, <2>2, <2>3, <2>4, AddOk
<1>6. CASE \E i \in C!Ids, filtered \in BOOLEAN : C!replaceUpStream(i, filtered)
  BY <1>6, ReplaceOk
<1>7. CASE \/ \E granted, filtered \in BOOLEAN : C!TrackOpened(granted, filtered)
           \/ \E i \in C!Ids : C!stopCameraTrackInSession(i) \/ C!startCameraTrackInSession(i)
  BY <1>7, TrackOk, ButtonOk
<1>8. CASE \E i \in C!Ids : C!negotiate(i) \/ C!gotAbort(i)
  BY <1>8, NegotiateOk, AbortOk
<1>9. CASE C!disconnectConferenceNow \/ \E keep \in BOOLEAN : C!gotClose(keep)
  BY <1>9, EndsOk DEF C!disconnectConferenceNow, C!gotClose
<1>10. CASE C!serverConnect
  BY <1>10, ConnectOk
<1>11. QED
  BY <1>1, <1>2, <1>3, <1>4, <1>5, <1>6, <1>7, <1>8, <1>9, <1>10 DEF C!Next, C!Progress

(* The invariant is what the run checks.                                   *)
LEMMA CameraOkGives ==
  ASSUME CameraInv, CameraOk PROVE C!DevicesShown /\ C!OneCamera /\ C!ServerFollows
<1>1. C!UpOf(sc) = C!Up
  BY UpIs DEF CameraOk
<1>2. C!DevicesShown
  BY <1>1 DEF C!DevicesShown, CameraOk, Seen
<1>3. C!OneCamera
  <2>1. C!Cardinality(C!Up) = Cardinality(C!Up)
    BY Zenon DEF C!Cardinality, Cardinality
  <2>2. CASE C!Up = {}
    BY <2>1, <2>2, FS_EmptySet DEF C!OneCamera
  <2>3. ASSUME NEW i \in C!Up PROVE C!OneCamera
    <3>1. C!Up = {i}
      BY DEF CameraOk, StreamsOk
    <3>2. Cardinality({i}) = 1
      BY FS_Singleton
    <3>3. QED
      BY <2>1, <3>1, <3>2 DEF C!OneCamera
  <2>4. QED
    BY <2>2, <2>3
<1>4. C!ServerFollows
  <2>1. ASSUME NEW s \in server
        PROVE  s \in C!UpOf(sc) \cup {strm[i].replace : i \in C!UpOf(sc)}
                       \cup {chain[k].replaceId : k \in DOMAIN chain} \cup lost
    <3>1. Named(s)
      BY DEF CameraOk, ServerOk
    <3>2. chain # <<>> => 1 \in DOMAIN chain
      BY FirstIs, LenProperties DEF CameraInv, Lined
    <3>3. QED
      BY <1>1, <3>1, <3>2 DEF Named
  <2>2. QED
    BY <2>1 DEF C!ServerFollows
<1>5. QED
  BY <1>2, <1>3, <1>4

LEMMA CameraOkStill == CameraInv /\ CameraOk /\ UNCHANGED cameraVars => CameraOk'
BY DEF cameraVars, CameraOk, StreamsOk, OpsOk, Begun, ServerOk, Named, Seen, C!Up, C!Ids

(* For any number of streams, captures, operations and connections: the    *)
(* devices that run are those of a stream that the page sends or, after a  *)
(* late answer to the camera button, of one it has given up; the page sends*)
(* one camera at most; and a stream that the server keeps is sent, named by*)
(* an offer to come or an operation under way, or forgotten by an operation*)
(* that failed (addLocalMediaInternal, replaceUpStream, Stream.close).     *)
THEOREM CamerasAccounted ==
  Spec => [](C!DevicesShown /\ C!OneCamera /\ C!ServerFollows)
<1>1. Init => CameraInv /\ CameraOk
  BY CameraStarts, CameraOkStarts DEF Init
<1>2. CameraInv /\ CameraOk /\ [Next]_vars => CameraInv' /\ CameraOk'
  BY CameraSteps, CameraKeeps, CameraStill, CameraOkKeeps, CameraOkStill
<1>3. CameraInv /\ CameraOk => C!DevicesShown /\ C!OneCamera /\ C!ServerFollows
  BY CameraOkGives
<1>4. QED
  BY <1>1, <1>2, <1>3, PTL DEF Spec

-----------------------------------------------------------------------------
(* The recovery of a stream: beyond its first step, ICE has been restarted *)
(* since it last worked.                                                   *)
RestartFirst == step # 0 => restarts

(* Two conditions of every step, LastResort among them.                    *)
Measured ==
    /\ RestartFirst'
    /\ stalled' # stalled => restarts /\ (flow = "camera" => republished = "recent")

LEMMA RecoveryKeeps == RestartFirst /\ V!Next => Measured
<1> SUFFICES ASSUME RestartFirst, V!Next PROVE Measured
  OBVIOUS
<1> USE DEF RestartFirst, Measured
<1>1. ASSUME NEW status \in {"checking", "connected", "disconnected", "failed"},
             NEW poor \in BOOLEAN, V!Ice(status, poor)
      PROVE  Measured
  <2>1. stalled' = stalled /\ restarts' = (restarts /\ status # "connected")
    BY <1>1 DEF V!Ice
  <2>2. CASE status = "connected"
    BY <1>1, <2>1, <2>2 DEF V!Ice, V!handleTransportStatus, V!resetTransportRecovery
  <2>3. CASE status # "connected"
    <3>1. step' = step
      BY <1>1, <2>3 DEF V!Ice, V!handleTransportStatus
    <3>2. QED
      BY <2>1, <2>3, <3>1
  <2>4. QED
    BY <2>2, <2>3
<1>2. ASSUME NEW poor \in BOOLEAN, V!Timer(poor) PROVE Measured
  <2>1. V!runTransportRecovery(poor)
    BY <1>2 DEF V!Timer
  <2>2. CASE V!resetTransportRecovery /\ UNCHANGED <<restarts, replacing, stalled>>
    BY <2>2 DEF V!resetTransportRecovery
  <2>3. CASE V!GiveUp \/ V!Wait
    BY <2>3 DEF V!GiveUp, V!Wait
  <2>4. CASE V!restartIce
    BY <2>4 DEF V!restartIce
  <2>5. CASE step # 0 /\ V!republish
    BY <2>5 DEF V!republish
  <2>6. CASE step # 0 /\ V!escalate
    BY <2>6 DEF V!escalate
  <2>7. QED
    BY <2>1, <2>2, <2>3, <2>4, <2>5, <2>6 DEF V!runTransportRecovery
<1>3. CASE V!Cool \/ V!RepublishCool \/ V!RepublishFails
  BY <1>3 DEF V!Cool, V!RepublishCool, V!RepublishFails
<1>4. CASE V!Republished
  BY <1>4 DEF V!Republished
<1>5. QED
  BY <1>1, <1>2, <1>3, <1>4 DEF V!Next, V!Recovers

LEMMA RecoverySteps == [Next]_vars => V!Next \/ UNCHANGED recoveryVars
<1> SUFFICES ASSUME [Next]_vars PROVE V!Next \/ UNCHANGED recoveryVars
  OBVIOUS
<1>1. CASE UNCHANGED vars
  BY <1>1 DEF vars
<1>2. CASE Next /\ part # "recovery"
  BY <1>2 DEF Next, Others
<1>3. CASE Next /\ part = "recovery"
  BY <1>3 DEF Next, Runs
<1>4. QED
  BY <1>1, <1>2, <1>3

(* However often ICE fails, the connection is closed for a stream only     *)
(* after ICE was restarted on it since it last worked, and never while its *)
(* camera could still be published anew (runTransportRecovery, and the     *)
(* resets when ICE works again).                                           *)
THEOREM GivenUpLast == Spec => V!LastResort
<1>1. Init => RestartFirst
  BY DEF Init, V!Init, V!Fresh, RestartFirst
<1>2. RestartFirst /\ [Next]_vars => Measured
  <2>1. RestartFirst /\ UNCHANGED recoveryVars => Measured
    BY DEF recoveryVars, RestartFirst, Measured
  <2>2. QED
    BY <2>1, RecoverySteps, RecoveryKeeps
<1>3. RestartFirst /\ [Next]_vars => RestartFirst'
  BY <1>2 DEF Measured
<1>4. RestartFirst /\ [Next]_vars
        => [stalled' # stalled =>
              restarts /\ (flow = "camera" => republished = "recent")]_stalled
  BY <1>2 DEF Measured
<1>5. QED
  BY <1>1, <1>3, <1>4, PTL DEF Spec, V!LastResort
-----------------------------------------------------------------------------
(* The filters of the camera.  What a filter knows of its worker, and of   *)
(* being seen; once it is of the past, nothing brings it a worker, unless a*)
(* frame was awaited then.                                                 *)
VideoFilter == [timer : BOOLEAN, paused : BOOLEAN, worker : Nat,
                workerTimeouts : Nat, ended : BOOLEAN,
                of : {"nobody", "owner", "past"}]

FilterTyped ==
    /\ flt \in VideoFilter
    /\ wk \in [B!WorkerIds -> {"none", "new", "loaded"}]
    /\ visible \in BOOLEAN /\ unloading \in BOOLEAN

PastIsOver ==
    flt.of = "past" /\ ~outlived =>
        B!Alive = {} /\ flt.worker = 0 /\ drawing.at # "frame"

FollowsPage ==
    /\ unloading => visible
    /\ flt.of = "nobody" => ~flt.timer /\ ~flt.paused
    /\ flt.of = "owner" /\ owner = "open" /\ ~flt.ended /\ ~unloading =>
         flt.timer = visible /\ flt.paused = ~visible

FilterInv ==
    /\ FilterTyped /\ B!WorkersKnown /\ PastIsOver /\ FollowsPage
    /\ flt.of # "nobody" => starting.at = "no"

LEMMA FilterStarts == B!Init => FilterInv
<1> SUFFICES ASSUME B!Init PROVE FilterInv
  OBVIOUS
<1> USE DEF B!Init
<1>1. FilterTyped
  BY DEF FilterTyped, VideoFilter, B!Nobody
<1>2. B!WorkersKnown /\ PastIsOver
  BY DEF B!WorkersKnown, B!Alive, PastIsOver
<1>3. FollowsPage
  BY DEF FollowsPage
<1>4. QED
  BY <1>1, <1>2, <1>3, FilterTyped DEF FilterInv

LEMMA TerminateDoes ==
  ASSUME NEW ws \in [B!WorkerIds -> {"none", "new", "loaded"}], NEW w
  PROVE  /\ B!terminate(ws, w) \in [B!WorkerIds -> {"none", "new", "loaded"}]
         /\ \A v \in B!WorkerIds : B!terminate(ws, w)[v] # "none" =>
              v # w /\ ws[v] # "none"
BY DEF B!terminate

(* With the filter's own worker gone there is none: the new one is alone.  *)
LEMMA NewIsAlone ==
  ASSUME FilterTyped, B!WorkersKnown
  PROVE  LET made == B!NewWorker(wk, flt)
         IN /\ made.ws \in [B!WorkerIds -> {"none", "new", "loaded"}]
            /\ made.w \in Nat
            /\ \A v \in B!WorkerIds : made.ws[v] # "none" => v = made.w
<1> DEFINE rest == B!terminate(wk, flt.worker)
           w == CHOOSE v \in B!WorkerIds : rest[v] = "none"
<1>1. rest \in [B!WorkerIds -> {"none", "new", "loaded"}]
      /\ \A v \in B!WorkerIds : rest[v] = "none"
  BY TerminateDoes DEF FilterTyped, B!WorkersKnown, B!Alive
<1>2. w \in B!WorkerIds
  BY <1>1, FilterAssumption DEF B!FilterAssumption, B!WorkerIds
<1>3. w \in Nat
  BY <1>2 DEF B!WorkerIds
<1>4. B!NewWorker(wk, flt) = [ws |-> [rest EXCEPT ![w] = "new"], w |-> w]
  BY DEF B!NewWorker
<1> HIDE DEF rest, w
<1>5. QED
  BY <1>1, <1>2, <1>3, <1>4

(* An answer other than that of the timer is that of a worker that runs.   *)
LEMMA DoneIsAlive ==
  ASSUME NEW w, NEW what, "done" \in B!Answers(w, what)
  PROVE  w \in B!Alive
BY DEF B!Answers

(* What brings no worker keeps what is known of workers.                   *)
LEMMA NoneNew ==
  ASSUME FilterTyped, wk' \in [B!WorkerIds -> {"none", "new", "loaded"}],
         B!WorkersKnown,
         \A v \in B!WorkerIds : wk'[v] # "none" => wk[v] # "none" /\ v = flt'.worker
  PROVE  B!WorkersKnown' /\ (B!Alive = {} => B!Alive' = {})
BY DEF B!WorkersKnown, B!Alive

LEMMA RemoveKeeps ==
  ASSUME FilterInv, NEW r \in VideoFilter, NEW drawn, B!removeFilter(r, drawn),
         r.worker = flt.worker, r.of = "owner", flt.of = "owner",
         drawn.at # "frame" => drawing'.at # "frame",
         wk' = B!cleanup(wk, r), UNCHANGED <<starting, visible, unloading>>
  PROVE  FilterInv'
<1>1. flt' = [r EXCEPT !.timer = FALSE, !.paused = FALSE, !.worker = 0, !.of = "past"]
      /\ outlived' = (drawn.at = "frame")
  BY DEF B!removeFilter, B!stop, B!Nobody, VideoFilter
<1>2. flt' \in VideoFilter /\ flt'.of = "past" /\ flt'.worker = 0
  BY <1>1 DEF VideoFilter
<1>3. /\ wk' \in [B!WorkerIds -> {"none", "new", "loaded"}]
      /\ \A v \in B!WorkerIds : wk'[v] = "none"
  BY TerminateDoes DEF B!cleanup, FilterInv, FilterTyped, B!WorkersKnown, B!Alive
<1>4. B!Alive' = {}
  BY <1>3 DEF B!Alive
<1>5. FilterTyped'
  BY <1>2, <1>3 DEF FilterInv, FilterTyped
<1>6. B!WorkersKnown'
  BY <1>4 DEF B!WorkersKnown
<1>7. PastIsOver'
  BY <1>1, <1>2, <1>4 DEF PastIsOver
<1>8. FollowsPage' /\ starting'.at = "no"
  BY <1>2 DEF FilterInv, FollowsPage
<1>9. QED
  BY <1>5, <1>6, <1>7, <1>8 DEF FilterInv

(* The end of start: the filter is its owner's, and the page's.            *)
LEMMA StartedKeeps ==
  ASSUME FilterInv, flt.of = "nobody", NEW r \in VideoFilter, B!Started(r),
         r.worker = flt.worker, r.timer = flt.timer, r.paused = flt.paused,
         r.ended = flt.ended, UNCHANGED <<owner, visible, unloading>>,
         wk' = wk \/ \E w \in B!Alive : wk' = [wk EXCEPT ![w] = "loaded"]
  PROVE  FilterInv'
<1>1. /\ flt' = IF visible THEN [r EXCEPT !.timer = TRUE, !.of = "owner"]
                ELSE [r EXCEPT !.paused = TRUE, !.of = "owner"]
      /\ starting'.at = "no"
  BY DEF B!Started, B!startTimer, B!Idling, B!Awaiting, VideoFilter
<1>2. flt' \in VideoFilter /\ flt'.of = "owner" /\ flt'.worker = flt.worker
  BY <1>1 DEF VideoFilter
<1>3. wk' \in [B!WorkerIds -> {"none", "new", "loaded"}] /\ B!Alive' \subseteq B!Alive
  BY DEF FilterInv, FilterTyped, B!Alive
<1>4. FilterTyped' /\ B!WorkersKnown' /\ PastIsOver'
  BY <1>2, <1>3 DEF FilterInv, FilterTyped, B!WorkersKnown, PastIsOver
<1>5. CASE visible
  <2>1. flt'.timer = TRUE /\ flt'.paused = FALSE /\ visible' = TRUE
    BY <1>1, <1>5 DEF VideoFilter, FilterInv, FilterTyped, FollowsPage
  <2>2. FollowsPage'
    BY <1>2, <2>1 DEF FollowsPage
  <2>3. QED
    BY <1>1, <1>4, <2>2 DEF FilterInv
<1>6. CASE ~visible
  <2>1. /\ flt'.timer = FALSE /\ flt'.paused = TRUE /\ visible' = FALSE
        /\ unloading' = FALSE
    BY <1>1, <1>6 DEF VideoFilter, FilterInv, FilterTyped, FollowsPage
  <2>2. FollowsPage'
    BY <1>2, <2>1 DEF FollowsPage
  <2>3. QED
    BY <1>1, <1>4, <2>2 DEF FilterInv
<1>7. QED
  BY <1>5, <1>6

(* What changes the worker and nothing else of a filter that is not past,  *)
(* or awaits a frame.                                                      *)
LEMMA WorkerKeeps ==
  ASSUME FilterInv, NEW w \in Nat, NEW late \in Nat,
         flt' = [flt EXCEPT !.worker = w, !.workerTimeouts = late],
         wk' \in [B!WorkerIds -> {"none", "new", "loaded"}],
         \A v \in B!WorkerIds : wk'[v] # "none" => v = w,
         starting'.at = "no" \/ flt.of = "nobody",
         flt.of = "past" /\ ~outlived =>
            /\ \A v \in B!WorkerIds : wk'[v] = "none"
            /\ w = 0 /\ drawing'.at # "frame",
         UNCHANGED <<owner, visible, unloading, outlived>>
  PROVE  FilterInv'
<1>1. /\ flt' \in VideoFilter /\ flt'.worker = w /\ flt'.of = flt.of
      /\ flt'.ended = flt.ended
      /\ flt'.timer = flt.timer /\ flt'.paused = flt.paused
  BY DEF FilterInv, FilterTyped, VideoFilter
<1>2. FilterTyped'
  BY <1>1 DEF FilterInv, FilterTyped
<1>3. B!WorkersKnown'
  BY <1>1 DEF B!WorkersKnown, B!Alive
<1>4. PastIsOver'
  BY <1>1 DEF PastIsOver, B!Alive
<1>5. FollowsPage'
  BY <1>1 DEF FilterInv, FollowsPage
<1>6. QED
  BY <1>1, <1>2, <1>3, <1>4, <1>5 DEF FilterInv

LEMMA GivenUpKeeps ==
  ASSUME FilterInv, NEW w, B!GivenUp(w),
         starting'.at = "no" \/ flt.of = "nobody", drawing'.at # "frame" \/ UNCHANGED drawing,
         UNCHANGED <<owner, visible, unloading, outlived>>
  PROVE  FilterInv'
<1> DEFINE after == IF flt.worker = w THEN 0 ELSE flt.worker
<1>1. /\ after \in Nat /\ flt.workerTimeouts \in Nat
      /\ flt' = [flt EXCEPT !.worker = after, !.workerTimeouts = flt.workerTimeouts]
  BY DEF B!GivenUp, B!Nobody, FilterInv, FilterTyped, VideoFilter
<1>2. /\ wk' \in [B!WorkerIds -> {"none", "new", "loaded"}]
      /\ \A v \in B!WorkerIds : wk'[v] # "none" => v # w /\ wk[v] # "none"
  BY TerminateDoes DEF B!GivenUp, FilterInv, FilterTyped
<1>3. \A v \in B!WorkerIds : wk'[v] # "none" => v = after
  BY <1>2 DEF FilterInv, B!WorkersKnown, B!Alive
<1>4. flt.of = "past" /\ ~outlived =>
         /\ \A v \in B!WorkerIds : wk'[v] = "none"
         /\ after = 0 /\ drawing'.at # "frame"
  BY <1>2 DEF FilterInv, PastIsOver, B!Alive
<1> HIDE DEF after
<1>5. QED
  BY <1>1, <1>2, <1>3, <1>4, WorkerKeeps

(* A filter that was paused or resumed follows the page, if its owner is   *)
(* open; the page seen, or about to be left, is another one.               *)
LEMMA ShownKeeps ==
  ASSUME FilterInv, B!visibilitychange \/ B!beginPageTransitionDisconnect
  PROVE  FilterInv'
<1>1. UNCHANGED <<owner, wk, starting, drawing, outlived>>
  BY DEF B!visibilitychange, B!beginPageTransitionDisconnect
<1>2. /\ flt' \in VideoFilter
      /\ flt'.of = flt.of /\ flt'.worker = flt.worker /\ flt'.ended = flt.ended
      /\ flt.of # "owner" => flt' = flt
  <2>1. flt \in VideoFilter
    BY DEF FilterInv, FilterTyped
  <2>2. \/ flt' = flt
        \/ flt.of = "owner" /\ flt' \in {B!pause(flt), B!resume(flt)}
    BY DEF B!visibilitychange, B!beginPageTransitionDisconnect, B!setFiltersPaused
  <2>3. \A r \in {B!pause(flt), B!resume(flt)} :
           /\ r \in VideoFilter
           /\ r.of = flt.of /\ r.worker = flt.worker /\ r.ended = flt.ended
    <3>1. [flt EXCEPT !.timer = FALSE, !.paused = TRUE] \in VideoFilter
      BY <2>1 DEF VideoFilter
    <3>2. [flt EXCEPT !.paused = FALSE, !.timer = TRUE] \in VideoFilter
      BY <2>1 DEF VideoFilter
    <3>3. QED
      BY <2>1, <3>1, <3>2 DEF B!pause, B!resume, VideoFilter
  <2>4. QED
    BY <2>1, <2>2, <2>3
<1>3. visible' \in BOOLEAN /\ unloading' \in BOOLEAN
  BY DEF B!visibilitychange, B!beginPageTransitionDisconnect, FilterInv, FilterTyped
<1>4. FilterTyped' /\ B!WorkersKnown' /\ PastIsOver'
  BY <1>1, <1>2, <1>3 DEF FilterInv, FilterTyped, B!WorkersKnown, B!Alive, PastIsOver
<1>5. unloading' => visible'
  BY DEF B!visibilitychange, B!beginPageTransitionDisconnect
<1>6. flt'.of = "nobody" => ~flt'.timer /\ ~flt'.paused
  BY <1>2 DEF FilterInv, FollowsPage
<1>7. ASSUME flt.of = "owner", owner = "open", ~flt.ended, ~unloading'
      PROVE  flt'.timer = visible' /\ flt'.paused = ~visible'
  <2>1. B!visibilitychange
    BY <1>7 DEF B!beginPageTransitionDisconnect
  <2>2. CASE visible
    <3>1. flt' = B!pause(flt) /\ visible' = FALSE
      BY <1>7, <2>1, <2>2 DEF B!visibilitychange, B!setFiltersPaused
    <3>2. flt'.timer = FALSE /\ flt'.paused = TRUE
      BY <3>1 DEF B!pause, FilterInv, FilterTyped, VideoFilter
    <3>3. QED
      BY <3>1, <3>2
  <2>3. CASE ~visible
    <3>1. flt' = B!resume(flt) /\ visible' = TRUE
      BY <1>7, <2>1, <2>3 DEF B!visibilitychange, B!setFiltersPaused
    <3>2. ~flt.timer /\ flt.paused
      BY <1>7, <2>3 DEF FilterInv, FilterTyped, FollowsPage
    <3>3. flt'.timer = TRUE /\ flt'.paused = FALSE
      BY <3>1, <3>2 DEF B!resume, FilterInv, FilterTyped, VideoFilter
    <3>4. QED
      BY <3>1, <3>3
  <2>4. QED
    BY <2>2, <2>3
<1>8. FollowsPage'
  BY <1>1, <1>2, <1>5, <1>6, <1>7 DEF FollowsPage
<1>9. QED
  BY <1>1, <1>2, <1>4, <1>8 DEF FilterInv

LEMMA FrameKeeps ==
  ASSUME FilterInv, NEW answer, B!Answered(answer)
  PROVE  FilterInv'
<1>1. /\ drawing.at = "frame" /\ UNCHANGED <<owner, starting, visible, unloading>>
      /\ flt.of = "past" => outlived
      /\ flt \in VideoFilter /\ flt.workerTimeouts + 1 \in Nat
      /\ starting.at = "no" \/ flt.of = "nobody"
  BY DEF B!Answered, FilterInv, PastIsOver, FilterTyped, VideoFilter
<1>2. CASE answer # "timeout"
  <2>1. UNCHANGED <<flt, wk, outlived>>
    BY <1>2 DEF B!Answered
  <2>2. QED
    BY <1>1, <2>1 DEF FilterInv, FilterTyped, B!WorkersKnown, B!Alive, PastIsOver,
                      FollowsPage
<1>3. CASE answer = "timeout" /\ flt.workerTimeouts + 1 >= 2
  <2> DEFINE r == [flt EXCEPT !.workerTimeouts = 2]
  <2>1. drawing'.at = "no" /\ B!fallbackFilterForPerformance(r)
    BY <1>3 DEF B!Answered, B!restartSegmentationWorker, B!Idling, B!Awaiting
  <2>2. r \in VideoFilter /\ r.worker = flt.worker /\ r.of = flt.of
    BY <1>1 DEF VideoFilter
  <2>3. CASE r.of = "owner" /\ owner = "open"
    <3>1. B!removeFilter(r, B!Idling) /\ wk' = B!cleanup(wk, r)
      BY <2>1, <2>3 DEF B!fallbackFilterForPerformance
    <3>2. QED
      BY <1>1, <2>1, <2>2, <2>3, <3>1, RemoveKeeps
  <2>4. CASE ~(r.of = "owner" /\ owner = "open")
    <3>1. flt' = r /\ UNCHANGED <<wk, outlived>>
      BY <2>1, <2>4 DEF B!fallbackFilterForPerformance
    <3>2. flt' = [flt EXCEPT !.worker = flt.worker, !.workerTimeouts = 2]
      BY <1>1, <3>1 DEF VideoFilter
    <3>3. /\ wk' \in [B!WorkerIds -> {"none", "new", "loaded"}] /\ flt.worker \in Nat
          /\ \A v \in B!WorkerIds : wk'[v] # "none" => v = flt.worker
      BY <1>1, <3>1 DEF FilterInv, FilterTyped, B!WorkersKnown, B!Alive, VideoFilter
    <3>4. QED
      BY <1>1, <3>1, <3>2, <3>3, WorkerKeeps
  <2>5. QED
    BY <2>3, <2>4
<1>4. CASE answer = "timeout" /\ ~(flt.workerTimeouts + 1 >= 2)
  <2> DEFINE made == B!NewWorker(wk, flt)
  <2>1. /\ wk' = made.ws
        /\ flt' = [flt EXCEPT !.worker = made.w,
                              !.workerTimeouts = flt.workerTimeouts + 1]
        /\ outlived' = outlived
    BY <1>4 DEF B!Answered, B!restartSegmentationWorker
  <2>2. /\ made.ws \in [B!WorkerIds -> {"none", "new", "loaded"}]
        /\ made.w \in Nat
        /\ \A v \in B!WorkerIds : made.ws[v] # "none" => v = made.w
    BY NewIsAlone DEF FilterInv
  <2> HIDE DEF made
  <2>3. QED
    BY <1>1, <2>1, <2>2, WorkerKeeps
<1>5. QED
  BY <1>2, <1>3, <1>4

LEMMA StartKeeps ==
  ASSUME FilterInv, NEW answer,
         B!Played \/ B!loadBackgroundImage \/ B!Initialised(answer)
  PROVE  FilterInv'
<1>1. /\ flt.of = "nobody" /\ flt \in VideoFilter
      /\ UNCHANGED <<owner, drawing, visible, unloading, outlived>>
      /\ [flt EXCEPT !.workerTimeouts = 0] \in VideoFilter
  <2>1. flt.of = "nobody" /\ flt \in VideoFilter
    BY DEF B!Played, B!loadBackgroundImage, B!Initialised, FilterInv, FilterTyped
  <2>2. [flt EXCEPT !.workerTimeouts = 0] \in VideoFilter
    BY <2>1 DEF VideoFilter
  <2>3. UNCHANGED <<owner, drawing, visible, unloading, outlived>>
    BY DEF B!Played, B!loadBackgroundImage, B!Initialised
  <2>4. QED
    BY <2>1, <2>2, <2>3
<1>2. CASE B!loadBackgroundImage \/ (B!Played /\ definition = "plain")
  <2>1. B!Started(flt) /\ wk' = wk
    BY <1>2 DEF B!loadBackgroundImage, B!Played
  <2>2. QED
    BY <1>1, <2>1, StartedKeeps
<1>3. CASE B!Played /\ definition # "plain"
  <2> DEFINE made == B!NewWorker(wk, flt)
  <2>1. wk' = made.ws /\ flt' = [flt EXCEPT !.worker = made.w]
    BY <1>3 DEF B!Played
  <2>2. /\ made.ws \in [B!WorkerIds -> {"none", "new", "loaded"}]
        /\ made.w \in Nat
        /\ \A v \in B!WorkerIds : made.ws[v] # "none" => v = made.w
    BY NewIsAlone DEF FilterInv
  <2> HIDE DEF made
  <2>3. /\ flt.workerTimeouts \in Nat
        /\ flt' = [flt EXCEPT !.worker = made.w, !.workerTimeouts = flt.workerTimeouts]
    BY <1>1, <2>1 DEF VideoFilter
  <2>4. QED
    BY <1>1, <2>1, <2>2, <2>3, WorkerKeeps
<1>4. CASE B!Initialised(answer) /\ answer # "done"
  <2>1. B!GivenUp(starting.worker)
    BY <1>4 DEF B!Initialised
  <2>2. QED
    BY <1>1, <2>1, GivenUpKeeps
<1>5. CASE B!Initialised(answer) /\ answer = "done"
  <2>1. starting.worker \in B!Alive /\ wk' = [wk EXCEPT ![starting.worker] = "loaded"]
    BY <1>5, DoneIsAlive DEF B!Initialised
  <2>2. CASE definition = "background-replace"
    <3>1. flt' = [flt EXCEPT !.workerTimeouts = 0]
      BY <1>5, <2>2 DEF B!Initialised
    <3>2. flt.worker \in Nat /\ flt' = [flt EXCEPT !.worker = flt.worker, !.workerTimeouts = 0]
      BY <1>1, <3>1 DEF VideoFilter
    <3>3. /\ wk' \in [B!WorkerIds -> {"none", "new", "loaded"}]
          /\ \A v \in B!WorkerIds : wk'[v] # "none" => v = flt.worker
      BY <2>1 DEF FilterInv, FilterTyped, B!WorkersKnown, B!Alive
    <3>4. QED
      BY <1>1, <3>2, <3>3, WorkerKeeps
  <2>3. CASE definition # "background-replace"
    <3> DEFINE r == [flt EXCEPT !.workerTimeouts = 0]
    <3>1. B!Started(r)
      BY <1>5, <2>3 DEF B!Initialised
    <3>2. /\ r \in VideoFilter /\ r.worker = flt.worker /\ r.timer = flt.timer
          /\ r.paused = flt.paused /\ r.ended = flt.ended
      BY <1>1 DEF VideoFilter
    <3> HIDE DEF r
    <3>3. QED
      BY <1>1, <2>1, <3>1, <3>2, StartedKeeps
  <2>4. QED
    BY <2>2, <2>3
<1>6. QED
  BY <1>2, <1>3, <1>4, <1>5

LEMMA RestartedKeeps ==
  ASSUME FilterInv, NEW answer, B!Restarted(answer)
  PROVE  FilterInv'
<1>1. /\ drawing'.at = "no" /\ UNCHANGED <<owner, starting, visible, unloading, outlived>>
      /\ starting'.at = "no" \/ flt.of = "nobody"
      /\ flt \in VideoFilter
  BY DEF B!Restarted, B!Idling, B!Awaiting, FilterInv, FilterTyped
<1>2. CASE answer # "done"
  <2>1. B!GivenUp(drawing.worker)
    BY <1>2 DEF B!Restarted
  <2>2. QED
    BY <1>1, <2>1, GivenUpKeeps
<1>3. CASE answer = "done"
  <2>1. /\ drawing.worker \in B!Alive /\ wk' = [wk EXCEPT ![drawing.worker] = "loaded"]
        /\ flt' = [flt EXCEPT !.workerTimeouts = 0]
    BY <1>3, DoneIsAlive DEF B!Restarted
  <2>2. flt.worker \in Nat /\ flt' = [flt EXCEPT !.worker = flt.worker, !.workerTimeouts = 0]
    BY <1>1, <2>1 DEF VideoFilter
  <2>3. /\ wk' \in [B!WorkerIds -> {"none", "new", "loaded"}]
        /\ \A v \in B!WorkerIds : wk'[v] # "none" => v = flt.worker
        /\ ~(flt.of = "past" /\ ~outlived)
    BY <2>1 DEF FilterInv, FilterTyped, B!WorkersKnown, B!Alive, PastIsOver
  <2>4. QED
    BY <1>1, <2>2, <2>3, WorkerKeeps
<1>4. QED
  BY <1>2, <1>3

LEMMA DrawKeeps ==
  ASSUME FilterInv, B!draw \/ \E ok \in BOOLEAN : B!createImageBitmap(ok)
  PROVE  FilterInv'
<1>1. UNCHANGED <<owner, flt, wk, starting, visible, unloading, outlived>>
  BY DEF B!draw, B!createImageBitmap
<1>2. drawing'.at = "frame" => flt.worker # 0
  BY DEF B!draw, B!createImageBitmap, B!Idling, B!Awaiting, B!Nobody
<1>3. PastIsOver'
  BY <1>1, <1>2 DEF FilterInv, PastIsOver, B!Alive
<1>4. QED
  BY <1>1, <1>3 DEF FilterInv, FilterTyped, B!WorkersKnown, B!Alive, FollowsPage

LEMMA EndKeeps ==
  ASSUME FilterInv, B!TrackEnded \/ \E closes \in BOOLEAN : B!Remove(closes)
  PROVE  FilterInv'
<1>1. CASE B!TrackEnded
  <2>1. /\ flt' = [flt EXCEPT !.timer = FALSE, !.paused = FALSE, !.worker = 0, !.ended = TRUE]
        /\ flt.of # "past"
        /\ UNCHANGED <<owner, starting, drawing, visible, unloading, outlived>>
    BY <1>1 DEF B!TrackEnded, B!stop, B!Nobody, FilterInv, FilterTyped, VideoFilter
  <2>2. /\ flt' \in VideoFilter /\ flt'.of = flt.of /\ flt'.worker = 0
        /\ flt'.ended = TRUE /\ flt'.timer = FALSE /\ flt'.paused = FALSE
    BY <2>1 DEF FilterInv, FilterTyped, VideoFilter
  <2>3. /\ wk' \in [B!WorkerIds -> {"none", "new", "loaded"}]
        /\ \A v \in B!WorkerIds : wk'[v] = "none"
    BY <1>1, TerminateDoes DEF B!TrackEnded, B!cleanup, FilterInv, FilterTyped,
                               B!WorkersKnown, B!Alive
  <2>4. FilterTyped' /\ B!WorkersKnown' /\ PastIsOver'
    BY <2>1, <2>2, <2>3 DEF FilterInv, FilterTyped, B!WorkersKnown, B!Alive, PastIsOver
  <2>5. FollowsPage'
    BY <2>1, <2>2 DEF FilterInv, FollowsPage
  <2>6. QED
    BY <2>1, <2>2, <2>4, <2>5 DEF FilterInv
<1>2. ASSUME NEW closes \in BOOLEAN, B!Remove(closes), flt.of = "owner"
      PROVE  FilterInv'
  <2>1. /\ B!removeFilter(flt, drawing) /\ wk' = B!cleanup(wk, flt)
        /\ UNCHANGED <<starting, drawing, visible, unloading>>
    BY <1>2 DEF B!Remove
  <2>2. QED
    BY <1>2, <2>1, RemoveKeeps DEF FilterInv, FilterTyped
<1>3. ASSUME NEW closes \in BOOLEAN, B!Remove(closes), flt.of # "owner"
      PROVE  FilterInv'
  <2>1. UNCHANGED <<flt, wk, outlived, starting, drawing, visible, unloading>>
    BY <1>3 DEF B!Remove
  <2>2. QED
    BY <1>3, <2>1 DEF FilterInv, FilterTyped, B!WorkersKnown, B!Alive, PastIsOver,
                      FollowsPage
<1>4. QED
  BY <1>1, <1>2, <1>3

LEMMA FilterKeepsInv == FilterInv /\ B!Next => FilterInv'
<1> SUFFICES ASSUME FilterInv, B!Next PROVE FilterInv'
  OBVIOUS
<1>1. CASE B!Progress
  BY <1>1, StartKeeps, DrawKeeps, FrameKeeps, RestartedKeeps DEF B!Progress
<1>2. CASE B!draw
  BY <1>2, DrawKeeps
<1>3. CASE B!TrackEnded \/ \E closes \in BOOLEAN : B!Remove(closes)
  BY <1>3, EndKeeps
<1>4. CASE B!visibilitychange \/ B!beginPageTransitionDisconnect
  BY <1>4, ShownKeeps
<1>5. QED
  BY <1>1, <1>2, <1>3, <1>4 DEF B!Next

LEMMA FilterStill == FilterInv /\ UNCHANGED filterVars => FilterInv'
BY DEF filterVars, FilterInv, FilterTyped, B!WorkersKnown, B!Alive, PastIsOver,
       FollowsPage

LEMMA FilterSteps == [Next]_vars => B!Next \/ UNCHANGED filterVars
<1> SUFFICES ASSUME [Next]_vars PROVE B!Next \/ UNCHANGED filterVars
  OBVIOUS
<1>1. CASE UNCHANGED vars
  BY <1>1 DEF vars
<1>2. CASE Next /\ part # "filter"
  BY <1>2 DEF Next, Others
<1>3. CASE Next /\ part = "filter"
  BY <1>3 DEF Next, Runs
<1>4. QED
  BY <1>1, <1>2, <1>3

(* However starts, answers, timers, ends and the page's visibility come, a *)
(* filter has one worker at most, which it knows; once removed it has none,*)
(* but for one whose frame was awaited; and in use it draws exactly while  *)
(* the page is seen (createSegmentationWorker, stop, setFiltersPaused).    *)
THEOREM FiltersAccounted ==
  Spec => [](B!WorkersKnown /\ B!WorkersEnd /\ B!RunsWhenSeen)
<1>1. Init => FilterInv
  BY FilterStarts DEF Init
<1>2. FilterInv /\ [Next]_vars => FilterInv'
  BY FilterSteps, FilterStill, FilterKeepsInv
<1>3. FilterInv => B!WorkersKnown /\ B!WorkersEnd /\ B!RunsWhenSeen
  BY DEF FilterInv, PastIsOver, FollowsPage, B!WorkersEnd, B!RunsWhenSeen
<1>4. QED
  BY <1>1, <1>2, <1>3, PTL DEF Spec

(* What the run checks of the camera and its filters, both together.       *)
THEOREM CameraAndFilters == Spec => []Camera_Accounted
BY CamerasAccounted, FiltersAccounted, PTL DEF Camera_Accounted

-----------------------------------------------------------------------------
(* What is received and sent.                                              *)

(* A step of the parts is one of ReceiveRate, or leaves it alone.          *)
LEMMA ReceivingSteps == [Next]_vars => [D!Next]_receivingVars
<1> SUFFICES ASSUME [Next]_vars PROVE [D!Next]_receivingVars
  OBVIOUS
<1> HIDE DEF receivingVars
<1>1. CASE UNCHANGED vars
  BY <1>1 DEF vars
<1>2. CASE Next /\ part # "receiving"
  BY <1>2 DEF Next, Others
<1>3. CASE Next /\ part = "receiving"
  BY <1>3 DEF Next, Runs
<1>4. QED
  BY <1>1, <1>2, <1>3

LEMMA SendingSteps == [Next]_vars => [S!Next]_sendingVars
<1> SUFFICES ASSUME [Next]_vars PROVE [S!Next]_sendingVars
  OBVIOUS
<1>1. CASE UNCHANGED vars
  BY <1>1 DEF vars
<1>2. CASE Next /\ part # "sending"
  BY <1>2 DEF Next, Others
<1>3. CASE Next /\ part = "sending"
  BY <1>3 DEF Next, Runs
<1>4. QED
  BY <1>1, <1>2, <1>3

-----------------------------------------------------------------------------
(* What is received.                                                       *)

Normal(choice) == D!mapRequest(choice)[label]
Media == {"audio", "video", "video-low"}

LEMMA ChoiceMaps ==
  ASSUME NEW choice \in D!Choices, label \in {"camera", "screenshare"}
  PROVE  Normal(choice) \subseteq Media
<1> USE DEF Normal, D!mapRequest, Media
<1>1. CASE choice = ""
  <2>1. D!mapRequest("").camera = {} /\ D!mapRequest("").screenshare = {}
    OBVIOUS
  <2>2. Normal("") = {}
    BY <2>1
  <2>3. QED
    BY <1>1, <2>2
<1>2. CASE choice = "audio"
  BY <1>2
<1>3. CASE choice = "screenshare"
  BY <1>3
<1>4. CASE choice = "everything-low"
  BY <1>4
<1>5. CASE choice = "everything"
  BY <1>5
<1>6. QED
  BY <1>1, <1>2, <1>3, <1>4, <1>5 DEF D!Choices

(* A request is for something without a full video, or there is none.      *)
LEMMA LowHasNoVideo ==
  ASSUME NEW tracks \in SUBSET Media
  PROVE  /\ "video" \notin D!mapVideoToLow(tracks)
         /\ D!mapVideoToLow(tracks) \subseteq Media
         /\ D!mapVideoToLow(tracks) # D!NoRequest
<1>1. \A t \in D!mapVideoToLow(tracks) : t \in {"audio", "video-low"}
  BY DEF D!mapVideoToLow, Media
<1>2. "none" \in D!NoRequest
  BY DEF D!NoRequest
<1>3. D!mapVideoToLow(tracks) # D!NoRequest
  BY <1>1, <1>2
<1>4. QED
  BY <1>1, <1>3 DEF Media

(* The full video is sent only for want of a request, and when it is the   *)
(* choice; what is sent since the page last asked is what it asked for; a  *)
(* page with nothing to reconsider is as it wishes, or has no video.       *)
Receiving ==
    /\ label \in {"camera", "screenshare"} /\ request \in D!Choices
    /\ small \in BOOLEAN /\ low \in {"absent", "yes", "no"}
    /\ sends \subseteq Media
    /\ requested = D!NoRequest \/ (requested \subseteq Media /\ "video" \notin requested)
    /\ D!RequestsAgree
    /\ "video" \in sends => requested = D!NoRequest /\ "video" \in Normal(request)
    /\ ~unasked => sends = {} \/ sends = D!Tracks(requested, request)
    /\ ~reconsidering => sends = {} \/ "video" \notin Normal(request) \/ D!AsWished

LEMMA ReceivingStarts == D!Init => Receiving
<1> SUFFICES ASSUME D!Init PROVE Receiving
  OBVIOUS
<1>1. /\ label \in {"camera", "screenshare"} /\ request \in D!Choices
      /\ small \in BOOLEAN /\ low = "absent" /\ requested = D!NoRequest
      /\ sends = Normal(request) /\ reconsidering
  BY DEF D!Init, Normal
<1>2. sends \subseteq Media
  BY <1>1, ChoiceMaps DEF Media
<1>3. QED
  BY <1>1, <1>2 DEF Receiving, D!RequestsAgree, D!Tracks, Normal

(* What a request, or the choice for want of one, makes the server send.   *)
LEMMA TracksAre ==
  ASSUME NEW req, NEW choice \in D!Choices, label \in {"camera", "screenshare"},
         req = D!NoRequest \/ (req \subseteq Media /\ "video" \notin req)
  PROVE  /\ D!Tracks(req, choice) \subseteq Media
         /\ "video" \in D!Tracks(req, choice)
              => req = D!NoRequest /\ "video" \in Normal(choice)
BY ChoiceMaps DEF D!Tracks, Normal, Media

(* The page reconsiders, while the server sends something that the         *)
(* invariant allows.                                                       *)
LEMMA Reconsiders ==
  ASSUME Receiving, NEW choice \in D!Choices, NEW sent \in SUBSET Media,
         D!reconsiderDownRate(choice, sent),
         "video" \in sent => requested = D!NoRequest /\ "video" \in Normal(choice),
         ~unasked => sent = {} \/ sent = D!Tracks(requested, choice),
         label' = label, small' = small, request' = choice
  PROVE  Receiving'
<1>a. /\ label \in {"camera", "screenshare"} /\ small \in BOOLEAN
      /\ low \in {"absent", "yes", "no"} /\ D!RequestsAgree
      /\ requested = D!NoRequest \/ (requested \subseteq Media /\ "video" \notin requested)
  BY DEF Receiving
<1>b. Normal(request)' = Normal(choice)
  BY DEF Normal, D!mapRequest
<1>1. CASE sent = {} \/ "video" \notin Normal(choice) \/ D!AsWished
  <2>1. sends' = sent /\ UNCHANGED <<requested, low, unasked>>
    BY <1>1 DEF D!reconsiderDownRate, Normal
  <2>2. D!Tracks(requested, request)' = D!Tracks(requested, choice)
    BY <2>1, <1>b DEF D!Tracks, Normal
  <2>3. D!AsWished' = D!AsWished /\ D!RequestsAgree' = D!RequestsAgree
    BY <2>1 DEF D!AsWished, D!RequestsAgree, D!NoRequest
  <2>4. QED
    BY <1>a, <1>b, <1>1, <2>1, <2>2, <2>3 DEF Receiving
<1>2. CASE ~(sent = {} \/ "video" \notin Normal(choice) \/ D!AsWished)
  <2>1. /\ low' = IF small THEN "yes" ELSE "no"
        /\ requested' = IF small THEN D!mapVideoToLow(Normal(choice)) ELSE D!NoRequest
        /\ sends' = D!Tracks(requested', choice)
        /\ unasked' = FALSE
    BY <1>2 DEF D!reconsiderDownRate, Normal
  <2>2. requested' = D!NoRequest \/ (requested' \subseteq Media /\ "video" \notin requested')
    BY <1>a, <2>1, ChoiceMaps, LowHasNoVideo DEF Media
  <2>3. /\ sends' \subseteq Media
        /\ "video" \in sends' => requested' = D!NoRequest /\ "video" \in Normal(choice)
    BY <1>a, <2>1, <2>2, TracksAre
  <2>4. D!RequestsAgree'
    BY <1>a, <2>1, ChoiceMaps, LowHasNoVideo DEF D!RequestsAgree, D!NoRequest, Media
  <2>5. D!AsWished'
    BY <1>a, <2>1 DEF D!AsWished
  <2>6. D!Tracks(requested, request)' = D!Tracks(requested', choice)
    BY <1>b DEF D!Tracks, Normal, D!NoRequest
  <2>7. QED
    BY <1>a, <1>b, <2>1, <2>2, <2>3, <2>4, <2>5, <2>6 DEF Receiving, D!NoRequest
<1>3. QED
  BY <1>1, <1>2

LEMMA ReceivingKeeps == Receiving /\ [D!Next]_receivingVars => Receiving'
<1> SUFFICES ASSUME Receiving, [D!Next]_receivingVars PROVE Receiving'
  OBVIOUS
<1>a. /\ label \in {"camera", "screenshare"} /\ request \in D!Choices
      /\ requested = D!NoRequest \/ (requested \subseteq Media /\ "video" \notin requested)
  BY DEF Receiving
<1>1. ASSUME NEW choice \in D!Choices, D!requestselect(choice) PROVE Receiving'
  <2>0. request' = choice /\ label' = label /\ small' = small
    BY <1>1 DEF D!requestselect
  <2>1. CASE D!Tracks(requested, choice) = {}
    <3>1. sends' = {} /\ low' = "absent" /\ requested' = D!NoRequest /\ unasked' = FALSE
      BY <1>1, <2>1 DEF D!requestselect
    <3>2. QED
      BY <2>0, <3>1 DEF Receiving, D!RequestsAgree, D!NoRequest
  <2>2. CASE D!Tracks(requested, choice) # {}
    <3>1. D!reconsiderDownRate(choice, D!Tracks(requested, choice))
      BY <1>1, <2>2 DEF D!requestselect
    <3>2. /\ D!Tracks(requested, choice) \in SUBSET Media
          /\ "video" \in D!Tracks(requested, choice)
               => requested = D!NoRequest /\ "video" \in Normal(choice)
      BY <1>a, TracksAre
    <3>3. QED
      BY <2>0, <3>1, <3>2, Reconsiders
  <2>3. QED
    BY <2>1, <2>2
<1>2. CASE D!scheduleReconsiderDownRate
  BY <1>2 DEF D!scheduleReconsiderDownRate, Receiving, D!RequestsAgree, D!NoRequest,
              D!Tracks, Normal, D!mapRequest
<1>3. CASE D!ReconsiderTimer
  <2>1. /\ D!reconsiderDownRate(request, sends)
        /\ label' = label /\ small' = small /\ request' = request
    BY <1>3 DEF D!ReconsiderTimer
  <2>2. QED
    BY <2>1, Reconsiders DEF Receiving
<1>4. CASE D!pushDownConn
  <2>1. /\ sends' = D!Tracks(requested, request) /\ requested' = D!NoRequest
        /\ low' = "absent" /\ reconsidering' = TRUE /\ unasked' = TRUE
        /\ UNCHANGED <<label, request, small>>
    BY <1>4 DEF D!pushDownConn, D!NewRequest
  <2>2. /\ sends' \subseteq Media
        /\ "video" \in sends' => "video" \in Normal(request)
    BY <1>a, <2>1, TracksAre
  <2>3. Normal(request)' = Normal(request)
    BY <2>1 DEF Normal, D!mapRequest
  <2>4. QED
    BY <2>1, <2>2, <2>3 DEF Receiving, D!RequestsAgree, D!NoRequest
<1>5. CASE UNCHANGED receivingVars
  BY <1>5 DEF receivingVars, Receiving, D!RequestsAgree, D!NoRequest, D!Tracks,
              Normal, D!mapRequest, D!AsWished
<1>6. QED
  BY <1>1, <1>2, <1>3, <1>4, <1>5 DEF D!Next

-----------------------------------------------------------------------------
(* What is sent.                                                           *)

LEMMA MinOfTwo ==
  ASSUME NEW x \in Nat, NEW y \in Nat
  PROVE  S!Min({x, y}) = IF x <= y THEN x ELSE y
<1>1. S!Min({x, y}) = CHOOSE z \in {x, y} : \A w \in {x, y} : z <= w
  BY DEF S!Min
<1>2. \A z \in {x, y} : (\A w \in {x, y} : z <= w) <=> z = IF x <= y THEN x ELSE y
  OBVIOUS
<1>3. QED
  BY <1>1, <1>2

LEMMA MinOfThree ==
  ASSUME NEW x \in Nat, NEW y \in Nat, NEW z \in Nat
  PROVE  S!Min({x, y, z}) \in {x, y, z}
<1>1. \E v \in {x, y, z} : \A w \in {x, y, z} : v <= w
  OBVIOUS
<1>2. QED
  BY <1>1 DEF S!Min

LEMMA RateIsNumber ==
  ASSUME NEW choice \in S!Sendings, NEW filtered \in BOOLEAN, NEW cap \in BOOLEAN
  PROVE  S!getMaxVideoThroughput(choice, filtered, cap) \in Nat
<1>1. /\ S!getSelectedMaxVideoThroughput(choice) \in Nat
      /\ S!getMobileProfileVideoThroughputCap(filtered) \in Nat
      /\ (IF cap THEN S!getPressureFallbackVideoRate ELSE S!Unlimited) \in Nat
  BY DEF S!getSelectedMaxVideoThroughput, S!getMobileProfileVideoThroughputCap,
         S!getPressureFallbackVideoRate, S!Unlimited, S!Sendings
<1>2. QED
  BY <1>1, MinOfThree DEF S!getMaxVideoThroughput

(* A cap is there for a reason, whatever the encoder does.                 *)
Sending ==
    /\ send \in S!Sendings /\ expensive \in BOOLEAN /\ capped \in BOOLEAN
    /\ pressure \in 0..3 /\ healthy \in 0..3 /\ refreshing \in BOOLEAN
    /\ S!EncoderFollows
    /\ capped => pressure >= 2 \/ healthy < 3

LEMMA SendingStarts == S!Init => Sending
<1> SUFFICES ASSUME S!Init PROVE Sending
  OBVIOUS
<1>1. send \in S!Sendings /\ expensive \in BOOLEAN /\ encoder = S!Limit
  BY DEF S!Init
<1>2. capped = FALSE /\ pressure = 0 /\ healthy = 0 /\ refreshing = FALSE
  BY DEF S!Init
<1>3. capped \in BOOLEAN /\ refreshing \in BOOLEAN /\ ~capped
  BY <1>2
<1>4. pressure \in 0..3 /\ healthy \in 0..3
  BY <1>2
<1>5. QED
  BY <1>1, <1>3, <1>4 DEF Sending, S!EncoderFollows

(* The limit depends on the device, the choice, the filter and the cap.    *)
LEMMA LimitNext ==
  ASSUME profile' = profile
  PROVE  S!Limit' = S!getMaxVideoThroughput(send', expensive', capped')
BY DEF S!Limit, S!getMaxVideoThroughput, S!getMobileProfileVideoThroughputCap,
       S!getPressureFallbackVideoRate, S!getSelectedMaxVideoThroughput,
       S!Unlimited, S!Min

LEMMA SendingKeeps == Sending /\ [S!Next]_sendingVars => Sending'
<1> SUFFICES ASSUME Sending, [S!Next]_sendingVars PROVE Sending'
  OBVIOUS
<1> USE DEF Sending, S!EncoderFollows
<1>1. CASE S!UnderPressure
  <2>1. /\ UNCHANGED <<profile, send, expensive>> /\ healthy' = 0
        /\ S!Limit' = S!getMaxVideoThroughput(send, expensive, capped')
    BY <1>1, LimitNext DEF S!UnderPressure
  <2>2. CASE pressure = 3
    <3>1. /\ pressure' = 0 /\ capped' = FALSE /\ refreshing' = FALSE
          /\ encoder' = S!getMaxVideoThroughput(send, expensive, FALSE)
      BY <1>1, <2>2 DEF S!UnderPressure, S!CountAnew, S!addUpTrackToConnection
    <3>2. capped' \in BOOLEAN /\ refreshing' \in BOOLEAN /\ ~capped'
      BY <3>1
    <3>3. pressure' \in 0..3 /\ healthy' \in 0..3
      BY <2>1, <3>1
    <3>4. S!EncoderFollows'
      BY <2>1, <3>1
    <3>5. send' \in S!Sendings /\ expensive' \in BOOLEAN
      BY <2>1
    <3>6. QED
      BY <3>2, <3>3, <3>4, <3>5
  <2>3. CASE pressure # 3
    <3>1. /\ pressure' = pressure + 1 /\ encoder' = encoder
          /\ capped' = (capped \/ pressure = 1)
          /\ refreshing' = IF capped' /\ ~capped THEN TRUE ELSE refreshing
      BY <1>1, <2>3 DEF S!UnderPressure, S!RefreshSoon
    <3>2. /\ pressure' \in 0..3 /\ healthy' \in 0..3 /\ healthy' < 3
          /\ send' \in S!Sendings /\ expensive' \in BOOLEAN
      BY <2>1, <2>3, <3>1
    <3>a. capped' \in BOOLEAN
      BY <3>1
    <3>b. refreshing' \in BOOLEAN
      BY <3>1
    <3>3. ~refreshing' => ~refreshing /\ capped' = capped
      BY <3>1
    <3>4. S!EncoderFollows'
      BY <2>1, <3>1, <3>3 DEF S!Limit
    <3>5. QED
      BY <3>2, <3>a, <3>b, <3>4
  <2>4. QED
    BY <2>2, <2>3
<1>2. CASE S!Healthy
  <2>1. /\ UNCHANGED <<profile, send, expensive, encoder>> /\ pressure' = 0
        /\ S!Limit' = S!getMaxVideoThroughput(send, expensive, capped')
        /\ capped' = (capped /\ ~(healthy + 1 >= 3))
        /\ refreshing' = IF capped /\ ~capped' THEN TRUE ELSE refreshing
    BY <1>2, LimitNext DEF S!Healthy, S!EnoughGood, S!RefreshSoon
  <2>2. healthy' = IF healthy + 1 <= 3 THEN healthy + 1 ELSE 3
    BY <1>2, MinOfTwo DEF S!Healthy
  <2>3. capped' \in BOOLEAN /\ refreshing' \in BOOLEAN
    BY <2>1
  <2>a. capped' => ~(healthy + 1 >= 3)
    BY <2>1
  <2>b. /\ healthy' \in 0..3 /\ (~(healthy + 1 >= 3) => healthy' < 3)
        /\ pressure' \in 0..3
    BY <2>1, <2>2
  <2>c. send' \in S!Sendings /\ expensive' \in BOOLEAN
    BY <2>1
  <2>4. ~refreshing' => ~refreshing /\ capped' = capped
    BY <2>1
  <2>5. S!EncoderFollows'
    BY <2>1, <2>4 DEF S!Limit
  <2>6. QED
    BY <2>3, <2>a, <2>b, <2>c, <2>5
<1>3. CASE S!refreshStreamSendParameters
  <2> USE <1>3 DEF S!refreshStreamSendParameters
  <2>1. S!Limit' = S!Limit
    BY LimitNext DEF S!Limit
  <2>2. QED
    BY <2>1
<1>4. ASSUME NEW choice \in S!Sendings, S!sendselect(choice) PROVE Sending'
  <2> USE <1>4 DEF S!sendselect
  <2>1. S!Limit' = S!getMaxVideoThroughput(choice, expensive, capped)
    BY LimitNext
  <2>2. QED
    BY <2>1
<1>5. CASE S!filterselect
  <2> USE <1>5 DEF S!filterselect, S!addUpTrackToConnection
  <2>1. S!Limit' = S!getMaxVideoThroughput(send, ~expensive, capped)
    BY LimitNext
  <2>2. QED
    BY <2>1
<1>6. CASE UNCHANGED sendingVars
  <2> USE <1>6 DEF sendingVars
  <2>1. S!Limit' = S!Limit
    BY LimitNext DEF S!Limit
  <2>2. QED
    BY <2>1
<1>7. QED
  BY <1>1, <1>2, <1>3, <1>4, <1>5, <1>6 DEF S!Next

-----------------------------------------------------------------------------
LEMMA Follows == Receiving /\ Sending => Rates_Follow
<1> SUFFICES ASSUME Receiving, Sending PROVE Rates_Follow
  OBVIOUS
<1>1. D!RequestsAgree
  BY DEF Receiving
<1>2. D!SmallIsLow
  BY DEF Receiving, D!SmallIsLow, D!RequestsAgree, D!AsWished
<1>3. D!LargeIsFull
  BY DEF Receiving, D!LargeIsFull, D!RequestsAgree, D!AsWished, D!Tracks, Normal
<1>4. S!EncoderFollows
  BY DEF Sending
<1>5. S!CapHasReason
  <2> SUFFICES ASSUME ~refreshing,
                      encoder < S!getMaxVideoThroughput(send, expensive, FALSE),
                      ~capped
               PROVE  FALSE
    BY DEF Sending, S!CapHasReason
  <2>1. capped = FALSE /\ encoder = S!getMaxVideoThroughput(send, expensive, FALSE)
    BY DEF Sending, S!EncoderFollows, S!Limit
  <2>2. S!getMaxVideoThroughput(send, expensive, FALSE) \in Nat
    BY RateIsNumber DEF Sending
  <2>3. encoder \in Nat /\ encoder < encoder
    BY <2>1, <2>2
  <2>4. QED
    BY <2>3
<1>6. QED
  BY <1>1, <1>2, <1>3, <1>4, <1>5 DEF Rates_Follow

(* In whatever order the user chooses, the layout changes, senders replace *)
(* their streams, reports come and refreshes run, a stream shown small is  *)
(* asked for small, one shown large gets its full video, and the encoder   *)
(* ends up with the limit that choice, filter and load set together.       *)
THEOREM RatesFollow == Spec => []Rates_Follow
<1>1. Init => Receiving /\ Sending
  BY ReceivingStarts, SendingStarts DEF Init
<1>2. Receiving /\ Sending /\ [Next]_vars => Receiving' /\ Sending'
  BY ReceivingSteps, SendingSteps, ReceivingKeeps, SendingKeeps
<1>3. QED
  BY <1>1, <1>2, Follows, PTL DEF Spec

-----------------------------------------------------------------------------
(* Files.                                                                  *)

FP == INSTANCE FilesProofs

LEMMA SameFilesInit == F!Init => FP!Init
BY DEF F!Init, FP!Init, F!Page, FP!Page, F!TransferredFile, FP!TransferredFile
LEMMA SameFilesNext == F!Next => FP!Next
BY DEF F!Page, FP!Page, F!Other, FP!Other, F!getTransferredFile, FP!getTransferredFile,
       F!CanAccept, FP!CanAccept, F!CanCancel, FP!CanCancel, F!Close, FP!Close,
       F!Event, FP!Event,
       F!Hangup, FP!Hangup, F!Post, FP!Post, F!Consume, FP!Consume, F!Incoming,
       FP!Incoming,
       F!Cancelled, FP!Cancelled, F!Cancel, FP!Cancel, F!sendFile, FP!sendFile,
       F!GotInvite, FP!GotInvite,
       F!receive, FP!receive, F!OfferReady, FP!OfferReady, F!GotOffer, FP!GotOffer,
       F!OfferApplied, FP!OfferApplied, F!Stable, FP!Stable, F!AnswerReady,
       FP!AnswerReady,
       F!GotAnswer, FP!GotAnswer, F!receiveFile, FP!receiveFile, F!LocalIce,
       FP!LocalIce,
       F!Hold, FP!Hold, F!GotIce, FP!GotIce, F!DataChannel, FP!DataChannel, F!More,
       FP!More,
       F!Written, FP!Written, F!write, FP!write, F!Complete, FP!Complete,
       F!receiveData, FP!receiveData, F!GotDone, FP!GotDone, F!Handshaken,
       FP!Handshaken,
       F!ChannelClosed, FP!ChannelClosed, F!UserCancel, FP!UserCancel,
       F!CancelledByPeer, FP!CancelledByPeer, F!GotCancel, FP!GotCancel, F!fail,
       FP!fail,
       F!SocketClose, FP!SocketClose, F!ChannelBreaks, FP!ChannelBreaks, F!Handler,
       FP!Handler,
       F!Progress, FP!Progress, F!Next, FP!Next

LEMMA FilesSteps == [Next]_vars => [FP!Next]_FP!vars
<1> SUFFICES ASSUME [Next]_vars PROVE [FP!Next]_FP!vars
  OBVIOUS
<1>1. CASE UNCHANGED vars
  BY <1>1 DEF vars, filesVars, FP!vars
<1>2. CASE Next /\ part # "files"
  BY <1>2 DEF Next, Others, filesVars, FP!vars
<1>3. CASE Next /\ part = "files"
  BY <1>3, SameFilesNext DEF Next, Runs
<1>4. QED
  BY <1>1, <1>2, <1>3

LEMMA FilesHold == Spec => []FP!FilesInv
<1>1. Init => FP!FilesInv
  <2>1. FP!FileTransferAssumption
    BY FileTransferAssumption DEF F!FileTransferAssumption, FP!FileTransferAssumption
  <2>2. QED
    BY <2>1, SameFilesInit, FP!FilesStart DEF Init
<1>2. FP!FilesInv /\ [Next]_vars => FP!FilesInv'
  BY FilesSteps, FP!FilesStep
<1>3. QED
  BY <1>1, <1>2, PTL DEF Spec

(* For files of any size and any number of candidates: a row that says Done*)
(* means that the receiver was handed the whole file, exactly once; while  *)
(* both pages are in a transfer each candidate that was sent is on its way,*)
(* held back or in the connection; a page says at most once that it has    *)
(* cancelled (TransferredFile, its cancel and its fail).                   *)
THEOREM FilesAreSafe == Spec => []Files_Safe
<1>1. FP!FilesInv => Files_Safe
  <2> SUFFICES ASSUME FP!FilesInv PROVE Files_Safe
    OBVIOUS
  <2>1. F!DoneMeansSaved
    BY FP!FilesAreDone DEF F!DoneMeansSaved, FP!DoneMeansSaved
  <2>2. F!CandidatesKept
    <3>1. \A m, z : F!Count(m, z) = FP!Count(m, z)
      BY Zenon DEF F!Count, FP!Count, F!Cardinality, FP!Cardinality
    <3>2. QED
      BY FP!NoCandidateLost, <3>1 DEF F!CandidatesKept, FP!CandidatesKept, F!Page,
          FP!Page, F!Other, FP!Other,
         F!getTransferredFile, FP!getTransferredFile
  <2>3. F!CancelledOnce
    <3>1. \A m, z : F!Count(m, z) = FP!Count(m, z)
      BY Zenon DEF F!Count, FP!Count, F!Cardinality, FP!Cardinality
    <3>2. QED
      BY FP!ToldOnce, <3>1 DEF F!CancelledOnce, FP!CancelledOnce, F!Page, FP!Page
  <2>4. QED
    BY <2>1, <2>2, <2>3 DEF Files_Safe
<1>2. QED
  BY <1>1, FilesHold, PTL

(* A row that says Done or Cancelled goes on saying it, and a transfer that *)
(* has been closed stays closed, whatever is still on the wire, in the data *)
(* channel or awaited (TransferredFile, whose handlers look at its state    *)
(* before they go on).                                                     *)
THEOREM EndedForGood == Spec => F!Settled
<1>1. FP!FilesInv /\ [Next]_vars => [FP!Settles]_F!vars
  BY FP!EndedStay, FilesSteps
<1>2. FP!Settles => \A p \in F!Page :
          /\ (f[p].shown = "cancelled") => (f'[p].shown = "cancelled")
          /\ (f[p].state = "closed") => (f'[p].state = "closed")
          /\ (f["up"].shown = "done") => (f'["up"].shown = "done")
  BY DEF FP!Settles, F!Page, FP!Page
<1>3. QED
  BY <1>1, <1>2, FilesHold, PTL DEF Spec, F!Settled

-----------------------------------------------------------------------------
(* Identities.                                                             *)

PP == INSTANCE PageProofs

LEMMA SameIdentityInit == I!Init => PP!Init
BY DEF I!NotYet, PP!NotYet, I!Init, PP!Init, I!Closed, PP!Closed, I!Nothing, PP!Nothing, I!NoOne, PP!NoOne

LEMMA SameIdentityNext == I!Next => PP!Next
BY DEF I!Closed, PP!Closed, I!Nothing, PP!Nothing, I!NoOne, PP!NoOne,
       I!getPersistentClientValue, PP!getPersistentClientValue, I!Identity, PP!Identity,
       I!setPersistentClientValue, PP!setPersistentClientValue, I!Granted, PP!Granted,
       I!Act, PP!Act, I!Draw, PP!Draw,
       I!getPersistentClientTabKey, PP!getPersistentClientTabKey,
       I!ensurePersistentClientIdForUsername, PP!ensurePersistentClientIdForUsername,
       I!Listeners, PP!Listeners, I!Open, PP!Open, I!Duplicate, PP!Duplicate,
       I!Forget, PP!Forget, I!Reload, PP!Reload, I!CloseTab, PP!CloseTab,
       I!Probe, PP!Probe, I!loginform, PP!loginform, I!Reconnect, PP!Reconnect,
       I!getPersistentClientProbeChannel, PP!getPersistentClientProbeChannel,
       I!splitPersistentClientIdentityAcrossTabs,
       PP!splitPersistentClientIdentityAcrossTabs,
       I!ProbeTimeout, PP!ProbeTimeout, I!ServerConnection, PP!ServerConnection,
       I!NotYet, PP!NotYet, I!Prepared, PP!Prepared, I!join, PP!join,
       I!LoginAgain, PP!LoginAgain, I!JoinRefused, PP!JoinRefused,
       I!GiveUp, PP!GiveUp, I!disconnectConferenceNow, PP!disconnectConferenceNow,
       I!applyJoinedMessage, PP!applyJoinedMessage, I!Next, PP!Next

LEMMA IdentitySteps == [Next]_vars => [PP!Next]_PP!vars
<1> SUFFICES ASSUME [Next]_vars PROVE [PP!Next]_PP!vars
  OBVIOUS
<1>1. CASE UNCHANGED vars
  BY <1>1 DEF vars, identityVars, PP!vars
<1>2. CASE Next /\ part # "identity"
  BY <1>2 DEF Next, Others, identityVars, PP!vars
<1>3. CASE Next /\ part = "identity"
  BY <1>3, SameIdentityNext DEF Next, Runs
<1>4. QED
  BY <1>1, <1>2, <1>3

LEMMA IdentityHolds == Spec => []PP!IdentityInv
<1>1. Init => PP!IdentityInv
  <2>1. PP!TabIdentityAssumption
    BY TabIdentityAssumption DEF I!TabIdentityAssumption, PP!TabIdentityAssumption,
                                 I!NoOne, PP!NoOne
  <2>2. QED
    BY <2>1, SameIdentityInit, PP!IdentityStarts DEF Init
<1>2. PP!IdentityInv /\ [Next]_vars => PP!IdentityInv'
  BY IdentitySteps, PP!IdentityKeeps
<1>3. QED
  BY <1>1, <1>2, PTL DEF Spec

LEMMA OwnerHolds == Timely => (Spec => []PP!OwnerInv)
<1> SUFFICES ASSUME Timely PROVE Spec => []PP!OwnerInv
  OBVIOUS
<1>1. Init => PP!OwnerInv
  <2>1. PP!TabIdentityAssumption
    BY TabIdentityAssumption DEF I!TabIdentityAssumption, PP!TabIdentityAssumption,
                                 I!NoOne, PP!NoOne
  <2>2. QED
    BY <2>1, SameIdentityInit, PP!IdentityStarts DEF Init
<1>2. PP!IdentityInv /\ PP!OwnerInv /\ [Next]_vars => PP!OwnerInv'
  BY IdentitySteps, PP!OwnerKeeps
<1>3. QED
  BY <1>1, <1>2, IdentityHolds, PTL DEF Spec

(* However late answers are, and however joins are refused, given up and   *)
(* asked for again under another name: in a tab that was never duplicated, *)
(* the token that a page presents when it joins was given for the id and   *)
(* the username that it joins with; and between two connections under one  *)
(* name, both prepared for that name, with no other entered in between,    *)
(* the id survives reloads and reconnections                               *)
(* (preparePersistentClientIdentityForConnection, join,                    *)
(* ensurePersistentClientIdForUsername, getPersistentClientValue).         *)
THEOREM TokensAreOurs == Spec => []I!TokenIsOurs /\ I!SurvivesRefresh
<1>1. PP!IdentityInv => I!TokenIsOurs
  BY PP!TokensAreOwn
     DEF I!TokenIsOurs, PP!TokenIsOurs, I!Live, PP!Live, I!NoOne, PP!NoOne,
         I!getPersistentClientValue, PP!getPersistentClientValue
<1>2. PP!IdentityInv /\ [Next]_vars =>
        [\A t \in Tabs :
          (last'[t] # last[t] /\ last[t].user = last'[t].user
            /\ last[t].user # I!NoOne /\ last[t].key = last'[t].key
            /\ last[t].as = last[t].user /\ last'[t].as = last'[t].user
            /\ ~tab[t].cloned)
          => (last'[t].id = last[t].id)]_I!vars
  BY IdentitySteps, PP!RefreshKeeps DEF I!NoOne, PP!NoOne
<1>3. QED
  BY <1>1, <1>2, IdentityHolds, PTL DEF Spec, I!SurvivesRefresh

(* When an answer to a probe comes before the page that asked gives up     *)
(* waiting, no two tabs are connected under one client id either, however  *)
(* they were duplicated, reloaded and reconnected                          *)
(* (ensurePersistentClientTabOwnership, and the handler of its channel).   *)
THEOREM IdentitiesAreOwn == Timely => (Spec => Identity_Own)
<1> SUFFICES ASSUME Timely PROVE Spec => Identity_Own
  OBVIOUS
<1>1. PP!OwnerInv => I!OwnId
  BY PP!IdsAreOwn DEF I!OwnId, PP!OwnId, I!Live, PP!Live, I!NoOne, PP!NoOne
<1>2. QED
  BY <1>1, OwnerHolds, TokensAreOurs, PTL DEF Identity_Own

-----------------------------------------------------------------------------
(* Streams.                                                                *)

NP == INSTANCE NegotiationProofs

LEMMA SameStreamsInit == N!Init => NP!Init
BY DEF N!Init, NP!Init, N!None, NP!None
LEMMA SameCount == \A x : N!Cardinality(x) = NP!Cardinality(x)
BY Zenon DEF N!Cardinality, NP!Cardinality
LEMMA SameSends == \A x : N!Sends(x) = NP!Sends(x)
BY Zenon DEF N!Sends, NP!Sends, N!Ice, NP!Ice, N!Cardinality, NP!Cardinality
LEMMA SameStreamsNext == N!Next => NP!Next
BY SameSends
DEF N!Candidates, NP!Candidates, N!None, NP!None, N!Ice, NP!Ice, N!Room, NP!Room,
   N!Message, NP!Message, N!negotiateOnce, NP!negotiateOnce,
   N!negotiate, NP!negotiate, N!pushDownConn, NP!pushDownConn, N!connectionFailed,
   NP!connectionFailed, N!ServerCloses, NP!ServerCloses, N!ServerCandidate,
   NP!ServerCandidate, N!serverGotOffer, NP!serverGotOffer, N!serverGotAnswer,
   NP!serverGotAnswer, N!serverGotICE, NP!serverGotICE, N!serverGotRenegotiate,
   NP!serverGotRenegotiate, N!serverGotAbort, NP!serverGotAbort, N!serverGotClose,
   NP!serverGotClose, N!ServerReceives, NP!ServerReceives, N!gotOffer, NP!gotOffer,
   N!gotAnswer, NP!gotAnswer, N!gotRemoteIce, NP!gotRemoteIce, N!closeLocal,
   NP!closeLocal, N!gotClose, NP!gotClose, N!gotAbort, NP!gotAbort, N!gotRenegotiate,
   NP!gotRenegotiate, N!PageReceives, NP!PageReceives, N!flushRemoteIceCandidates,
   NP!flushRemoteIceCandidates, N!Created, NP!Created, N!Described, NP!Described,
   N!SendDescription, NP!SendDescription, N!SendAtOnce, NP!SendAtOnce, N!gotLocalIce,
   NP!gotLocalIce, N!PageCandidate, NP!PageCandidate, N!FailsSilently, NP!FailsSilently,
   N!NegotiationFails, NP!NegotiationFails, N!ChangeTracks, NP!ChangeTracks,
   N!onnegotiationneeded, NP!onnegotiationneeded, N!restartIce, NP!restartIce, N!close,
   NP!close, N!Settling, NP!Settling, N!Next, NP!Next

LEMMA StreamsSteps == [Next]_vars => [NP!Next]_NP!negotiationVars
<1> SUFFICES ASSUME [Next]_vars PROVE [NP!Next]_NP!negotiationVars
  OBVIOUS
<1>1. CASE UNCHANGED vars
  BY <1>1 DEF vars, streamsVars, NP!negotiationVars
<1>2. CASE Next /\ part # "streams"
  BY <1>2 DEF Next, Others, streamsVars, NP!negotiationVars
<1>3. CASE Next /\ part = "streams"
  BY <1>3, SameStreamsNext DEF Next, Runs
<1>4. QED
  BY <1>1, <1>2, <1>3

(* For streams of either direction, any number of messages, of changes of  *)
(* the tracks, of restarts and of candidates: at most one offer or answer  *)
(* is under way, and none reaches a page that still answers; when nothing  *)
(* is, both sides have agreed on the tracks and the ICE of now, and no     *)
(* restart that was asked for is forgotten; each candidate is held back,   *)
(* under way or in the other side's connection (negotiate, gotOffer and    *)
(* gotAnswer on either side, addICECandidate and the page's flushes).      *)
THEOREM StreamsNegotiated == Spec => []Streams_Negotiated
<1>1. NP!NegotiationAssumption
  BY NegotiationAssumption DEF N!NegotiationAssumption, NP!NegotiationAssumption
<1>2. Init => NP!StreamsInvariant
  BY SameStreamsInit, NP!StreamsStart DEF Init
<1>3. NP!StreamsInvariant /\ [Next]_vars => NP!StreamsInvariant'
  BY <1>1, StreamsSteps, NP!StreamsKeep
<1>4. NP!StreamsInvariant => Streams_Negotiated
  <2> SUFFICES ASSUME NP!StreamsInvariant PROVE Streams_Negotiated
    OBVIOUS
  <2>1. NP!OneOffer /\ NP!Agreed /\ NP!CandidatesArrive
    BY NP!StreamsGive
  <2>2. N!OneOffer
    BY <2>1, SameCount
       DEF N!OneOffer, NP!OneOffer, N!BothOpen, NP!BothOpen, N!Under, NP!Under
  <2>3. N!Agreed
    BY <2>1 DEF N!Agreed, NP!Agreed, N!BothOpen, NP!BothOpen, N!Offered, NP!Offered
  <2>4. N!CandidatesArrive
    BY <2>1 DEF N!CandidatesArrive, NP!CandidatesArrive, N!BothOpen, NP!BothOpen,
       N!Sent, NP!Sent, N!Under, NP!Under
  <2>5. QED
    BY <2>2, <2>3, <2>4 DEF Streams_Negotiated
<1>5. QED
  BY <1>2, <1>3, <1>4, PTL DEF Spec

-----------------------------------------------------------------------------
(* The people: the theorems of PageProofs on Participants.                 *)

LEMMA SamePeopleInit == U!Init => PP!U!Init
BY DEF U!Offers, PP!U!Offers, U!NoStream, PP!U!NoStream, U!Init, PP!U!Init

LEMMA SameNoStream ==
  U!NoStream = PP!U!NoStream
BY DEF U!NoStream, PP!U!NoStream

LEMMA SameClosed ==
  \A c : U!Closed(c) = PP!U!Closed(c)
BY SameNoStream
   DEF U!Closed, PP!U!Closed

LEMMA SameGetUserStreams ==
  \A p, u : U!getUserStreams(p, u) = PP!U!getUserStreams(p, u)
BY DEF U!Offers, PP!U!Offers, U!getUserStreams, PP!U!getUserStreams

LEMMA SameAsked ==
  \A p, i : U!Asked(p, i) = PP!U!Asked(p, i)
BY SMTT(40), Zenon
   DEF U!NoHealth, PP!U!NoHealth, U!Put, PP!U!Put, U!HealthOf, PP!U!HealthOf,
   U!iceConnectionState, PP!U!iceConnectionState, U!Asked, PP!U!Asked

LEMMA SameAskedAll ==
  \A p, u : U!AskedAll(p, u) = PP!U!AskedAll(p, u)
BY SameGetUserStreams, SameAsked, Zenon
   DEF U!AskedAll, PP!U!AskedAll

LEMMA SameGetParticipantConnectionStatus ==
  \A p, u :
    U!getParticipantConnectionStatus(p, u) =
      PP!U!getParticipantConnectionStatus(p, u)
BY SMTT(40), SameGetUserStreams
   DEF U!NoHealth, PP!U!NoHealth, U!HealthOf, PP!U!HealthOf, U!iceConnectionState,
   PP!U!iceConnectionState, U!getStreamConnectionHealth,
   PP!U!getStreamConnectionHealth, U!getParticipantConnectionStatus,
   PP!U!getParticipantConnectionStatus

LEMMA SameParticipantHasAudio ==
  \A p, u, snap :
    U!participantHasAudio(p, u, snap) =
      PP!U!participantHasAudio(p, u, snap)
BY SameGetUserStreams
   DEF U!Present, PP!U!Present, U!participantHasAudio, PP!U!participantHasAudio

LEMMA SameRenderParticipantRow ==
  \A p, u : U!renderParticipantRow(p, u) = PP!U!renderParticipantRow(p, u)
BY DEF U!Unset, PP!U!Unset, U!NewPresence, PP!U!NewPresence, U!PresenceOf,
   PP!U!PresenceOf, U!renderParticipantRow, PP!U!renderParticipantRow

LEMMA SameRefreshParticipantPresence ==
  \A p, u :
    U!refreshParticipantPresence(p, u) =
      PP!U!refreshParticipantPresence(p, u)
BY SameAskedAll, SameGetParticipantConnectionStatus, SameParticipantHasAudio,
   SameRenderParticipantRow
   DEF U!Unset, PP!U!Unset, U!NewPresence, PP!U!NewPresence, U!Put, PP!U!Put,
   U!PresenceOf, PP!U!PresenceOf, U!refreshParticipantPresence,
   PP!U!refreshParticipantPresence

LEMMA SameMarkParticipantStreamReconnecting ==
  \A p, u :
    U!markParticipantStreamReconnecting(p, u) =
      PP!U!markParticipantStreamReconnecting(p, u)
BY SameRenderParticipantRow
   DEF U!Unset, PP!U!Unset, U!NewPresence, PP!U!NewPresence, U!Put, PP!U!Put,
   U!PresenceOf, PP!U!PresenceOf, U!markParticipantStreamReconnecting,
   PP!U!markParticipantStreamReconnecting

LEMMA SameSetMediaStatus ==
  \A p, i : U!setMediaStatus(p, i) = PP!U!setMediaStatus(p, i)
BY SameAsked, SameRefreshParticipantPresence
   DEF U!setMediaStatus, PP!U!setMediaStatus

LEMMA SameSetMedia ==
  \A p, i, force : U!setMedia(p, i, force) = PP!U!setMedia(p, i, force)
BY SameSetMediaStatus
   DEF U!setMedia, PP!U!setMedia

LEMMA SameRefreshOwners ==
  \A p, streams : U!RefreshOwners(p, streams) = PP!U!RefreshOwners(p, streams)
BY SameRefreshParticipantPresence
   DEF U!RefreshOwners, PP!U!RefreshOwners

LEMMA SameDelMedia ==
  \A p, l, u : U!delMedia(p, l, u) = PP!U!delMedia(p, l, u)
BY SameRefreshOwners
   DEF U!Offers, PP!U!Offers, U!Without, PP!U!Without, U!OpenAs, PP!U!OpenAs,
   U!delMedia, PP!U!delMedia

LEMMA SameGotUserChange ==
  \A p, u : U!gotUserChange(p, u) = PP!U!gotUserChange(p, u)
BY SameRefreshParticipantPresence
   DEF U!gotUserChange, PP!U!gotUserChange

LEMMA SameRecomputeUserStreams ==
  \A p, u : U!recomputeUserStreams(p, u) = PP!U!recomputeUserStreams(p, u)
BY SameGetUserStreams
   DEF U!Live, PP!U!Live, U!recomputeUserStreams, PP!U!recomputeUserStreams

LEMMA SameCloseStream ==
  \A p, i, replace :
    U!closeStream(p, i, replace) =
      PP!U!closeStream(p, i, replace)
BY SameClosed, SameRefreshParticipantPresence,
   SameMarkParticipantStreamReconnecting, SameDelMedia, SameGotUserChange,
   SameRecomputeUserStreams
   DEF U!closeStream, PP!U!closeStream

LEMMA SameRemoveConferenceArtifactsForUser ==
  \A p, u :
    U!removeConferenceArtifactsForUser(p, u) =
      PP!U!removeConferenceArtifactsForUser(p, u)
<1> TAKE p, u
<1> QED
  BY SameGetUserStreams, SameDelMedia, ZenonT(60)
     DEF U!removeConferenceArtifactsForUser, PP!U!removeConferenceArtifactsForUser

LEMMA SameRemoveUser ==
  \A p, u : U!removeUser(p, u) = PP!U!removeUser(p, u)
BY SameRemoveConferenceArtifactsForUser, Zenon
   DEF U!Without, PP!U!Without, U!removeUser, PP!U!removeUser

LEMMA SameRunConferenceLayout ==
  \A p : U!runConferenceLayout(p) = PP!U!runConferenceLayout(p)
BY DEF U!Offers, PP!U!Offers, U!Unset, PP!U!Unset, U!NewPresence,
   PP!U!NewPresence, U!getUserStreams, PP!U!getUserStreams, U!Live, PP!U!Live,
   U!hasVideoTrack, PP!U!hasVideoTrack, U!PresenceOf, PP!U!PresenceOf,
   U!WithMedia, PP!U!WithMedia, U!getConferenceParticipants,
   PP!U!getConferenceParticipants, U!Connecting, PP!U!Connecting, U!CameraTile,
   PP!U!CameraTile, U!shouldRenderConferencePlaceholder,
   PP!U!shouldRenderConferencePlaceholder, U!Waits, PP!U!Waits,
   U!getConferenceLayoutPeers, PP!U!getConferenceLayoutPeers,
   U!runConferenceLayout, PP!U!runConferenceLayout

LEMMA SameCloseStreams ==
  \A p : U!closeStreams(p) = PP!U!closeStreams(p)
BY SameCloseStream, Zenon
   DEF U!closeStreams, PP!U!closeStreams

LEMMA SameAddUser ==
  ASSUME NEW u PROVE U!addUser(u) => PP!U!addUser(u)
BY SameRefreshParticipantPresence, Zenon
   DEF U!Unset, PP!U!Unset, U!NewPresence, PP!U!NewPresence, U!Put, PP!U!Put,
   U!PresenceOf, PP!U!PresenceOf, U!addUser, PP!U!addUser

LEMMA SameChangeUser ==
  ASSUME NEW u PROVE U!changeUser(u) => PP!U!changeUser(u)
BY SameGotUserChange
   DEF U!changeUser, PP!U!changeUser

LEMMA SameDelUser ==
  ASSUME NEW u PROVE U!delUser(u) => PP!U!delUser(u)
BY SameGetUserStreams, SameRemoveUser
   DEF U!Offers, PP!U!Offers, U!delUser, PP!U!delUser

LEMMA SameGotOffer ==
  ASSUME NEW u, NEW i PROVE U!gotOffer(u, i) => PP!U!gotOffer(u, i)
BY SameNoStream, SameGetUserStreams, SameSetMedia, SameCloseStream
   DEF U!gotOffer, PP!U!gotOffer

LEMMA SameRenegotiate ==
  ASSUME NEW i PROVE U!Renegotiate(i) => PP!U!Renegotiate(i)
BY SameSetMedia
   DEF U!Renegotiate, PP!U!Renegotiate

LEMMA SameGotClose ==
  ASSUME NEW i PROVE U!gotClose(i) => PP!U!gotClose(i)
BY SameCloseStream
   DEF U!gotClose, PP!U!gotClose

LEMMA SameOntrack ==
  ASSUME NEW i, NEW k PROVE U!ontrack(i, k) => PP!U!ontrack(i, k)
BY SameSetMedia, SameGotUserChange, SameRecomputeUserStreams
   DEF U!ontrack, PP!U!ontrack

LEMMA SameTrackLost ==
  ASSUME NEW i, NEW k, NEW gone PROVE U!TrackLost(i, k, gone) => PP!U!TrackLost(i, k, gone)
BY SameRefreshParticipantPresence, SameSetMedia
   DEF U!TrackLost, PP!U!TrackLost

LEMMA SameOniceconnectionstatechange ==
  ASSUME NEW i, NEW s PROVE U!oniceconnectionstatechange(i, s) => PP!U!oniceconnectionstatechange(i, s)
BY SameSetMediaStatus
   DEF U!oniceconnectionstatechange, PP!U!oniceconnectionstatechange

LEMMA SameGraceOver ==
  ASSUME NEW l PROVE U!GraceOver(l) => PP!U!GraceOver(l)
BY SameSetMediaStatus
   DEF U!GraceOver, PP!U!GraceOver

LEMMA SameFrame ==
  U!Frame => PP!U!Frame
BY SameRunConferenceLayout
   DEF U!Frame, PP!U!Frame

LEMMA SameForgetDeleted ==
  ASSUME NEW u PROVE U!ForgetDeleted(u) => PP!U!ForgetDeleted(u)
BY DEF U!ForgetDeleted, PP!U!ForgetDeleted

LEMMA SamePlaceholderGraceOver ==
  ASSUME NEW u PROVE U!PlaceholderGraceOver(u) => PP!U!PlaceholderGraceOver(u)
BY DEF U!Unset, PP!U!Unset, U!NewPresence, PP!U!NewPresence, U!PresenceOf,
   PP!U!PresenceOf, U!PlaceholderGraceOver, PP!U!PlaceholderGraceOver

LEMMA SameHandleSocketClose ==
  ASSUME NEW again PROVE U!handleSocketClose(again) => PP!U!handleSocketClose(again)
BY SameCloseStreams, Zenon
   DEF U!clearParticipantPresence, PP!U!clearParticipantPresence,
   U!clearConferenceUi, PP!U!clearConferenceUi, U!handleSocketClose,
   PP!U!handleSocketClose

LEMMA SameSetConnected ==
  U!setConnected => PP!U!setConnected
BY DEF U!clearParticipantPresence, PP!U!clearParticipantPresence, U!setConnected,
   PP!U!setConnected

LEMMA SameOwnUser ==
  U!OwnUser => PP!U!OwnUser
BY DEF U!OwnUser, PP!U!OwnUser

LEMMA SamePeopleNext == U!Next => PP!U!Next
BY SameAddUser, SameChangeUser, SameDelUser, SameGotOffer, SameRenegotiate,
   SameGotClose, SameOntrack, SameTrackLost, SameOniceconnectionstatechange,
   SameGraceOver, SameFrame, SameForgetDeleted, SamePlaceholderGraceOver,
   SameHandleSocketClose, SameSetConnected, SameOwnUser
   DEF U!Offers, PP!U!Offers, U!Next, PP!U!Next

LEMMA SameRowsCurrent == PP!U!RowsCurrent => U!RowsCurrent
BY SameGetParticipantConnectionStatus, SameParticipantHasAudio
   DEF U!RowsCurrent, PP!U!RowsCurrent

LEMMA SameTilesHaveStreams == PP!U!TilesHaveStreams => U!TilesHaveStreams
BY DEF U!Offers, PP!U!Offers, U!OpenAs, PP!U!OpenAs, U!TilesHaveStreams,
   PP!U!TilesHaveStreams

LEMMA SameLayoutCurrent == PP!U!LayoutCurrent => U!LayoutCurrent
BY SameGetUserStreams
   DEF U!Live, PP!U!Live, U!hasVideoTrack, PP!U!hasVideoTrack, U!LayoutCurrent,
   PP!U!LayoutCurrent

LEMMA PeopleSteps == [Next]_vars => [PP!U!Next]_(PP!U!peopleVars)
<1> SUFFICES ASSUME [Next]_vars PROVE [PP!U!Next]_(PP!U!peopleVars)
  OBVIOUS
<1>1. CASE UNCHANGED vars
  BY <1>1 DEF vars, peopleVars, PP!U!peopleVars
<1>2. CASE Next /\ part # "people"
  BY <1>2 DEF Next, Others, peopleVars, PP!U!peopleVars
<1>3. CASE Next /\ part = "people"
  BY <1>3, SamePeopleNext DEF Next, Runs
<1>4. QED
  BY <1>1, <1>2, <1>3

(* For any number of members and offers, any kinds of tracks, and events of*)
(* the server, the connections and the timers in any order: while the page *)
(* is in the group its user list has a row for each of those in the roster *)
(* and for no one else, showing the connection and the sound they have now;*)
(* every tile is that of an open stream; and once the layout has run, a    *)
(* user with video has a tile and one who has left has nothing (changeUser,*)
(* gotDownStream, Stream.close, renderParticipantRow, syncGridLayout).     *)
THEOREM PeopleAreShown == Spec => []Participants_Consistent
<1>1. PP!U!ParticipantsAssumption
  BY ParticipantsAssumption DEF U!ParticipantsAssumption, PP!U!ParticipantsAssumption,
     U!IceStates, PP!U!IceStates
<1>2. Init => PP!PageInv(pg, net)
  <2> SUFFICES ASSUME Init PROVE PP!PageInv(pg, net)
    OBVIOUS
  <2>1. PP!U!Init
    BY SamePeopleInit DEF Init
  <2>2. net = "joined" /\ PP!PageInv(pg, "joined")
    BY <2>1, <1>1, PP!FirstPage DEF PP!U!Init
  <2>3. QED
    BY <2>2
<1>3. PP!PageInv(pg, net) /\ [Next]_vars => PP!PageInv(pg, net)'
  <2> SUFFICES ASSUME PP!PageInv(pg, net), [Next]_vars PROVE PP!PageInv(pg, net)'
    OBVIOUS
  <2>1. [PP!U!Next]_(PP!U!peopleVars)
    BY PeopleSteps
  <2>2. PP!PageInv(pg', net')
    BY <2>1, <1>1, PP!PageStep
  <2>3. QED
    BY <2>2
<1>4. PP!PageInv(pg, net) => Participants_Consistent
  <2> SUFFICES ASSUME PP!PageInv(pg, net) PROVE Participants_Consistent
    OBVIOUS
  <2>1. PP!U!RowsCurrent /\ PP!U!TilesHaveStreams /\ PP!U!LayoutCurrent
    BY PP!PageShows
  <2>2. U!RowsCurrent /\ U!TilesHaveStreams /\ U!LayoutCurrent
    BY <2>1, SameRowsCurrent, SameTilesHaveStreams, SameLayoutCurrent
  <2>3. QED
    BY <2>2 DEF Participants_Consistent
<1>5. QED
  BY <1>2, <1>3, <1>4, PTL DEF Spec

=============================================================================
