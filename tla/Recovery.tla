------------------------------ MODULE Recovery ------------------------------
(***************************************************************************)
(* How a page revives a stream whose transport fails                       *)
(* (runTransportRecovery and its callers in static/owly.js): restart ICE,  *)
(* then, for its own camera, publish it anew, then close the connection,   *)
(* which makes the page reconnect.  One stream is followed; what ICE does  *)
(* is external.  Of time the model keeps which of a cooldown and an alarm   *)
(* comes first.                                                            *)
(***************************************************************************)
EXTENDS Naturals

CONSTANT
    MaxFailures   \* how often ICE leaves a state of its own accord

VARIABLES
    flow,         \* the stream: "camera", "screenshare" or "down"
    transport,    \* iceConnectionState
    alarm,        \* none, the delay of a failure, that of a step, or the
                  \* rest of the cooldown
    step,         \* transportRecovery.step
    acted,        \* when it last acted: never, recently, or a cooldown ago
    republished,  \* the same, for publishing the camera
    replacing,    \* replaceCameraStream is under way
    stalled,      \* the connection has been closed for a media stall
    restarts,     \* history: ICE was restarted since it last worked
    failures

recoveryVars == <<flow, transport, alarm, step, acted, republished, replacing,
                  stalled, restarts, failures>>

Flows == {"camera", "screenshare", "down"}
Ages == {"never", "recent", "past"}

TypeOK ==
    /\ flow \in Flows
    /\ transport \in {"checking", "connected", "disconnected", "failed"}
    /\ alarm \in {"none", "delay", "step", "cooldown"}
    /\ step \in 0..3
    /\ acted \in Ages /\ republished \in Ages
    /\ replacing \in BOOLEAN /\ stalled \in BOOLEAN /\ restarts \in BOOLEAN
    /\ failures \in 0..MaxFailures

(* The state getOrCreateTransportRecoveryState creates.                    *)
Fresh ==
    /\ alarm = "none" /\ step = 0 /\ acted = "never" /\ republished = "never"

Init ==
    /\ flow \in Flows
    /\ transport = "checking"
    /\ Fresh
    /\ replacing = FALSE /\ stalled = FALSE /\ restarts = FALSE
    /\ failures = 0

(* As resetTransportRecovery, with the step kept.                          *)
resetTimer ==
    /\ alarm' = "none" /\ acted' = "never"
    /\ UNCHANGED <<step, republished>>

resetTransportRecovery ==
    /\ alarm' = "none" /\ step' = 0 /\ acted' = "never"
    /\ UNCHANGED republished

-----------------------------------------------------------------------------
(* ICE changes state, of its own accord or as a restart makes it, and the  *)
(* status handler hears of it.  A stream is never found poor the moment it *)
(* is disconnected: the grace period has just begun, unless it went on     *)
(* from an earlier one.                                                    *)
handleTransportStatus(status, poor) ==
    CASE status = "connected" -> resetTransportRecovery
      [] status = "failed" \/ (status = "disconnected" /\ poor) ->
           /\ alarm' = "delay"
           /\ UNCHANGED <<step, acted, republished>>
      [] OTHER -> UNCHANGED <<alarm, step, acted, republished>>

Goes ==
    [checking |-> {"connected", "failed"},
     connected |-> {"disconnected", "checking"},
     disconnected |-> {"connected", "failed", "checking"},
     failed |-> {"checking"}]

Ice(status, poor) ==
    /\ ~stalled
    /\ status \in Goes[transport]
    /\ failures < MaxFailures \/ status = "connected"
    /\ transport' = status
    /\ handleTransportStatus(status, poor)
    /\ restarts' = (restarts /\ status # "connected")
    /\ failures' = IF status = "connected" THEN failures ELSE failures + 1
    /\ UNCHANGED <<flow, replacing, stalled>>

(* 15 seconds since the last action: the alarm of a step, 4 seconds, fires *)
(* earlier.                                                                *)
Cool ==
    /\ acted = "recent" /\ alarm \notin {"step", "cooldown"}
    /\ acted' = "past"
    /\ UNCHANGED <<flow, transport, alarm, step, republished, replacing,
                   stalled, restarts, failures>>

(* 30 seconds since the camera was published, which the cooldown of that   *)
(* step precedes.                                                          *)
RepublishCool ==
    /\ republished = "recent"
    /\ step = 2 => alarm \notin {"step", "cooldown"} /\ acted # "recent"
    /\ republished' = "past"
    /\ UNCHANGED <<flow, transport, alarm, step, acted, replacing, stalled,
                   restarts, failures>>

restartIce ==
    /\ acted' = "recent" /\ step' = 1 /\ restarts' = TRUE /\ alarm' = "step"
    /\ UNCHANGED <<republished, replacing, stalled>>

(* The camera is published anew unless it was less than 30 seconds ago.    *)
republish ==
    /\ flow = "camera" /\ republished # "recent"
    /\ acted' = "recent" /\ step' = 2 /\ republished' = "recent"
    /\ replacing' = TRUE /\ alarm' = "step"
    /\ UNCHANGED <<stalled, restarts>>

escalate ==
    /\ ~(flow = "camera" /\ republished # "recent")
    /\ acted' = "recent" /\ step' = 3 /\ stalled' = TRUE /\ alarm' = "none"
    /\ UNCHANGED <<republished, replacing, restarts>>

(* Nothing is to be done until the status changes.                         *)
GiveUp ==
    /\ alarm' = "none"
    /\ UNCHANGED <<step, acted, republished, replacing, stalled, restarts>>

Wait ==
    /\ alarm' = "cooldown"
    /\ UNCHANGED <<step, acted, republished, replacing, stalled, restarts>>

(* The first step that is due: a stream that is failed, or disconnected for*)
(* the grace period, waits for the cooldown of the last action first.  A   *)
(* cooldown alarm fires when the cooldown is over.                         *)
runTransportRecovery(poor) ==
    IF transport = "connected"
    THEN resetTransportRecovery /\ UNCHANGED <<restarts, replacing, stalled>>
    ELSE IF transport = "failed" \/ (transport = "disconnected" /\ poor)
    THEN IF acted = "recent" /\ alarm # "cooldown"
         THEN Wait
         ELSE IF step = 0 THEN restartIce ELSE republish \/ escalate
    ELSE GiveUp

Timer(poor) ==
    /\ alarm # "none" /\ ~stalled
    /\ runTransportRecovery(poor)
    /\ UNCHANGED <<flow, transport, failures>>

(* The camera's new stream takes over, with a recovery of its own.         *)
Republished ==
    /\ replacing /\ ~stalled
    /\ transport' = "checking"
    /\ alarm' = "none" /\ step' = 0 /\ acted' = "never" /\ republished' = "never"
    /\ replacing' = FALSE /\ restarts' = FALSE
    /\ UNCHANGED <<flow, stalled, failures>>

RepublishFails ==
    /\ replacing
    /\ replacing' = FALSE
    /\ UNCHANGED <<flow, transport, alarm, step, acted, republished, stalled,
                   restarts, failures>>

Recovers ==
    \/ \E poor \in BOOLEAN : Timer(poor)
    \/ Cool
    \/ RepublishCool
    \/ Republished
    \/ RepublishFails

Next ==
    \/ Recovers
    \/ \E status \in {"checking", "connected", "disconnected", "failed"} :
         \E poor \in BOOLEAN : Ice(status, poor)

(* Timers fire and the camera's operations end.                            *)
Progress == Recovers

Spec == Init /\ [][Next]_recoveryVars /\ WF_recoveryVars(Progress)

-----------------------------------------------------------------------------
Failing == transport = "failed" /\ ~stalled

(* A stream does not stay failed: ICE is revived, the camera published     *)
(* anew, or the connection given up (runTransportRecovery re-arms its alarm*)
(* until then).                                                            *)
FailureEnds == []<>~Failing

(* Everybody's connection is given up for a stream only after ICE was      *)
(* restarted on it since it last worked, and never while the camera could  *)
(* still be published anew (the order of the steps; their reset when ICE   *)
(* works again).                                                           *)
LastResort ==
    [][stalled' # stalled =>
         /\ restarts
         /\ flow = "camera" => republished = "recent"]_stalled
=============================================================================
