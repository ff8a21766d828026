------------------------------ MODULE ReceiveRate ------------------------------
(***************************************************************************)
(* What one page receives of one stream: the user's choice of what to      *)
(* receive, the page's request for a smaller video where the stream is     *)
(* shown small (static/owly.js), and the tracks the server picks           *)
(* (rtpconn/webclient.go).  A request for the stream itself outranks the   *)
(* choice, and lives in two places: userdata.requested of the page's       *)
(* stream, and the server's down connection.                               *)
(***************************************************************************)
EXTENDS Naturals

CONSTANT MaxPushes      \* streams that the sender replaces

Choices == {"", "audio", "screenshare", "everything-low", "everything"}
NoRequest == {"none"}

VARIABLES
    label,      \* of the stream: camera or screenshare
    request,    \* the setting
    small,      \* is the stream shown at no more than 320 by 240?
    reconsidering,      \* reconsiderDownRateTimer
    low,        \* userdata.requested.low; "absent" without a requested
    requested,  \* of the server's down connection: tracks or NoRequest
    sends,      \* the tracks the server sends; without any, no stream
    unasked,    \* history: replaced since the page last asked for tracks
    pushes

vars == <<label, request, small, reconsidering, low, requested, sends, unasked, pushes>>

(* mapRequest and mapRequestLabel: the choice, for a label.                *)
mapRequest(what) ==
    [camera |->
        CASE what = "" -> {}
          [] what \in {"audio", "screenshare"} -> {"audio"}
          [] what = "everything-low" -> {"audio", "video-low"}
          [] what = "everything" -> {"audio", "video"},
     screenshare |->
        CASE what = "" -> {}
          [] what = "audio" -> {"audio"}
          [] what = "everything-low" -> {"audio", "video-low"}
          [] what \in {"screenshare", "everything"} -> {"audio", "video"}]

mapVideoToLow(tracks) == {IF t = "video" THEN "video-low" ELSE t : t \in tracks}

(* pushDownConn: the request of the down connection, or the choice.        *)
Tracks(req, choice) == IF req = NoRequest THEN mapRequest(choice)[label] ELSE req

NotTheFirst == low = "absent" \/ small = (low = "yes")

NeverBack == low = "yes" \/ ~small

AsWished == small = (low = "yes")

(* reconsiderDownRate, which asks only when the wish has changed; a choice *)
(* without video is left alone.  The server sends `sent` until then.       *)
reconsiderDownRate(choice, sent) ==
    LET normal == mapRequest(choice)[label]
    IN IF sent = {} \/ "video" \notin normal \/ AsWished
       THEN /\ sends' = sent
            /\ UNCHANGED <<requested, low, unasked>>
       ELSE /\ low' = IF small THEN "yes" ELSE "no"
            /\ requested' = IF small THEN mapVideoToLow(normal) ELSE NoRequest
            /\ sends' = Tracks(requested', choice)
            /\ unasked' = FALSE

Init ==
    /\ label \in {"camera", "screenshare"}
    /\ request \in Choices
    /\ small \in BOOLEAN
    /\ reconsidering = TRUE /\ low = "absent" /\ requested = NoRequest
    /\ sends = mapRequest(request)[label]
    /\ unasked = FALSE /\ pushes = 0

(* The user chooses: the server is told, and the page reconsiders.  A      *)
(* stream without tracks is closed, and both ends forget it.               *)
requestselect(choice) ==
    /\ request' = choice
    /\ IF Tracks(requested, choice) = {}
       THEN /\ sends' = {} /\ low' = "absent" /\ requested' = NoRequest
            /\ unasked' = FALSE
       ELSE reconsiderDownRate(choice, Tracks(requested, choice))
    /\ reconsidering' = (reconsidering \/ sends = {} \/ sends' = {})
    /\ UNCHANGED <<label, small, pushes>>

(* The layout changes: the page reconsiders in 200 ms.                     *)
scheduleReconsiderDownRate ==
    /\ small' = ~small
    /\ reconsidering' = TRUE
    /\ UNCHANGED <<label, request, low, requested, sends, unasked, pushes>>

ReconsiderTimer ==
    /\ reconsidering /\ reconsidering' = FALSE
    /\ reconsiderDownRate(request, sends)
    /\ UNCHANGED <<label, request, small, pushes>>

OldRequest == requested

NewRequest == NoRequest

(* pushDownConn with replace: the request of the old connection picks the  *)
(* tracks of the new one, which itself has none; the page's stream is new. *)
(* A new stream changes the layout.                                        *)
pushDownConn ==
    /\ pushes < MaxPushes /\ sends # {}
    /\ pushes' = pushes + 1
    /\ sends' = Tracks(requested, request)
    /\ requested' = NewRequest /\ low' = "absent" /\ reconsidering' = TRUE
    /\ unasked' = TRUE
    /\ UNCHANGED <<label, request, small>>

Next ==
    \/ \E choice \in Choices \ {request} : requestselect(choice)
    \/ scheduleReconsiderDownRate \/ ReconsiderTimer \/ pushDownConn

Spec == Init /\ [][Next]_vars /\ WF_vars(ReconsiderTimer)

TypeOK ==
    /\ low \in {"absent", "yes", "no"} /\ sends \subseteq {"audio", "video", "video-low"}
    /\ requested \in {NoRequest} \cup SUBSET {"audio", "video-low"}

(* What the page believes it has asked for is what the server holds.       *)
RequestsAgree == (low = "yes") <=> (requested # NoRequest)

(* A stream shown small does not cost a full video, once reconsidered.     *)
SmallIsLow == (small /\ ~reconsidering) => "video" \notin sends

(* One shown large gets the full video if that is the choice, unless the   *)
(* sender has replaced it and the page has not asked again.                *)
LargeIsFull ==
    (~small /\ ~reconsidering /\ ~unasked /\ sends # {})
        => ("video" \in mapRequest(request)[label] => "video" \in sends)

(* The same, replaced or not.                                              *)
LargeIsAlwaysFull ==
    (~small /\ ~reconsidering /\ sends # {})
        => ("video" \in mapRequest(request)[label] => "video" \in sends)

(* The choice is obeyed: no video when none is wanted.                     *)
ChoiceObeyed == ("video" \notin mapRequest(request)[label] /\ sends # {})
                   => sends = mapRequest(request)[label]

=============================================================================
