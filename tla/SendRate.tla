------------------------------- MODULE SendRate -------------------------------
(***************************************************************************)
(* The bit rate of the camera that a page sends (static/owly.js): the      *)
(* limit that the user's choice, the device and its load set together, the *)
(* refresh that hands it to the encoder, and the republication of a camera *)
(* that stays under pressure.                                              *)
(***************************************************************************)
EXTENDS Naturals, FiniteSetsExt

Unlimited == 1000000        \* kbit/s: null, or unlimitedRate at the encoder
Profiles == {"desktop", "mobile", "low-power-mobile"}
Sendings == {"lowest", "low", "normal", "unlimited"}

VARIABLES
    profile,        \* getPerformanceProfile: the device, for good
    send,           \* the user's choice
    expensive,      \* does the camera have an expensive filter?
    capped,         \* is there a pressureBitrateCap?
    pressure,       \* pressureCount, up to the 4 that matter
    healthy,        \* healthyCount, up to the 3 that matter
    refreshing,        \* sendParametersRefreshPending
    encoder         \* maxBitrate of the encoder

vars == <<profile, send, expensive, capped, pressure, healthy, refreshing, encoder>>

getSelectedMaxVideoThroughput(choice) ==
    CASE choice = "lowest" -> 150
      [] choice = "low" -> 300
      [] choice = "normal" -> 700
      [] choice = "unlimited" -> Unlimited

getMobileProfileVideoThroughputCap(filtered) ==
    CASE profile = "mobile" -> IF filtered THEN 900 ELSE 1400
      [] profile = "low-power-mobile" -> IF filtered THEN 600 ELSE 900
      [] OTHER -> Unlimited

getPressureFallbackVideoRate == IF profile = "low-power-mobile" THEN 350 ELSE 500

getMaxVideoThroughput(choice, filtered, cap) ==
    Min({getSelectedMaxVideoThroughput(choice),
         getMobileProfileVideoThroughputCap(filtered),
         IF cap THEN getPressureFallbackVideoRate ELSE Unlimited})

Limit == getMaxVideoThroughput(send, expensive, capped)

Init ==
    /\ profile \in Profiles /\ send \in Sendings /\ expensive \in BOOLEAN
    /\ capped = FALSE /\ pressure = 0 /\ healthy = 0
    /\ refreshing = FALSE
    /\ encoder = Limit

(* A stream that replaces the camera's: its tracks are added with the limit *)
(* of that moment, and a refresh of the old stream is none of its concern. *)
addUpTrackToConnection(choice, filtered, cap) ==
    /\ encoder' = getMaxVideoThroughput(choice, filtered, cap)
    /\ refreshing' = FALSE

CountOn == pressure + 1

CountAnew == 0

NoRefresh == refreshing

RefreshSoon == TRUE

FourGood == healthy + 1 > 3

EnoughGood == healthy + 1 >= 3

(* updateMobilePressurePolicy, on statistics that come every two seconds:  *)
(* after two bad reports in a row the rate is capped, after four the camera *)
(* is published again, as a new stream that knows nothing of all that.     *)
UnderPressure ==
    /\ profile # "desktop"
    /\ IF pressure = 3
       THEN /\ pressure' = CountAnew /\ capped' = FALSE
            /\ addUpTrackToConnection(send, expensive, FALSE)
       ELSE /\ pressure' = pressure + 1
            /\ capped' = (capped \/ pressure = 1)
            /\ refreshing' = IF capped' /\ ~capped THEN RefreshSoon ELSE refreshing
            /\ UNCHANGED encoder
    /\ healthy' = 0
    /\ UNCHANGED <<profile, send, expensive>>

(* Three good ones in a row, and the cap is lifted.                        *)
Healthy ==
    /\ profile # "desktop"
    /\ pressure' = 0
    /\ healthy' = Min({healthy + 1, 3})
    /\ capped' = (capped /\ ~EnoughGood)
    /\ refreshing' = IF capped /\ ~capped' THEN RefreshSoon ELSE refreshing
    /\ UNCHANGED <<profile, send, expensive, encoder>>

(* refreshStreamSendParameters: the limit is read when the refresh runs,   *)
(* and set before the next statistics come.                                *)
refreshStreamSendParameters ==
    /\ refreshing /\ refreshing' = FALSE
    /\ encoder' = Limit
    /\ UNCHANGED <<profile, send, expensive, capped, pressure, healthy>>

(* The user's choice: reconsiderSendParameters sets it at once.            *)
sendselect(choice) ==
    /\ send' = choice
    /\ encoder' = getMaxVideoThroughput(choice, expensive, capped)
    /\ UNCHANGED <<profile, expensive, capped, pressure, healthy, refreshing>>

(* Another filter: replaceUpStream, whose new stream keeps the cap and the *)
(* counters of the old one.                                                *)
filterselect ==
    /\ expensive' = ~expensive
    /\ addUpTrackToConnection(send, ~expensive, capped)
    /\ UNCHANGED <<profile, send, capped, pressure, healthy>>

Next ==
    \/ UnderPressure \/ Healthy \/ refreshStreamSendParameters
    \/ \E choice \in Sendings \ {send} : sendselect(choice)
    \/ filterselect

Spec == Init /\ [][Next]_vars

TypeOK ==
    /\ encoder \in Nat /\ pressure \in 0..3 /\ healthy \in 0..3
    /\ capped \in BOOLEAN /\ refreshing \in BOOLEAN

(* Whichever of the choice, the filter and the load changes last, and in   *)
(* whatever order, the encoder ends up with the limit they set together.   *)
EncoderFollows == ~refreshing => encoder = Limit

(* A rate that is not what the user chose and the device allows has its    *)
(* reason: the camera was under pressure in the last three reports, or the *)
(* refresh is on its way.                                                  *)
CapHasReason ==
    (~refreshing /\ encoder < getMaxVideoThroughput(send, expensive, FALSE))
        => pressure >= 2 \/ healthy < 3

=============================================================================
