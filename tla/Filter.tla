-------------------------------- MODULE Filter --------------------------------
(***************************************************************************)
(* A video filter of the camera (static/owly.js) from its construction on: *)
(* its start, the timer that draws frames while the page is seen, the      *)
(* worker that finds the person in each frame                              *)
(* (static/background-blur-worker.js), and its end, which may come while   *)
(* any of these waits.  A step is what runs between two waits for something*)
(* outside of the page.  A terminated worker never answers: only the timer *)
(* of the request ends the wait.                                           *)
(***************************************************************************)
EXTENDS Naturals, FiniteSets

CONSTANT MaxWorkers     \* alive at one time

FilterAssumption == MaxWorkers \in Nat \ {0}

Nobody == 0
WorkerIds == 1..MaxWorkers

VARIABLES
    definition,     \* "plain", "background-blur" or "background-replace"
    owner,          \* the stream that the filter was made for
    flt,            \* the fields of the Filter
    wk,             \* the workers; "none" before they are made and once terminated
    starting,       \* where Filter.start waits, and for which worker
    drawing,        \* where Filter.draw waits, and for which worker; it is busy
    visible,        \* document.visibilityState
    unloading,      \* history: beforeunload has paused filters, and the page stayed
    outlived        \* history: a frame was awaited when the filter was removed

filterVars == <<definition, owner, flt, wk, starting, drawing, visible,
                unloading, outlived>>

Awaiting(at, w) == [at |-> at, worker |-> w]
Idling == Awaiting("no", Nobody)

TypeOK ==
    /\ definition \in {"plain", "background-blur", "background-replace"}
    /\ owner \in {"open", "closed"}
    /\ flt \in [timer : BOOLEAN, paused : BOOLEAN, worker : {Nobody} \cup WorkerIds,
                workerTimeouts : 0..2, ended : BOOLEAN,
                of : {"nobody", "owner", "past"}]
    /\ wk \in [WorkerIds -> {"none", "new", "loaded"}]
    /\ starting \in [at : {"no", "play", "init", "image", "failed"},
                     worker : {Nobody} \cup WorkerIds]
    /\ drawing \in [at : {"no", "bitmap", "frame", "restart"},
                    worker : {Nobody} \cup WorkerIds]
    /\ visible \in BOOLEAN /\ unloading \in BOOLEAN /\ outlived \in BOOLEAN

(* setFilter makes the filter and starts it.  It is of its owner once that *)
(* has its userdata.filter, and of the past once it was removed.           *)
Init ==
    /\ definition \in {"plain", "background-blur", "background-replace"}
    /\ owner = "open"
    /\ flt = [timer |-> FALSE, paused |-> FALSE, worker |-> Nobody,
              workerTimeouts |-> 0, ended |-> FALSE, of |-> "nobody"]
    /\ wk = [w \in WorkerIds |-> "none"]
    /\ starting = Awaiting("play", Nobody)
    /\ drawing = Idling
    /\ visible \in BOOLEAN
    /\ unloading = FALSE /\ outlived = FALSE

Alive == {w \in WorkerIds : wk[w] # "none"}

terminate(ws, w) == [v \in WorkerIds |-> IF v = w THEN "none" ELSE ws[v]]

-----------------------------------------------------------------------------
(* The timer, and what happens when the filter ends.                       *)

(* As startTimer, seen or not.                                             *)
startAnyway(r) == [r EXCEPT !.timer = TRUE]

startTimer(r) == IF visible THEN [r EXCEPT !.timer = TRUE]
                 ELSE [r EXCEPT !.paused = TRUE]

pause(r) == [r EXCEPT !.timer = FALSE, !.paused = TRUE]

(* A filter that does not draw is resumed, seen as the page now is.        *)
resume(r) ==
    IF ~r.paused \/ r.timer THEN r
    ELSE [r EXCEPT !.paused = FALSE, !.timer = TRUE]

(* stop, with the cleanup of the definition.                               *)
stop(r) == [r EXCEPT !.timer = FALSE, !.paused = FALSE, !.worker = Nobody]

(* As cleanup, with the worker left alone.                                 *)
forgetWorker(ws, r) == ws

cleanup(ws, r) == terminate(ws, r.worker)

(* removeFilter: the owner drops the filter and stops it.                  *)
removeFilter(r, drawn) ==
    /\ flt' = [stop(r) EXCEPT !.of = "past"]
    /\ outlived' = (drawn.at = "frame")

-----------------------------------------------------------------------------
(* Workers.                                                                *)

(* As NewWorker, with the old worker left running.                         *)
AnotherWorker(ws, r) ==
    LET w == CHOOSE v \in WorkerIds : ws[v] = "none"
    IN [ws |-> [ws EXCEPT ![w] = "new"], w |-> w]

(* createSegmentationWorker, up to its wait: the old worker goes first.    *)
NewWorker(ws, r) ==
    LET left == terminate(ws, r.worker)
        w == CHOOSE v \in WorkerIds : left[v] = "none"
    IN [ws |-> [left EXCEPT ![w] = "new"], w |-> w]

(* A worker loads its model once, and then finds the person in each frame; *)
(* either may throw.                                                       *)
loadImageSegmenter(w) ==
    IF wk[w] = "loaded" THEN {"error"} ELSE {"done", "error"}

foregroundMask(w) ==
    IF wk[w] = "loaded" THEN {"done", "error"} ELSE {"error"}

onmessage(w, what) ==
    IF what = "model" THEN loadImageSegmenter(w) ELSE foregroundMask(w)

(* As Answers, without the timer of the request.                           *)
AnswersOnly(w, what) == IF w \in Alive THEN onmessage(w, what) ELSE {}

(* How workerSendReceive may end.                                          *)
Answers(w, what) ==
    {"timeout"} \cup IF w \in Alive THEN onmessage(w, what) ELSE {}

-----------------------------------------------------------------------------
(* Start.                                                                  *)

(* The end of start, and what setFilter does then: the owner, open or not, *)
(* gets the filter.                                                        *)
Started(r) ==
    /\ flt' = [startTimer(r) EXCEPT !.of = "owner"]
    /\ starting' = Idling

(* The video plays, or cannot.                                             *)
Played ==
    /\ starting.at = "play"
    /\ IF definition = "plain"
       THEN Started(flt) /\ UNCHANGED wk
       ELSE LET new == NewWorker(wk, flt)
            IN /\ wk' = new.ws
               /\ flt' = [flt EXCEPT !.worker = new.w]
               /\ starting' = Awaiting("init", new.w)
    /\ UNCHANGED <<definition, owner, drawing, visible, unloading, outlived>>

(* A worker that cannot be used is terminated, and forgotten if it is the  *)
(* filter's.                                                               *)
GivenUp(w) ==
    /\ wk' = terminate(wk, w)
    /\ flt' = [flt EXCEPT !.worker = IF @ = w THEN Nobody ELSE @]

Initialised(answer) ==
    /\ starting.at = "init"
    /\ answer \in Answers(starting.worker, "model")
    /\ IF answer = "done"
       THEN /\ wk' = [wk EXCEPT ![starting.worker] = "loaded"]
            /\ IF definition = "background-replace"
               THEN /\ starting' = Awaiting("image", Nobody)
                    /\ flt' = [flt EXCEPT !.workerTimeouts = 0]
               ELSE Started([flt EXCEPT !.workerTimeouts = 0])
       ELSE GivenUp(starting.worker) /\ starting' = Awaiting("failed", Nobody)
    /\ UNCHANGED <<definition, owner, drawing, visible, unloading, outlived>>

(* The background is there, or is none.                                    *)
loadBackgroundImage ==
    /\ starting.at = "image"
    /\ Started(flt)
    /\ UNCHANGED <<definition, owner, wk, drawing, visible, unloading, outlived>>

-----------------------------------------------------------------------------
(* Draw.  A plain filter draws in one step, which leaves all this alone.   *)

draw ==
    /\ flt.timer /\ ~flt.paused /\ visible
    /\ drawing = Idling
    /\ flt.worker # Nobody
    /\ drawing' = Awaiting("bitmap", Nobody)
    /\ UNCHANGED <<definition, owner, flt, wk, starting, visible, unloading, outlived>>

(* The frame is copied, and sent to the worker; there may be none any more.*)
createImageBitmap(ok) ==
    /\ drawing.at = "bitmap"
    /\ drawing' = IF ok /\ flt.worker # Nobody
                  THEN Awaiting("frame", flt.worker) ELSE Idling
    /\ UNCHANGED <<definition, owner, flt, wk, starting, visible, unloading, outlived>>

(* The effect is given up.                                                 *)
fallbackFilterForPerformance(r) ==
    IF r.of = "owner" /\ owner = "open"
    THEN removeFilter(r, Idling) /\ wk' = cleanup(wk, r)
    ELSE flt' = r /\ UNCHANGED <<wk, outlived>>

(* A worker that is late is replaced, whether the filter is still in use or*)
(* not.  One that is late a second time, with no new one loaded since,     *)
(* would end the effect; but without a new one no frame is sent.           *)
restartSegmentationWorker ==
    IF flt.workerTimeouts + 1 >= 2
    THEN /\ drawing' = Idling
         /\ fallbackFilterForPerformance([flt EXCEPT !.workerTimeouts = 2])
    ELSE LET new == NewWorker(wk, flt)
         IN /\ wk' = new.ws
            /\ flt' = [flt EXCEPT !.worker = new.w, !.workerTimeouts = @ + 1]
            /\ drawing' = Awaiting("restart", new.w)
            /\ UNCHANGED outlived

Answered(answer) ==
    /\ drawing.at = "frame"
    /\ answer \in Answers(drawing.worker, "frame")
    /\ IF answer = "timeout" THEN restartSegmentationWorker
       ELSE drawing' = Idling /\ UNCHANGED <<flt, wk, outlived>>
    /\ UNCHANGED <<definition, owner, starting, visible, unloading>>

Restarted(answer) ==
    /\ drawing.at = "restart"
    /\ answer \in Answers(drawing.worker, "model")
    /\ IF answer = "done"
       THEN /\ wk' = [wk EXCEPT ![drawing.worker] = "loaded"]
            /\ flt' = [flt EXCEPT !.workerTimeouts = 0]
       ELSE GivenUp(drawing.worker)
    /\ drawing' = Idling
    /\ UNCHANGED <<definition, owner, starting, visible, unloading, outlived>>

-----------------------------------------------------------------------------
(* What the user, the page and the device do.                              *)

(* Another filter is chosen, the camera is switched off or republished, or *)
(* its stream is closed: the filter is removed, if it is there yet.        *)
Remove(closes) ==
    /\ owner = "open"
    /\ owner' = IF closes THEN "closed" ELSE owner
    /\ IF flt.of = "owner"
       THEN removeFilter(flt, drawing) /\ wk' = cleanup(wk, flt)
       ELSE closes /\ UNCHANGED <<flt, wk, outlived>>
    /\ UNCHANGED <<definition, starting, drawing, visible, unloading>>

(* The camera is unplugged: the filter stops where it is.                  *)
TrackEnded ==
    /\ owner = "open" /\ flt.of # "past" /\ ~flt.ended /\ starting.at # "failed"
    /\ flt' = [stop(flt) EXCEPT !.ended = TRUE]
    /\ wk' = cleanup(wk, flt)
    /\ UNCHANGED <<definition, owner, starting, drawing, visible, unloading, outlived>>

(* Only the filters of open streams are found.                             *)
setFiltersPaused(paused) ==
    flt' = IF flt.of # "owner" \/ owner = "closed" THEN flt
           ELSE IF paused THEN pause(flt) ELSE resume(flt)

visibilitychange ==
    /\ visible' = ~visible /\ unloading' = FALSE
    /\ setFiltersPaused(visible)
    /\ UNCHANGED <<definition, owner, wk, starting, drawing, outlived>>

(* The page is about to be left, and is not.                               *)
beginPageTransitionDisconnect ==
    /\ visible /\ unloading' = TRUE
    /\ setFiltersPaused(TRUE)
    /\ UNCHANGED <<definition, owner, wk, starting, drawing, visible, outlived>>

(* Workers answer or are given up, videos play and images load.            *)
Progress ==
    \/ Played
    \/ loadBackgroundImage
    \/ \E ok \in BOOLEAN : createImageBitmap(ok)
    \/ \E answer \in {"done", "error", "timeout"} :
          Initialised(answer) \/ Answered(answer) \/ Restarted(answer)

Next ==
    \/ Progress
    \/ draw
    \/ TrackEnded
    \/ visibilitychange
    \/ beginPageTransitionDisconnect
    \/ \E closes \in BOOLEAN : Remove(closes)

Spec == Init /\ [][Next]_filterVars /\ WF_filterVars(Progress)

-----------------------------------------------------------------------------
(* Every worker that runs can still be terminated: the filter knows it.    *)
(* However starts, restarts, answers and ends are interleaved, none runs   *)
(* beside another (createSegmentationWorker, stop).                        *)
WorkersKnown == Alive \subseteq {flt.worker}

(* A filter that was removed has no worker, unless a frame was awaited then*)
(* (removeFilter, stop; the frame's timer makes a new worker later).       *)
WorkersEnd == flt.of = "past" /\ ~outlived => Alive = {}

(* A filter in use draws whenever the page is seen, and only then, whether *)
(* it was shown or hidden before, during or after the start.               *)
RunsWhenSeen ==
    flt.of = "owner" /\ owner = "open" /\ ~flt.ended /\ ~unloading
        => flt.timer = visible

(* The same of the worker, whenever it was awaited.                        *)
WorkersAlwaysEnd == flt.of = "past" => Alive = {}

(* A filter that draws has its worker.                                     *)
NeverBlank ==
    flt.of = "owner" /\ definition # "plain" /\ ~flt.ended => flt.worker # Nobody

Waiting == starting.at \in {"play", "init", "image"} \/ drawing # Idling

(* No wait is for ever.                                                    *)
WaitsEnd == []<>~Waiting
=============================================================================
