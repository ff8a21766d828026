---------------------------- MODULE FileTransfer ----------------------------
(***************************************************************************)
(* One file sent from one page to another (static/protocol.js, the         *)
(* TransferredFile objects, and the rows of static/owly.js that show them). *)
(* The two pages negotiate a peer connection with user messages that the   *)
(* server forwards in order; the file itself goes over a data channel.     *)
(* What is between two awaits of a handler is one step.                    *)
(***************************************************************************)
EXTENDS Naturals, Sequences, FiniteSets

CONSTANTS
    MaxSize,    \* the largest file, in chunks (files of 0..MaxSize are tried)
    MaxIce,     \* ICE candidates a page discovers
    BufferLow   \* bufferedAmountLowThreshold, in chunks

FileTransferAssumption == MaxSize \in Nat /\ MaxIce \in Nat /\ BufferLow \in Nat

VARIABLES
    f,          \* page -> its TransferredFile and its row in the chat box
    wire,       \* page -> user messages on their way to it
    chan,       \* the data channel: its state and what is in flight in it
    online,     \* page -> is its ServerConnection's socket open?
    size,       \* the size of the file
    ice,        \* page -> candidates it has sent, and has handed to its pc
    saved       \* how many times the receiver was handed the whole file

vars == <<f, wire, chan, online, size, ice, saved>>

Page == {"up", "down"}
Other(p) == IF p = "up" THEN "down" ELSE "up"

(* pc is the signalling state; "new" is a stable connection that has had   *)
(* no description yet.  busy names the asynchronous function that is       *)
(* suspended in an await.  shown is what the row says.                     *)
File == [state : {"none", "inviting", "connecting", "connected", "done", "closed"},
         pc    : {"null", "new", "have-local-offer", "have-remote-offer", "stable"},
         dc    : BOOLEAN,
         len   : 0..MaxSize,
         held  : 0..MaxIce,
         busy  : {"no", "receive", "answer", "receiveFile", "handshake"},
         shown : {"nothing", "offer", "connecting", "connected", "done", "cancelled"}]

TransferredFile == [state |-> "none", pc |-> "null", dc |-> FALSE, len |-> 0,
                    held |-> 0, busy |-> "no", shown |-> "nothing"]

StillFound(p) == f[p].state # "none"

getTransferredFile(p) == f[p].state \notin {"none", "closed"}

(* The buttons of the row.                                                 *)
CanAccept(p) == p = "down" /\ f[p].shown = "offer"
CanCancel(p) == f[p].shown \in {"offer", "connecting", "connected"}

(* close drops the connection, the channel and the data, forgets the file. *)
Close(r) == [r EXCEPT !.state = "closed", !.pc = "null", !.dc = FALSE,
                      !.len = 0, !.held = 0, !.busy = "no"]

Event(r, s) == [r EXCEPT !.state = s, !.shown = s]

Count(m, s) == Cardinality({i \in DOMAIN s : s[i] = m})

(* A connection that ends takes its channel with it, if there was one.     *)
Hangup == chan' = [chan EXCEPT !.state = IF @ = "none" THEN "none" ELSE "closed"]

Post(p, m) == wire' = [wire EXCEPT ![Other(p)] = Append(@, m)]
Consume(p) == wire' = [wire EXCEPT ![p] = Tail(@)]
Incoming(p, m) == online[p] /\ wire[p] # <<>> /\ Head(wire[p]) = m

CancelledOpen(r) == [r EXCEPT !.shown = "cancelled"]

Cancelled(r) == [Close(r) EXCEPT !.shown = "cancelled"]

(* cancel(): the peer is told before anything else is done, and telling it *)
(* throws when the socket is not open: then nothing changes at all.        *)
Cancel(p) ==
    IF f[p].state = "closed"
    THEN UNCHANGED <<f, chan, wire>>
    ELSE IF f[p].state = "done"
    THEN f' = [f EXCEPT ![p] = Close(@)] /\ Hangup /\ UNCHANGED wire
    ELSE IF online[p]
    THEN f' = [f EXCEPT ![p] = Cancelled(@)]
         /\ Hangup /\ Post(p, "cancel")
    ELSE UNCHANGED <<f, chan, wire>>

Init ==
    /\ f = [p \in Page |-> TransferredFile]
    /\ wire = [p \in Page |-> <<>>]
    /\ chan = [state |-> "none", down |-> <<>>, up |-> <<>>]
    /\ online = [p \in Page |-> TRUE]
    /\ size \in 0..MaxSize
    /\ ice = [p \in Page |-> [sent |-> 0, added |-> 0]]
    /\ saved = 0

sendFile ==
    /\ f["up"].state = "none" /\ online["up"] /\ online["down"]
    /\ f' = [f EXCEPT !["up"].state = "inviting", !["up"].shown = "offer"]
    /\ Post("up", "invite")
    /\ UNCHANGED <<chan, online, size, ice, saved>>

GotInvite ==
    /\ Incoming("down", "invite")
    /\ Consume("down")
    /\ f' = [f EXCEPT !["down"].state = "inviting", !["down"].shown = "offer"]
    /\ UNCHANGED <<chan, online, size, ice, saved>>

(* The user accepts: receive() up to its first await.                      *)
receive ==
    /\ CanAccept("down")
    /\ f' = [f EXCEPT !["down"] =
                [Event(@, "connecting") EXCEPT !.pc = "new", !.dc = TRUE,
                                               !.busy = "receive"]]
    /\ UNCHANGED <<wire, chan, online, size, ice, saved>>

(* The rest of receive(): the local description is set, the offer sent.    *)
OfferReady ==
    /\ f["down"].busy = "receive"
    /\ f' = [f EXCEPT !["down"].pc = "have-local-offer", !["down"].busy = "no"]
    /\ IF online["down"] THEN Post("down", "offer") ELSE UNCHANGED wire
    /\ UNCHANGED <<chan, online, size, ice, saved>>

(* An offer starts answer(), which is suspended in setRemoteDescription.   *)
GotOffer ==
    /\ Incoming("up", "offer")
    /\ Consume("up")
    /\ f' = IF getTransferredFile("up")
            THEN [f EXCEPT !["up"] = [Event(@, "connecting") EXCEPT
                                         !.pc = "new", !.busy = "answer"]]
            ELSE f
    /\ UNCHANGED <<chan, online, size, ice, saved>>

OfferApplied ==
    /\ f["up"].busy = "answer" /\ f["up"].pc = "new"
    /\ f' = [f EXCEPT !["up"].pc = "have-remote-offer"]
    /\ UNCHANGED <<wire, chan, online, size, ice, saved>>

(* The connection becomes stable: the candidates held back are added.      *)
Stable(p) ==
    /\ f' = [f EXCEPT ![p] = [@ EXCEPT !.pc = "stable", !.busy = "no",
                                       !.held = 0, !.state = "connected",
                                       !.shown = "connected"]]
    /\ ice' = [ice EXCEPT ![p].added = @ + f[p].held]

(* The end of answer(); a send that throws leaves the file as it is,       *)
(* because the cancel that follows throws as well.                         *)
AnswerReady ==
    /\ f["up"].busy = "answer" /\ f["up"].pc = "have-remote-offer"
    /\ IF online["up"]
       THEN Stable("up") /\ Post("up", "answer")
       ELSE /\ f' = [f EXCEPT !["up"].pc = "stable", !["up"].busy = "no",
                              !["up"].held = 0]
            /\ ice' = [ice EXCEPT !["up"].added = @ + f["up"].held]
            /\ UNCHANGED wire
    /\ UNCHANGED <<chan, online, size, saved>>

GotAnswer ==
    /\ Incoming("down", "answer")
    /\ Consume("down")
    /\ f' = IF getTransferredFile("down")
            THEN [f EXCEPT !["down"].busy = "receiveFile"] ELSE f
    /\ UNCHANGED <<chan, online, size, ice, saved>>

receiveFile ==
    /\ f["down"].busy = "receiveFile"
    /\ Stable("down")
    /\ UNCHANGED <<wire, chan, online, size, saved>>

(* A page discovers a candidate once its local description is set.         *)
LocalIce(p) ==
    /\ f[p].pc \in {"have-local-offer", "stable"} /\ ice[p].sent < MaxIce
    /\ online[p]
    /\ Post(p, "ice")
    /\ ice' = [ice EXCEPT ![p].sent = @ + 1]
    /\ UNCHANGED <<f, chan, online, size, saved>>

HoldNone(r) == r

Hold(r) == [r EXCEPT !.held = @ + 1]

(* A candidate is added at once to a stable connection, held otherwise,    *)
(* dropped when there is no connection.  On a new connection it is queued  *)
(* by the browser behind setRemoteDescription.                             *)
GotIce(p) ==
    /\ Incoming(p, "ice")
    /\ Consume(p)
    /\ IF ~getTransferredFile(p) \/ f[p].pc = "null"
       THEN UNCHANGED <<f, ice>>
       ELSE IF f[p].pc \in {"new", "stable"}
       THEN ice' = [ice EXCEPT ![p].added = @ + 1] /\ UNCHANGED f
       ELSE f' = [f EXCEPT ![p] = Hold(@)] /\ UNCHANGED ice
    /\ UNCHANGED <<chan, online, size, saved>>

(* The two connections find each other: the sender's ondatachannel.  They  *)
(* may not, and nothing in the code looks at the state of the connection,  *)
(* or waits for so long only: the step is not among those that must come.  *)
DataChannel ==
    /\ chan.state = "none"
    /\ \A p \in Page : f[p].pc = "stable"
    /\ chan' = [chan EXCEPT !.state = "open"]
    /\ f' = [f EXCEPT !["up"].dc = TRUE]
    /\ UNCHANGED <<wire, online, size, ice, saved>>

More == f["up"].len < size

WrittenIsDone(r) == Event(r, IF r.len + 1 = size THEN "done" ELSE "connected")

Written(r) == Event(r, "connected")

(* One turn of the loop of send(), suspended while too much is buffered.   *)
write ==
    /\ f["up"].dc /\ More
    /\ IF chan.state = "closed"
       THEN Cancel("up")
       ELSE /\ Len(chan.down) <= BufferLow
            /\ chan' = [chan EXCEPT !.down = Append(@, f["up"].len + 1)]
            /\ f' = [f EXCEPT !["up"] = [Written(@) EXCEPT !.len = f["up"].len + 1]]
            /\ UNCHANGED wire
    /\ UNCHANGED <<online, size, ice, saved>>

PastEnd(r) == r.len > size

Complete(r) == r.len = size

(* receiveData(): the last chunk ends the transfer, and the sender is told *)
(* over the channel; onmessage is removed, so nothing follows.             *)
receiveData ==
    /\ f["down"].dc /\ f["down"].busy # "handshake" /\ chan.down # <<>>
    /\ LET r == [f["down"] EXCEPT !.len = @ + 1]
       IN IF ~Complete(r)
          THEN /\ f' = [f EXCEPT !["down"] = Event(r, "connected")]
               /\ chan' = [chan EXCEPT !.down = Tail(@)]
               /\ UNCHANGED saved
          ELSE /\ saved' = saved + 1
               /\ f' = [f EXCEPT !["down"] =
                          IF chan.state = "open"
                          THEN [Event(r, "done") EXCEPT !.len = 0, !.busy = "handshake"]
                          ELSE Close(Event(r, "done"))]
               /\ chan' = [chan EXCEPT !.down = Tail(@), !.up =
                             IF chan.state = "open" THEN Append(@, "done") ELSE @]
    /\ UNCHANGED <<wire, online, size, ice>>

(* The sender is told: it is done if it has sent everything.               *)
GotDone ==
    /\ f["up"].dc /\ chan.up # <<>>
    /\ IF f["up"].len = size
       THEN f' = [f EXCEPT !["up"] = Close(Event(@, "done"))] /\ Hangup /\ UNCHANGED wire
       ELSE Cancel("up")
    /\ UNCHANGED <<online, size, ice, saved>>

(* The receiver closes when the sender has, or after two seconds.          *)
Handshaken ==
    /\ f["down"].busy = "handshake"
    /\ f' = [f EXCEPT !["down"] = Close(@)]
    /\ Hangup
    /\ UNCHANGED <<wire, online, size, ice, saved>>

(* The onclose and onerror handlers of a channel.                          *)
ChannelClosed(p) ==
    /\ f[p].dc /\ chan.state = "closed" /\ f[p].busy # "handshake"
    /\ Cancel(p)
    /\ UNCHANGED <<online, size, ice, saved>>

(* The button Cancel, or Reject, of the row.                               *)
UserCancel(p) ==
    /\ CanCancel(p)
    /\ Cancel(p)
    /\ UNCHANGED <<online, size, ice, saved>>

CancelledByPeerOpen(r) == [r EXCEPT !.shown = "cancelled"]

CancelledByPeer(r) == Cancelled(r)

GotCancel(p) ==
    /\ Incoming(p, "cancel")
    /\ Consume(p)
    /\ IF getTransferredFile(p)
       THEN f' = [f EXCEPT ![p] = CancelledByPeer(@)] /\ Hangup
       ELSE UNCHANGED <<f, chan>>
    /\ UNCHANGED <<online, size, ice, saved>>

(* The server says that the other user has left: fail().                   *)
fail(p) ==
    /\ Incoming(p, "gone")
    /\ Consume(p)
    /\ IF getTransferredFile(p) /\ f[p].state # "done"
       THEN f' = [f EXCEPT ![p] = Cancelled(@)] /\ Hangup
       ELSE UNCHANGED <<f, chan>>
    /\ UNCHANGED <<online, size, ice, saved>>

(* A page loses the server: its transfers are not told (handleSocketClose  *)
(* does not look at them); what was on its way to it is lost.              *)
SocketClose(p) ==
    /\ online[p]
    /\ online' = [online EXCEPT ![p] = FALSE]
    /\ wire' = [wire EXCEPT ![p] = <<>>, ![Other(p)] = Append(@, "gone")]
    /\ UNCHANGED <<f, chan, size, ice, saved>>

(* The pages lose each other.                                              *)
ChannelBreaks ==
    /\ chan.state = "open"
    /\ Hangup
    /\ UNCHANGED <<f, wire, online, size, ice, saved>>

Handler(p) == GotIce(p) \/ GotCancel(p) \/ fail(p) \/ ChannelClosed(p)

Progress ==
    \/ GotInvite \/ OfferReady \/ GotOffer \/ OfferApplied \/ AnswerReady
    \/ GotAnswer \/ receiveFile \/ write \/ receiveData
    \/ GotDone \/ Handshaken \/ \E p \in Page : Handler(p)

Next ==
    \/ sendFile \/ receive \/ Progress \/ DataChannel \/ ChannelBreaks
    \/ \E p \in Page : LocalIce(p) \/ UserCancel(p) \/ SocketClose(p)

(* Messages are delivered, promises settle and timers fire.  A user need   *)
(* never act, and the two pages need never find a way to each other.       *)
Spec == Init /\ [][Next]_vars /\ WF_vars(Progress)

TypeOK ==
    /\ f \in [Page -> File]
    /\ chan.state \in {"none", "open", "closed"}
    /\ online \in [Page -> BOOLEAN]
    /\ size \in 0..MaxSize /\ saved \in 0..1

(* The sender's row says Done only when the receiver was handed the file,  *)
(* exactly once, whoever cancels, loses the server or loses the channel.   *)
DoneMeansSaved == f["up"].shown = "done" => saved = 1

(* While both pages are in the transfer, no candidate is lost: each one is *)
(* on its way, held back, or in the connection.                            *)
CandidatesKept ==
    \A p \in Page :
        (online[p] /\ getTransferredFile(p) /\ getTransferredFile(Other(p)) /\ f[p].pc # "null") =>
            /\ ice[Other(p)].sent = ice[p].added + f[p].held + Count("ice", wire[p])
            /\ (f[p].pc = "stable") => (f[p].held = 0)

(* A row that says Cancelled, and a transfer that is closed, stay so: no   *)
(* promise, message or chunk that comes late revives one.                  *)
Settled ==
    [][\A p \in Page :
          /\ (f[p].shown = "cancelled") => (f'[p].shown = "cancelled")
          /\ (f[p].state = "closed") => (f'[p].state = "closed")
          /\ (f["up"].shown = "done") => (f'["up"].shown = "done")]_vars

(* A page tells its peer at most once that it has cancelled.               *)
CancelledOnce == \A p \in Page : Count("cancel", wire[p]) <= 1

OneEnded ==
    \E p \in Page :
        /\ f[p].state = "closed" /\ online[Other(p)]
        /\ f[Other(p)].state \notin {"none", "closed"}

HalfWay ==
    /\ f["down"].state \in {"connecting", "connected", "done"} /\ size # 0 /\ online["down"]
    /\ chan.state # "none" \/ ~online["up"]

(* When one page has closed the transfer, the other one closes it too, as  *)
(* long as it has the server.                                              *)
BothEnd == []<>~OneEnded

(* An accepted file that is not empty does not stay half transferred once  *)
(* the two pages have found each other, or the sender has left.  One whose *)
(* pages never do stays until somebody cancels it.                         *)
AcceptedEnds == []<>~HalfWay

=============================================================================
