----------------------------- MODULE TabIdentity -----------------------------
(***************************************************************************)
(* The identity of a browser tab (static/protocol.js): a key in            *)
(* window.name, and under it, in the storage that all tabs share, the      *)
(* client id, the username and the token that resumes the session.  A tab  *)
(* that is duplicated starts with the same key; before it connects, a page *)
(* asks the others whether one of them owns its key, and waits for 150 ms. *)
(* The page prepares the identity for the username it last asked to join   *)
(* with, when it remembers one (reconnectState, static/owly.js), and joins *)
(* with that of the login form.                                            *)
(***************************************************************************)
EXTENDS Naturals

CONSTANTS
    Tabs,       \* browsing contexts
    Users,      \* usernames
    Timely,     \* TRUE: an answer to a probe comes within the 150 ms
    MaxActs,    \* things that users and the network do
    MaxFresh    \* random numbers drawn; the same one may be a key, an id, a token

NoOne == 0              \* null, for an id, a key, a token or a username

TabIdentityAssumption == MaxFresh \in Nat /\ MaxActs \in Nat /\ NoOne \notin Users

Nothing == [id |-> NoOne, user |-> NoOne, token |-> NoOne]

VARIABLES
    tab,        \* tab -> its window.name, session storage and page
    local,      \* key -> what local storage holds under it
    probes,     \* probes not yet delivered: who asks whom about which key
    acks,       \* answers on their way: to whom about which key
    fresh,      \* the last random number drawn
    grants,     \* token -> the id and the username the server gave it for
    last,       \* tab -> the key and the id it last connected with, the username
                \* it was to join with, and the one its identity was prepared for
    acts        \* things done so far

vars == <<tab, local, probes, acks, fresh, grants, last, acts>>

Closed == [phase |-> "closed", name |-> NoOne, session |-> Nothing,
           channel |-> FALSE, user |-> NoOne, sc |-> NoOne, cloned |-> FALSE,
           auth |-> FALSE, asked |-> NoOne]

NotYet == [key |-> NoOne, user |-> NoOne, as |-> NoOne, id |-> NoOne]

(* What the page reads: local storage first, then session storage.         *)
getPersistentClientValue(t, field) ==
    IF local[tab[t].name][field] # NoOne THEN local[tab[t].name][field]
    ELSE tab[t].session[field]

Identity(t) == [field \in DOMAIN Nothing |-> getPersistentClientValue(t, field)]

(* Values are written under the tab's key and to session storage.          *)
setPersistentClientValue(t, name, stored, session, page) ==
    /\ local' = [local EXCEPT ![name] = stored]
    /\ tab' = [tab EXCEPT ![t] = [page EXCEPT !.name = name, !.session = session]]

Granted(was, user, token) == [was EXCEPT !.user = user, !.token = token]

Act == acts < MaxActs /\ acts' = acts + 1

Draw(values) == fresh' = IF fresh + 1 \in values THEN fresh + 1 ELSE fresh

(* The key is drawn when it is first needed.                               *)
getPersistentClientTabKey(t) ==
    IF tab[t].name = NoOne THEN fresh + 1 ELSE tab[t].name

EnsureKeepingToken(was, user, id) ==
    [id |-> IF was.id = NoOne \/ (was.user # NoOne /\ was.user # user) THEN id ELSE was.id,
     user |-> user, token |-> was.token]

EnsureAnew(was, user, id) == [id |-> id, user |-> user, token |-> NoOne]

(* A username that differs from the one remembered gets a new id and loses *)
(* the resume token; none at all forgets both.  Then the id is read, or    *)
(* drawn.  The result is what is to be written.                            *)
ensurePersistentClientIdForUsername(was, user, id) ==
    LET kept == IF was.id = NoOne THEN id ELSE was.id
    IN IF user = NoOne THEN [id |-> kept, user |-> NoOne, token |-> NoOne]
       ELSE IF was.user # NoOne /\ was.user # user
       THEN [id |-> id, user |-> user, token |-> NoOne]
       ELSE [id |-> kept, user |-> user, token |-> was.token]

ListenersJoined(t) == {u \in Tabs \ {t} : tab[u].phase = "joined"}

(* The pages that listen on the probe channel.                             *)
Listeners(t) == {u \in Tabs \ {t} : tab[u].channel}

Init ==
    /\ tab = [t \in Tabs |-> Closed]
    /\ local = [k \in 0..MaxFresh |-> Nothing]
    /\ probes = {} /\ acks = {}
    /\ fresh = 0
    /\ grants = [k \in 0..MaxFresh |-> Nothing]
    /\ acts = 0
    /\ last = [t \in Tabs |-> NotYet]

Open(t) ==
    /\ Act
    /\ tab[t].phase = "closed"
    /\ tab' = [tab EXCEPT ![t] = [Closed EXCEPT !.phase = "idle"]]
    /\ last' = [last EXCEPT ![t] = NotYet]
    /\ UNCHANGED <<local, probes, acks, fresh, grants>>

(* The browser copies window.name and session storage to the new tab.      *)
Duplicate(t, u) ==
    /\ Act
    /\ tab[t].phase # "closed" /\ tab[u].phase = "closed" /\ tab[t].name # NoOne
    /\ tab' = [tab EXCEPT ![u] = [Closed EXCEPT !.phase = "idle",
                                     !.name = tab[t].name, !.cloned = TRUE,
                                     !.session = tab[t].session],
                          ![t].cloned = TRUE]
    /\ last' = [last EXCEPT ![u] = NotYet]
    /\ UNCHANGED <<local, probes, acks, fresh, grants>>

Forget(t) ==
    /\ probes' = {p \in probes : p.from # t /\ p.to # t}
    /\ acks' = {a \in acks : a.to # t}

(* A reload keeps the tab and starts a new page, with a new page id.       *)
Reload(t) ==
    /\ Act
    /\ tab[t].phase # "closed" /\ (tab[t].channel \/ tab[t].auth)
    /\ tab' = [tab EXCEPT ![t].phase = "idle", ![t].channel = FALSE, ![t].sc = NoOne,
                          ![t].user = NoOne, ![t].auth = FALSE, ![t].asked = NoOne]
    /\ Forget(t)
    /\ UNCHANGED <<local, fresh, grants, last>>

CloseTab(t) ==
    /\ Act
    /\ tab[t].phase # "closed"
    /\ tab' = [tab EXCEPT ![t] = Closed]
    /\ Forget(t)
    /\ UNCHANGED <<local, fresh, grants, last>>

(* ensurePersistentClientTabOwnership: the channel is opened, the probe    *)
(* posted, the answer awaited.                                             *)
Probe(t, key) ==
    probes' = probes \cup {[from |-> t, to |-> u, key |-> key] : u \in Listeners(t)}

(* The login form: the username is recorded before the probe is sent.      *)
loginform(t, user) ==
    /\ Act
    /\ tab[t].phase = "idle" /\ fresh < MaxFresh
    /\ LET key == getPersistentClientTabKey(t)
           was == IF tab[t].name = NoOne THEN tab[t].session ELSE Identity(t)
           now == ensurePersistentClientIdForUsername(was, user, fresh + 1)
       IN /\ setPersistentClientValue(t, key, now, now,
                 [tab[t] EXCEPT !.phase = "probing", !.channel = TRUE, !.user = user])
          /\ Probe(t, key)
          /\ Draw({key, now.id})
    /\ last' = IF last[t].user = user THEN last ELSE [last EXCEPT ![t].user = NoOne]
    /\ UNCHANGED <<acks, grants>>

(* A connection is lost, and the page, which remembers what it asked for,  *)
(* connects again by itself.                                               *)
Reconnect(t) ==
    /\ Act
    /\ tab[t].phase \in {"connecting", "joining", "joined"} /\ tab[t].auth
    /\ tab' = [tab EXCEPT ![t].phase = "probing", ![t].sc = NoOne]
    /\ Probe(t, tab[t].name)
    /\ UNCHANGED <<local, acks, fresh, grants, last>>

(* The handler of the probe channel: a page answers for its own key.       *)
getPersistentClientProbeChannel(p) ==
    /\ p \in probes
    /\ probes' = probes \ {p}
    /\ acks' = IF tab[p.to].name = p.key
               THEN acks \cup {[to |-> p.from, key |-> p.key]} ELSE acks
    /\ UNCHANGED <<tab, local, fresh, grants, last, acts>>

(* An answer that comes in time splits the identity: a new key, a new id,  *)
(* the same username, no resume token.                                     *)
splitPersistentClientIdentityAcrossTabs(a) ==
    /\ a \in acks
    /\ LET t == a.to
       IN IF tab[t].phase = "probing" /\ a.key = tab[t].name
          THEN /\ fresh < MaxFresh
               /\ fresh' = fresh + 1
               /\ LET now == [id |-> fresh + 1, user |-> Identity(t).user, token |-> NoOne]
                  IN setPersistentClientValue(t, fresh + 1, now, now,
                         [tab[t] EXCEPT !.phase = "owner", !.cloned = FALSE])
          ELSE UNCHANGED <<tab, local, fresh>>
    /\ acks' = acks \ {a}
    /\ UNCHANGED <<probes, grants, last, acts>>

(* 150 ms have passed.                                                     *)
ProbeTimeout(t) ==
    /\ tab[t].phase = "probing"
    /\ Timely => /\ \A p \in probes : p.from # t
                 /\ \A a \in acks : a.to # t
    /\ tab' = [tab EXCEPT ![t].phase = "owner"]
    /\ UNCHANGED <<local, probes, acks, fresh, grants, last, acts>>

(* The username that the identity is prepared for: that of the last join,  *)
(* if there is one to repeat, and not that of the form.                    *)
Prepared(t) == IF tab[t].auth THEN tab[t].asked ELSE tab[t].user

(* The rest of serverConnect: a username is recorded again, and the        *)
(* connection takes the stored id.                                         *)
ServerConnection(t) ==
    /\ tab[t].phase = "owner" /\ fresh < MaxFresh
    /\ LET now == ensurePersistentClientIdForUsername(Identity(t), Prepared(t), fresh + 1)
       IN /\ setPersistentClientValue(t, tab[t].name, now, now,
                 [tab[t] EXCEPT !.phase = "connecting", !.sc = now.id])
          /\ last' = [last EXCEPT ![t] = [key |-> tab[t].name, user |-> tab[t].user,
                                          as |-> Prepared(t), id |-> now.id]]
          /\ Draw({now.id})
    /\ UNCHANGED <<probes, acks, grants, acts>>

(* The socket is open: the page asks to join, presents the token that it   *)
(* reads now, and remembers what it asked for.                             *)
join(t) ==
    /\ tab[t].phase = "connecting"
    /\ tab' = [tab EXCEPT ![t].phase = "joining", ![t].auth = TRUE,
                          ![t].asked = tab[t].user]
    /\ UNCHANGED <<local, probes, acks, fresh, grants, last, acts>>

(* Back at the login form.                                                 *)
LoginAgain(t, auth) ==
    /\ Act
    /\ tab' = [tab EXCEPT ![t].phase = "idle", ![t].sc = NoOne, ![t].auth = auth,
                          ![t].asked = IF auth THEN @ ELSE NoOne]
    /\ UNCHANGED <<local, probes, acks, fresh, grants, last>>

(* The server refuses: a failed authorisation is forgotten, what failed    *)
(* otherwise is not.                                                       *)
JoinRefused(t) == tab[t].phase = "joining" /\ \E auth \in BOOLEAN : LoginAgain(t, auth)

(* The first attempt fails, or the last one.                               *)
GiveUp(t) == tab[t].phase \in {"connecting", "joining"} /\ LoginAgain(t, tab[t].auth)

(* The user leaves, or is made to.                                         *)
disconnectConferenceNow(t) == tab[t].phase = "joined" /\ LoginAgain(t, FALSE)

(* The server lets the client in, under the name it asked for or, when it  *)
(* gave none, that of its credentials, with a token for its next visit.    *)
applyJoinedMessage(t, user) ==
    /\ tab[t].phase = "joining" /\ fresh < MaxFresh
    /\ tab[t].user \in {user, NoOne}
    /\ fresh' = fresh + 1
    /\ grants' = [grants EXCEPT ![fresh + 1] =
                     [id |-> tab[t].sc, user |-> user, token |-> fresh + 1]]
    /\ setPersistentClientValue(t, tab[t].name,
           Granted(local[tab[t].name], user, fresh + 1),
           Granted(tab[t].session, user, fresh + 1),
           [tab[t] EXCEPT !.phase = "joined", !.user = user, !.asked = user])
    /\ UNCHANGED <<probes, acks, last, acts>>

Next ==
    \/ \E t \in Tabs :
          \/ Open(t) \/ Reload(t) \/ CloseTab(t) \/ Reconnect(t)
          \/ ProbeTimeout(t) \/ ServerConnection(t) \/ join(t)
          \/ JoinRefused(t) \/ GiveUp(t) \/ disconnectConferenceNow(t)
          \/ \E user \in Users : applyJoinedMessage(t, user)
          \/ \E user \in Users \cup {NoOne} : loginform(t, user)
          \/ \E u \in Tabs : Duplicate(t, u)
    \/ \E p \in probes : getPersistentClientProbeChannel(p)
    \/ \E a \in acks : splitPersistentClientIdentityAcrossTabs(a)

Spec == Init /\ [][Next]_vars

Live == {t \in Tabs : tab[t].sc # NoOne}

TypeOK ==
    /\ \A t \in Tabs :
          /\ tab[t].phase \in {"closed", "idle", "probing", "owner", "connecting",
                              "joining", "joined"}
          /\ tab[t].name \in 0..fresh
          /\ tab[t].phase \notin {"closed", "idle"} => tab[t].name # NoOne
    /\ fresh \in 0..MaxFresh

(* No two tabs are connected with the same client id, however they were    *)
(* duplicated, reloaded and reconnected, as long as answers are in time.   *)
OwnId == \A t, u \in Live : t # u => tab[t].sc # tab[u].sc

(* The token a page would present when it joins was given by the server    *)
(* for the id and for the username that it joins with, unless another tab  *)
(* has shared its key.                                                     *)
TokenIsOurs ==
    \A t \in {u \in Live : ~tab[u].cloned} :
        LET token == getPersistentClientValue(t, "token")
        IN (tab[t].phase = "connecting" /\ token # NoOne) =>
              /\ grants[token].id = tab[t].sc
              /\ grants[token].user = tab[t].user

(* A tab that connects twice under one name, with an identity prepared for *)
(* that name both times and no other name entered in between, does so      *)
(* under one id, across reloads and reconnections, unless it was           *)
(* duplicated.  One that is prepared for the name of an earlier join,      *)
(* which was refused, loses its id.                                        *)
SurvivesRefresh ==
    [][\A t \in Tabs :
          (last'[t] # last[t] /\ last[t].user = last'[t].user
            /\ last[t].user # NoOne /\ last[t].key = last'[t].key
            /\ last[t].as = last[t].user /\ last'[t].as = last'[t].user
            /\ ~tab[t].cloned)
          => (last'[t].id = last[t].id)]_vars

=============================================================================
