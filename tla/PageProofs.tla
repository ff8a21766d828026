------------------------------ MODULE PageProofs ------------------------------
(***************************************************************************)
(* Theorems about two parts of the page that have no state in common.      *)
(*                                                                         *)
(* TabIdentity, for any tabs and usernames and any number of things done.  *)
(* IdentityInv is inductive whatever the delays: what is stored for a tab  *)
(* that was never duplicated is its own, and no client id is under two     *)
(* keys.  OwnerInv is so when answers are in time: of two pages with one   *)
(* key, one is still asking.  The actions that write what is stored have   *)
(* the form of Stores, most others that of Turns; a lemma about each form  *)
(* does the work for them.                                                 *)
(*                                                                         *)
(* Participants, for any members, offers and events (second half).  PageInv*)
(* is inductive: it says of each user alone what has to hold, so that a    *)
(* step on one user is looked at for that user.                            *)
(***************************************************************************)
EXTENDS TabIdentity, WellFoundedInduction, TLAPS

CONSTANTS Members, MaxOffers, Kinds, IceChanges
VARIABLES pg, net

U == INSTANCE Participants

Entry == [id : Nat, user : Users \cup {NoOne}, token : Nat]
Phases == {"closed", "idle", "probing", "owner", "connecting", "joining", "joined"}
Running == {"probing", "owner", "connecting", "joining", "joined"}
Connected == {"connecting", "joining", "joined"}
Page == [phase : Phases, name : Nat, session : Entry, channel : BOOLEAN,
         user : Users \cup {NoOne}, sc : Nat, cloned : BOOLEAN,
         auth : BOOLEAN, asked : Users \cup {NoOne}]
LastPage == [key : Nat, user : Users \cup {NoOne}, as : Users \cup {NoOne}, id : Nat]

(* Types, and tabs that messages are for.                                  *)
Typed ==
    /\ TabIdentityAssumption
    /\ tab \in [Tabs -> Page]
    /\ local \in [0..MaxFresh -> Entry]
    /\ grants \in [0..MaxFresh -> Entry]
    /\ last \in [Tabs -> LastPage]
    /\ fresh \in 0..MaxFresh
    /\ \A p \in probes : p.from \in Tabs /\ p.to \in Tabs
    /\ \A a \in acks : a.to \in Tabs

(* No number is in use that was not drawn.                                 *)
Drawn ==
    /\ \A t \in Tabs : /\ tab[t].name <= fresh /\ tab[t].sc <= fresh /\ last[t].key <= fresh
                     /\ tab[t].session.token <= fresh
    /\ \A k \in 0..MaxFresh : local[k].id <= fresh /\ local[k].token <= fresh
    /\ \A k \in 0..MaxFresh : k > fresh => local[k].id = NoOne

(* What goes with the phase of a page.                                     *)
PageOk(t) ==
       /\ tab[t].phase \in Running => tab[t].name # NoOne /\ tab[t].channel = TRUE
       /\ tab[t].channel = TRUE => tab[t].phase # "closed"
       /\ tab[t].name # NoOne => local[tab[t].name].id # NoOne
       /\ tab[t].name = NoOne => tab[t].session = Nothing
       /\ tab[t].phase = "closed" => tab[t].name = NoOne
       /\ tab[t].sc # NoOne <=> tab[t].phase \in Connected

Pages == \A t \in Tabs : PageOk(t)

(* A key is shared by tabs that have been duplicated only.                 *)
OwnKey ==
    \A t, u \in Tabs :
       t # u /\ tab[t].cloned = FALSE /\ tab[t].name # NoOne => tab[t].name # tab[u].name

(* A stored token is one that was given for the stored id and username.    *)
GrantedIn(given, r) ==
    r.token # NoOne =>
      r.user # NoOne /\ given[r.token].id = r.id /\ given[r.token].user = r.user

TokenOf(r) == GrantedIn(grants, r)

(* What is stored for a tab that was never duplicated is its own.          *)
EntryOk(t) ==
       tab[t].cloned = FALSE /\ tab[t].name # NoOne =>
         /\ tab[t].session = local[tab[t].name]
         /\ TokenOf(local[tab[t].name])
         /\ tab[t].sc # NoOne => local[tab[t].name].id = tab[t].sc
         /\ tab[t].phase \in Running /\ local[tab[t].name].token # NoOne =>
              local[tab[t].name].user = tab[t].user
         /\ last[t].user # NoOne /\ last[t].as = last[t].user /\ last[t].key = tab[t].name =>
              /\ local[tab[t].name].id = last[t].id
              /\ local[tab[t].name].user = last[t].user

OwnEntry == \A t \in Tabs : EntryOk(t)

(* The last connection was made to join with the name that the page has.   *)
Recorded ==
    \A t \in Tabs : tab[t].phase \in {"connecting", "joining"} => last[t].user = tab[t].user

(* Under no two keys is the same client id, and the id of a tab that is    *)
(* connected is under no other tab's key.                                  *)
IdsDiffer ==
    /\ \A j, k \in 0..MaxFresh : j # k /\ local[j].id # NoOne => local[j].id # local[k].id
    /\ \A t \in Tabs : \A k \in 0..MaxFresh :
          tab[t].sc # NoOne /\ local[k].id = tab[t].sc => k = tab[t].name

IdentityInv == Typed /\ Drawn /\ Pages /\ OwnKey /\ OwnEntry /\ Recorded /\ IdsDiffer

(* t has asked u whether its key is taken, and will be told that it is.    *)
Asks(t, u) ==
    /\ tab[t].phase = "probing"
    /\ \/ [from |-> t, to |-> u, key |-> tab[t].name] \in probes
       \/ [to |-> t, key |-> tab[t].name] \in acks

(* Of two tabs with one key one is about to be told.                       *)
OneAsks ==
    \A t, u \in Tabs :
       /\ t # u /\ tab[t].name = tab[u].name
       /\ tab[t].phase \in Running /\ tab[u].phase \in Running
       => Asks(t, u) \/ Asks(u, t)

ScDiffer == \A t, u \in Tabs : t # u /\ tab[t].sc # NoOne => tab[t].sc # tab[u].sc

OwnerInv == OneAsks /\ ScDiffer

-----------------------------------------------------------------------------
(* A page, field by field.                                                 *)
PageIs(r, phase, name, session, channel, user, scIs, cloned) ==
    /\ r \in Page
    /\ r.phase = phase /\ r.name = name /\ r.session = session /\ r.channel = channel
    /\ r.user = user /\ r.sc = scIs /\ r.cloned = cloned

(* NoOne is a number like the others.                                      *)
LEMMA Null == NoOne = 0
BY DEF NoOne

LEMMA NothingIs ==
  /\ Nothing \in Entry /\ Nothing.id = NoOne /\ Nothing.user = NoOne /\ Nothing.token = NoOne
BY DEF Nothing, Entry, NoOne

LEMMA ClosedIs == PageIs(Closed, "closed", NoOne, Nothing, FALSE, NoOne, NoOne, FALSE)
BY NothingIs DEF Closed, PageIs, Page, Phases, NoOne

(* What the leaves below need to know of the types.                        *)
LEMMA TypesAre ==
  ASSUME IdentityInv
  PROVE  /\ tab \in [Tabs -> Page] /\ local \in [0..MaxFresh -> Entry]
         /\ grants \in [0..MaxFresh -> Entry]
         /\ last \in [Tabs -> LastPage]
         /\ fresh \in Nat /\ fresh <= MaxFresh /\ MaxFresh \in Nat
         /\ NoOne \notin Users
BY DEF IdentityInv, Typed, TabIdentityAssumption

LEMMA KeyIn ==
  ASSUME IdentityInv, NEW t \in Tabs
  PROVE  /\ tab[t].name \in 0..MaxFresh /\ tab[t].name \in Nat
         /\ tab[t].name <= fresh /\ tab[t].sc \in Nat
<1>1. tab[t] \in Page
  BY TypesAre
<1>2. tab[t].name \in Nat /\ tab[t].name <= fresh /\ tab[t].sc \in Nat
  BY <1>1 DEF IdentityInv, Drawn, Page
<1>3. QED
  BY <1>2, TypesAre

(* What a tab that has a key reads.                                        *)
LEMMA IdentityIs ==
  ASSUME IdentityInv, NEW t \in Tabs, tab[t].name # NoOne
  PROVE  /\ Identity(t).id = local[tab[t].name].id
         /\ Identity(t).id # NoOne /\ Identity(t).id \in Nat
         /\ Identity(t).user \in Users \cup {NoOne} /\ Identity(t).token \in Nat
         /\ Identity(t).token <= fresh
         /\ tab[t].cloned = FALSE =>
              /\ Identity(t).user = local[tab[t].name].user
              /\ Identity(t).token = local[tab[t].name].token
<1>1. tab[t] \in Page /\ local[tab[t].name] \in Entry
  BY TypesAre, KeyIn
<1>2. /\ Identity(t).id = getPersistentClientValue(t, "id")
      /\ Identity(t).user = getPersistentClientValue(t, "user")
      /\ Identity(t).token = getPersistentClientValue(t, "token")
  BY DEF Identity, Nothing
<1>3. /\ local[tab[t].name].id # NoOne /\ local[tab[t].name].token <= fresh
      /\ tab[t].session.token <= fresh
  BY <1>1, KeyIn, TypesAre DEF IdentityInv, Drawn, Pages, PageOk
<1>4. tab[t].cloned = FALSE => tab[t].session = local[tab[t].name]
  BY DEF IdentityInv, OwnEntry, EntryOk
<1>5. QED
  BY <1>1, <1>2, <1>3, <1>4 DEF getPersistentClientValue, Entry, Page

(* A page whose connection is none, or no longer: it keeps its key and what *)
(* is stored for it, or the tab is new, or closed.                         *)
Turns(t, phase, name, session, channel, user, cloned) ==
    /\ UNCHANGED <<local, grants, fresh>>
    /\ tab' \in [Tabs -> Page]
    /\ \A u \in Tabs \ {t} : tab'[u] = tab[u]
    /\ PageIs(tab'[t], phase, name, session, channel, user, NoOne, cloned)
    /\ \/ name = tab[t].name /\ session = tab[t].session /\ cloned = tab[t].cloned
       \/ name = NoOne /\ session = Nothing
    /\ \/ phase \in {"probing", "owner"} /\ name # NoOne /\ channel = TRUE
          /\ tab[t].phase \in Running /\ user = tab[t].user
       \/ phase = "idle"
       \/ phase = "closed" /\ name = NoOne /\ channel = FALSE
    /\ last' \in [Tabs -> LastPage]
    /\ last'[t] = last[t] \/ (last'[t].key = NoOne /\ last'[t].user = NoOne)
    /\ \A u \in Tabs \ {t} : last'[u] = last[u]
    /\ \A p \in probes' : p.from \in Tabs /\ p.to \in Tabs
    /\ \A a \in acks' : a.to \in Tabs

(* Whatever turns so, the invariant is kept.                               *)
LEMMA TurnKeeps ==
  ASSUME IdentityInv, NEW t \in Tabs, NEW phase, NEW name, NEW session, NEW channel,
         NEW user, NEW cloned, Turns(t, phase, name, session, channel, user, cloned)
  PROVE  IdentityInv'
<1>1. /\ UNCHANGED <<local, grants, fresh>>
      /\ tab' \in [Tabs -> Page] /\ \A u \in Tabs \ {t} : tab'[u] = tab[u]
      /\ PageIs(tab'[t], phase, name, session, channel, user, NoOne, cloned)
  BY DEF Turns
<1>2. \/ name = tab[t].name /\ session = tab[t].session /\ cloned = tab[t].cloned
      \/ name = NoOne /\ session = Nothing
  BY DEF Turns
<1>3. \/ phase \in {"probing", "owner"} /\ name # NoOne /\ channel = TRUE
         /\ tab[t].phase \in Running /\ user = tab[t].user
      \/ phase = "idle"
      \/ phase = "closed" /\ name = NoOne /\ channel = FALSE
  BY DEF Turns
<1>4. /\ last' \in [Tabs -> LastPage]
      /\ last'[t] = last[t] \/ (last'[t].key = NoOne /\ last'[t].user = NoOne)
      /\ \A u \in Tabs \ {t} : last'[u] = last[u]
  BY DEF Turns
<1>5. Typed'
  BY <1>1, <1>4 DEF Turns, IdentityInv, Typed
<1>6. Drawn'
  <2>1. NoOne <= fresh /\ Nothing.token <= fresh
    BY TypesAre, Null, NothingIs
  <2>2. ASSUME NEW u \in Tabs
        PROVE  /\ tab'[u].name <= fresh' /\ tab'[u].sc <= fresh'
               /\ last'[u].key <= fresh' /\ tab'[u].session.token <= fresh'
    <3>1. CASE u = t
      BY <1>1, <1>2, <1>4, <2>1, <3>1 DEF IdentityInv, Drawn, PageIs
    <3>2. CASE u # t
      BY <1>1, <1>4, <3>2 DEF IdentityInv, Drawn
    <3>3. QED
      BY <3>1, <3>2
  <2>3. QED
    BY <1>1, <2>2 DEF IdentityInv, Drawn
<1>7. Pages'
  <2>1. ASSUME NEW u \in Tabs PROVE PageOk(u)'
    <3>1. PageOk(u) /\ PageOk(t)
      BY DEF IdentityInv, Pages
    <3>2. CASE u = t
      BY <1>1, <1>2, <1>3, <3>1, <3>2 DEF PageOk, PageIs, Running, Connected
    <3>3. CASE u # t
      BY <1>1, <3>1, <3>3 DEF PageOk
    <3>4. QED
      BY <3>2, <3>3
  <2>2. QED
    BY <2>1 DEF Pages
<1>8. OwnKey'
  BY <1>1, <1>2 DEF IdentityInv, OwnKey, PageIs
<1>9. OwnEntry'
  <2>1. ASSUME NEW u \in Tabs PROVE EntryOk(u)'
    <3>1. EntryOk(u)
      BY DEF IdentityInv, OwnEntry
    <3>2. CASE u = t
      BY <1>1, <1>2, <1>3, <1>4, <3>1, <3>2
         DEF EntryOk, TokenOf, GrantedIn, PageIs, Running
    <3>3. CASE u # t
      BY <1>1, <1>4, <3>1, <3>3 DEF EntryOk, TokenOf, GrantedIn
    <3>4. QED
      BY <3>2, <3>3
  <2>2. QED
    BY <2>1 DEF OwnEntry
<1>10. Recorded'
  BY <1>1, <1>3, <1>4 DEF IdentityInv, Recorded, PageIs
<1>11. IdsDiffer'
  BY <1>1 DEF IdentityInv, IdsDiffer, PageIs
<1>12. QED
  BY <1>5, <1>6, <1>7, <1>8, <1>9, <1>10, <1>11 DEF IdentityInv

LEMMA OpenKeeps ==
  ASSUME IdentityInv, NEW t \in Tabs, Open(t)
  PROVE  IdentityInv'
<1>1. /\ UNCHANGED <<local, probes, acks, grants, fresh>>
      /\ tab' \in [Tabs -> Page] /\ \A u \in Tabs \ {t} : tab'[u] = tab[u]
      /\ PageIs(tab'[t], "idle", NoOne, Nothing, FALSE, NoOne, NoOne, FALSE)
  BY TypesAre, ClosedIs DEF Open, PageIs, Page, Phases
<1>2. /\ last' \in [Tabs -> LastPage]
      /\ last'[t].key = NoOne /\ last'[t].user = NoOne
      /\ \A u \in Tabs \ {t} : last'[u] = last[u]
  BY TypesAre, Null DEF Open, NotYet, LastPage
<1>3. Turns(t, "idle", NoOne, Nothing, FALSE, NoOne, FALSE)
  BY <1>1, <1>2 DEF Turns, IdentityInv, Typed
<1>4. QED
  BY <1>3, TurnKeeps

LEMMA ReloadKeeps ==
  ASSUME IdentityInv, NEW t \in Tabs, Reload(t)
  PROVE  IdentityInv'
<1> DEFINE r == [tab[t] EXCEPT !.phase = "idle", !.channel = FALSE, !.sc = NoOne,
                               !.user = NoOne, !.auth = FALSE, !.asked = NoOne]
           was == tab[t]
<1>1. PageIs(r, "idle", was.name, was.session, FALSE, NoOne, NoOne, was.cloned)
  BY ZenonT(80), TypesAre, Null DEF PageIs, Page, Phases
<1>2. tab' = [tab EXCEPT ![t] = r]
  BY TypesAre DEF Reload
<1> HIDE DEF r
<1>3. /\ tab' \in [Tabs -> Page] /\ \A u \in Tabs \ {t} : tab'[u] = tab[u]
      /\ PageIs(tab'[t], "idle", was.name, was.session, FALSE, NoOne, NoOne, was.cloned)
  BY <1>1, <1>2, TypesAre DEF PageIs
<1>4. /\ UNCHANGED <<local, grants, fresh, last>>
      /\ \A p \in probes' : p.from \in Tabs /\ p.to \in Tabs
      /\ \A a \in acks' : a.to \in Tabs
  BY DEF Reload, Forget, IdentityInv, Typed
<1>5. Turns(t, "idle", was.name, was.session, FALSE, NoOne, was.cloned)
  BY <1>3, <1>4, TypesAre DEF Turns
<1>6. QED
  BY <1>5, TurnKeeps

(* The login form keeps what is stored.                                    *)
LEMMA LoginAgainIs ==
  ASSUME IdentityInv, NEW t \in Tabs, NEW auth \in BOOLEAN, LoginAgain(t, auth)
  PROVE  /\ UNCHANGED <<local, probes, acks, grants, fresh, last>>
         /\ tab' \in [Tabs -> Page] /\ \A u \in Tabs \ {t} : tab'[u] = tab[u]
         /\ PageIs(tab'[t], "idle", tab[t].name, tab[t].session, tab[t].channel,
                   tab[t].user, NoOne, tab[t].cloned)
<1> DEFINE r == [tab[t] EXCEPT !.phase = "idle", !.sc = NoOne, !.auth = auth,
                               !.asked = IF auth THEN @ ELSE NoOne]
           was == tab[t]
<1>1. PageIs(r, "idle", was.name, was.session, was.channel, was.user, NoOne, was.cloned)
  BY ZenonT(80), TypesAre, Null DEF PageIs, Page, Phases
<1>2. tab' = [tab EXCEPT ![t] = r]
  BY TypesAre DEF LoginAgain
<1> HIDE DEF r
<1>3. /\ tab' \in [Tabs -> Page] /\ \A u \in Tabs \ {t} : tab'[u] = tab[u]
      /\ tab'[t] = r
  BY <1>1, <1>2, TypesAre DEF PageIs
<1>4. UNCHANGED <<local, probes, acks, grants, fresh, last>>
  BY DEF LoginAgain
<1>5. QED
  BY <1>1, <1>3, <1>4

LEMMA LoginAgainKeeps ==
  ASSUME IdentityInv, NEW t \in Tabs, NEW auth \in BOOLEAN, LoginAgain(t, auth)
  PROVE  IdentityInv'
<1> DEFINE was == tab[t]
<1>1. Turns(t, "idle", was.name, was.session, was.channel, was.user, was.cloned)
  BY LoginAgainIs, TypesAre DEF Turns, IdentityInv, Typed
<1>2. QED
  BY <1>1, TurnKeeps

(* What is asked is remembered; nothing that is stored changes.            *)
LEMMA JoinIs ==
  ASSUME IdentityInv, NEW t \in Tabs, join(t)
  PROVE  /\ UNCHANGED <<local, probes, acks, grants, fresh, last>>
         /\ tab[t].phase = "connecting"
         /\ tab' \in [Tabs -> Page] /\ \A u \in Tabs \ {t} : tab'[u] = tab[u]
         /\ PageIs(tab'[t], "joining", tab[t].name, tab[t].session, tab[t].channel,
                   tab[t].user, tab[t].sc, tab[t].cloned)
<1> DEFINE r == [tab[t] EXCEPT !.phase = "joining", !.auth = TRUE, !.asked = tab[t].user]
           was == tab[t]
<1>1. PageIs(r, "joining", was.name, was.session, was.channel, was.user, was.sc, was.cloned)
  <2>1. was \in Page
    BY TypesAre
  <2>2. QED
    BY <2>1 DEF PageIs, Page, Phases
<1>2. tab' = [tab EXCEPT ![t] = r]
  BY TypesAre DEF join
<1> HIDE DEF r
<1>3. QED
  BY <1>1, <1>2, TypesAre DEF PageIs, join

LEMMA JoinKeeps ==
  ASSUME IdentityInv, NEW t \in Tabs, join(t)
  PROVE  IdentityInv'
<1>1. /\ UNCHANGED <<local, probes, acks, grants, fresh, last>>
      /\ tab[t].phase = "connecting"
      /\ tab' \in [Tabs -> Page] /\ \A u \in Tabs \ {t} : tab'[u] = tab[u]
      /\ PageIs(tab'[t], "joining", tab[t].name, tab[t].session, tab[t].channel,
                tab[t].user, tab[t].sc, tab[t].cloned)
  BY JoinIs
<1>2. \A u \in Tabs :
         /\ tab'[u].name = tab[u].name /\ tab'[u].session = tab[u].session
         /\ tab'[u].channel = tab[u].channel /\ tab'[u].user = tab[u].user
         /\ tab'[u].sc = tab[u].sc /\ tab'[u].cloned = tab[u].cloned
         /\ u # t => tab'[u].phase = tab[u].phase
  BY <1>1 DEF PageIs
<1>3. tab'[t].phase = "joining"
  BY <1>1 DEF PageIs
<1>4. Typed'
  BY <1>1 DEF IdentityInv, Typed
<1>5. Drawn'
  BY <1>1, <1>2 DEF IdentityInv, Drawn
<1>6. Pages'
  <2>1. ASSUME NEW u \in Tabs PROVE PageOk(u)'
    <3>1. PageOk(u)
      BY DEF IdentityInv, Pages
    <3>2. CASE u = t
      BY <1>1, <1>2, <1>3, <3>1, <3>2 DEF PageOk, Running, Connected
    <3>3. CASE u # t
      BY <1>1, <3>1, <3>3 DEF PageOk
    <3>4. QED
      BY <3>2, <3>3
  <2>2. QED
    BY <2>1 DEF Pages
<1>7. OwnKey'
  BY <1>2 DEF IdentityInv, OwnKey
<1>8. OwnEntry'
  <2>1. ASSUME NEW u \in Tabs PROVE EntryOk(u)'
    <3>1. EntryOk(u)
      BY DEF IdentityInv, OwnEntry
    <3>2. tab'[u].phase \in Running => tab[u].phase \in Running
      BY <1>1, <1>2 DEF Running
    <3>3. QED
      BY <1>1, <1>2, <3>1, <3>2 DEF EntryOk, TokenOf, GrantedIn
  <2>2. QED
    BY <2>1 DEF OwnEntry
<1>9. Recorded'
  BY <1>1, <1>2 DEF IdentityInv, Recorded
<1>10. IdsDiffer'
  BY <1>1, <1>2 DEF IdentityInv, IdsDiffer
<1>11. QED
  BY <1>4, <1>5, <1>6, <1>7, <1>8, <1>9, <1>10 DEF IdentityInv

LEMMA CloseTabKeeps ==
  ASSUME IdentityInv, NEW t \in Tabs, CloseTab(t)
  PROVE  IdentityInv'
<1>1. /\ tab' \in [Tabs -> Page] /\ \A u \in Tabs \ {t} : tab'[u] = tab[u]
      /\ PageIs(tab'[t], "closed", NoOne, Nothing, FALSE, NoOne, NoOne, FALSE)
  BY TypesAre, ClosedIs DEF CloseTab, PageIs
<1>2. /\ UNCHANGED <<local, grants, fresh, last>>
      /\ \A p \in probes' : p.from \in Tabs /\ p.to \in Tabs
      /\ \A a \in acks' : a.to \in Tabs
  BY DEF CloseTab, Forget, IdentityInv, Typed
<1>3. Turns(t, "closed", NoOne, Nothing, FALSE, NoOne, FALSE)
  BY <1>1, <1>2, TypesAre DEF Turns
<1>4. QED
  BY <1>3, TurnKeeps

LEMMA ReconnectKeeps ==
  ASSUME IdentityInv, NEW t \in Tabs, Reconnect(t)
  PROVE  IdentityInv'
<1> DEFINE was == tab[t]
<1>1. /\ was \in Page /\ was.name # NoOne /\ was.channel = TRUE
      /\ was.phase \in Running
  BY TypesAre DEF Reconnect, IdentityInv, Pages, PageOk, Running
<1>2. /\ tab' \in [Tabs -> Page] /\ \A u \in Tabs \ {t} : tab'[u] = tab[u]
      /\ PageIs(tab'[t], "probing", was.name, was.session, TRUE, was.user, NoOne,
                was.cloned)
  BY <1>1, TypesAre, Null DEF Reconnect, PageIs, Page, Phases
<1>3. /\ UNCHANGED <<local, grants, fresh, last>>
      /\ \A p \in probes' : p.from \in Tabs /\ p.to \in Tabs
      /\ \A a \in acks' : a.to \in Tabs
  BY DEF Reconnect, Probe, Listeners, IdentityInv, Typed
<1>4. Turns(t, "probing", was.name, was.session, TRUE, was.user, was.cloned)
  BY <1>1, <1>2, <1>3, TypesAre DEF Turns
<1>5. QED
  BY <1>4, TurnKeeps

LEMMA ProbeTimeoutKeeps ==
  ASSUME IdentityInv, NEW t \in Tabs, ProbeTimeout(t)
  PROVE  IdentityInv'
<1> DEFINE was == tab[t]
<1>1. /\ was \in Page /\ was.name # NoOne /\ was.channel = TRUE /\ was.sc = NoOne
      /\ was.phase \in Running
  BY TypesAre DEF ProbeTimeout, IdentityInv, Pages, PageOk, Running, Connected
<1>2. /\ tab' \in [Tabs -> Page] /\ \A u \in Tabs \ {t} : tab'[u] = tab[u]
      /\ PageIs(tab'[t], "owner", was.name, was.session, TRUE, was.user, NoOne, was.cloned)
  BY <1>1, TypesAre DEF ProbeTimeout, PageIs, Page, Phases
<1>3. UNCHANGED <<local, probes, acks, grants, fresh, last>>
  BY DEF ProbeTimeout
<1>4. Turns(t, "owner", was.name, was.session, TRUE, was.user, was.cloned)
  BY <1>1, <1>2, <1>3, TypesAre DEF Turns, IdentityInv, Typed
<1>5. QED
  BY <1>4, TurnKeeps

LEMMA DuplicateKeeps ==
  ASSUME IdentityInv, NEW t \in Tabs, NEW u \in Tabs, Duplicate(t, u)
  PROVE  IdentityInv'
<1>1. /\ UNCHANGED <<local, grants, fresh, probes, acks>> /\ t # u
      /\ tab[t].phase # "closed" /\ tab[u].phase = "closed" /\ tab[t].name # NoOne
  BY DEF Duplicate
<1> DEFINE r == [Closed EXCEPT !.phase = "idle", !.name = tab[t].name, !.cloned = TRUE,
                               !.session = tab[t].session]
           q == [tab[t] EXCEPT !.cloned = TRUE]
<1>a. tab[t] \in Page
  BY TypesAre
<1>b. PageIs(r, "idle", tab[t].name, tab[t].session, FALSE, NoOne, NoOne, TRUE)
  BY <1>a, ClosedIs DEF PageIs, Page, Phases
<1>c. PageIs(q, tab[t].phase, tab[t].name, tab[t].session, tab[t].channel, tab[t].user,
             tab[t].sc, TRUE)
  BY <1>a DEF PageIs, Page
<1>d. tab' = [[tab EXCEPT ![u] = r] EXCEPT ![t] = q]
  BY <1>1, TypesAre DEF Duplicate
<1> HIDE DEF r, q
<1>2. tab' \in [Tabs -> Page] /\ \A v \in Tabs \ {t, u} : tab'[v] = tab[v]
  BY <1>b, <1>c, <1>d, TypesAre DEF PageIs
<1>3. /\ PageIs(tab'[u], "idle", tab[t].name, tab[t].session, FALSE, NoOne, NoOne, TRUE)
      /\ PageIs(tab'[t], tab[t].phase, tab[t].name, tab[t].session, tab[t].channel,
                tab[t].user, tab[t].sc, TRUE)
  BY <1>1, <1>b, <1>c, <1>d, TypesAre
<1>4. /\ last' \in [Tabs -> LastPage]
      /\ last'[u].key = NoOne /\ last'[u].user = NoOne
      /\ \A v \in Tabs \ {u} : last'[v] = last[v]
  BY TypesAre, Null DEF Duplicate, NotYet, LastPage
<1>0. NoOne <= fresh
  BY TypesAre, Null
<1>21. Typed'
  BY <1>1, <1>2, <1>4, TypesAre DEF IdentityInv, Typed
<1>22. Drawn'
  <2>1. ASSUME NEW v \in Tabs
        PROVE  /\ tab'[v].name <= fresh' /\ tab'[v].sc <= fresh'
               /\ last'[v].key <= fresh' /\ tab'[v].session.token <= fresh'
    <3>1. CASE v = u
      BY <1>0, <1>1, <1>3, <1>4, <3>1 DEF IdentityInv, Drawn, PageIs
    <3>2. CASE v = t
      BY <1>1, <1>3, <1>4, <3>2 DEF IdentityInv, Drawn, PageIs
    <3>3. CASE v # t /\ v # u
      BY <1>1, <1>2, <1>4, <3>3 DEF IdentityInv, Drawn
    <3>4. QED
      BY <3>1, <3>2, <3>3
  <2>2. QED
    BY <1>1, <2>1 DEF IdentityInv, Drawn
<1>23. Pages'
  <2>1. ASSUME NEW v \in Tabs PROVE PageOk(v)'
    <3>1. PageOk(v) /\ PageOk(t) /\ PageOk(u)
      BY DEF IdentityInv, Pages
    <3>2. CASE v = u
      BY <1>1, <1>3, <3>1, <3>2 DEF PageOk, PageIs, Running, Connected
    <3>3. CASE v = t
      BY <1>1, <1>3, <3>1, <3>3 DEF PageOk, PageIs
    <3>4. CASE v # t /\ v # u
      BY <1>1, <1>2, <3>1, <3>4 DEF PageOk
    <3>5. QED
      BY <3>2, <3>3, <3>4
  <2>2. QED
    BY <2>1 DEF Pages, PageOk
<1>24. OwnKey'
  <2>1. ASSUME NEW v \in Tabs, NEW w \in Tabs, v # w, tab'[v].cloned = FALSE,
               tab'[v].name # NoOne
        PROVE  tab'[v].name # tab'[w].name
    <3>1. v # t /\ v # u
      BY <1>3, <2>1 DEF PageIs
    <3>2. tab'[v] = tab[v]
      BY <1>2, <3>1
    <3>3. tab[v].name # tab[w].name /\ tab[v].name # tab[t].name
      BY <2>1, <3>1, <3>2 DEF IdentityInv, OwnKey
    <3>4. CASE w = u \/ w = t
      BY <1>3, <3>2, <3>3, <3>4 DEF PageIs
    <3>5. CASE w # u /\ w # t
      BY <1>2, <3>2, <3>3, <3>5
    <3>6. QED
      BY <3>4, <3>5
  <2>2. QED
    BY <2>1 DEF OwnKey
<1>25. OwnEntry'
  <2>1. ASSUME NEW v \in Tabs PROVE EntryOk(v)'
    <3>1. EntryOk(v)
      BY DEF IdentityInv, OwnEntry
    <3>2. CASE v = u \/ v = t
      BY <1>3, <3>2 DEF EntryOk, PageIs
    <3>3. CASE v # t /\ v # u
      BY <1>1, <1>2, <1>4, <3>1, <3>3 DEF EntryOk, TokenOf, GrantedIn
    <3>4. QED
      BY <3>2, <3>3
  <2>2. QED
    BY <2>1 DEF OwnEntry, EntryOk, TokenOf, GrantedIn
<1>26. Recorded'
  <2>1. ASSUME NEW v \in Tabs, tab'[v].phase \in {"connecting", "joining"}
        PROVE  last'[v].user = tab'[v].user
    <3>1. v # u
      BY <1>3, <2>1 DEF PageIs
    <3>2. tab'[v].phase = tab[v].phase /\ tab'[v].user = tab[v].user
      BY <1>2, <1>3, <3>1 DEF PageIs
    <3>3. QED
      BY <1>4, <2>1, <3>1, <3>2 DEF IdentityInv, Recorded
  <2>2. QED
    BY <2>1 DEF Recorded
<1>27. IdsDiffer'
  <2>1. ASSUME NEW v \in Tabs, NEW k \in 0..MaxFresh, tab'[v].sc # NoOne,
               local[k].id = tab'[v].sc
        PROVE  k = tab'[v].name
    <3>1. CASE v = u
      BY <1>3, <2>1, <3>1 DEF PageIs
    <3>2. CASE v = t
      BY <1>3, <2>1, <3>2 DEF IdentityInv, IdsDiffer, PageIs
    <3>3. CASE v # t /\ v # u
      BY <1>2, <2>1, <3>3 DEF IdentityInv, IdsDiffer
    <3>4. QED
      BY <3>1, <3>2, <3>3
  <2>2. QED
    BY <1>1, <2>1 DEF IdentityInv, IdsDiffer
<1>28. QED
  BY <1>21, <1>22, <1>23, <1>24, <1>25, <1>26, <1>27 DEF IdentityInv

(* A step that leaves the tabs and what is stored as they were keeps what    *)
(* is known of them.                                                       *)
LEMMA StoredSame ==
  ASSUME IdentityInv, UNCHANGED <<tab, local, fresh, grants, last>>,
         \A p \in probes' : p.from \in Tabs /\ p.to \in Tabs, \A a \in acks' : a.to \in Tabs
  PROVE  IdentityInv'
<1>1. Typed'
  BY DEF IdentityInv, Typed
<1>2. Drawn'
  BY DEF IdentityInv, Drawn
<1>3. Pages'
  BY DEF IdentityInv, Pages, PageOk
<1>4. OwnKey'
  BY DEF IdentityInv, OwnKey
<1>5. OwnEntry'
  BY DEF IdentityInv, OwnEntry, EntryOk, TokenOf, GrantedIn
<1>6. Recorded'
  BY DEF IdentityInv, Recorded
<1>7. IdsDiffer'
  BY DEF IdentityInv, IdsDiffer
<1>8. QED
  BY <1>1, <1>2, <1>3, <1>4, <1>5, <1>6, <1>7 DEF IdentityInv

(* The answer to a probe changes nothing that is stored.                   *)
LEMMA HandlerKeeps ==
  ASSUME IdentityInv, NEW p \in probes, getPersistentClientProbeChannel(p)
  PROVE  IdentityInv'
<1>1. /\ UNCHANGED <<tab, local, fresh, grants, last>>
      /\ \A q \in probes' : q \in probes
  BY DEF getPersistentClientProbeChannel
<1>2. \A a \in acks' : a.to \in Tabs
  BY DEF getPersistentClientProbeChannel, IdentityInv, Typed
<1>3. QED
  <2>1. \A q \in probes' : q.from \in Tabs /\ q.to \in Tabs
    BY <1>1 DEF IdentityInv, Typed
  <2>2. QED
    BY <1>1, <1>2, <2>1, StoredSame

(* What is written when the username is recorded.                          *)
LEMMA EnsureIs ==
  ASSUME IdentityInv, NEW was, was.id \in Nat, was.user \in Users \cup {NoOne},
         was.token \in Nat, was.token <= fresh,
         NEW user \in Users \cup {NoOne}, NEW e,
         e = ensurePersistentClientIdForUsername(was, user, fresh + 1)
  PROVE  /\ e \in Entry /\ e.user = user /\ e.token <= fresh
         /\ e.id # NoOne
         /\ e.id = fresh + 1 \/ (e.id = was.id /\ was.id # NoOne)
         /\ e.token # NoOne => /\ e.token = was.token /\ user # NoOne
                               /\ was.user \in {user, NoOne}
                               /\ (was.id # NoOne => e.id = was.id)
         /\ was.id # NoOne /\ was.user = user => e.id = was.id
<1>1. fresh + 1 \in Nat /\ fresh + 1 # NoOne /\ NoOne \in Nat /\ NoOne <= fresh
  BY TypesAre, Null
<1>2. CASE user = NoOne
  BY <1>1, <1>2 DEF ensurePersistentClientIdForUsername, Entry
<1>3. CASE user # NoOne /\ was.user # NoOne /\ was.user # user
  BY <1>1, <1>3 DEF ensurePersistentClientIdForUsername, Entry
<1>4. CASE user # NoOne /\ ~(was.user # NoOne /\ was.user # user)
  BY <1>1, <1>4 DEF ensurePersistentClientIdForUsername, Entry
<1>5. QED
  BY <1>2, <1>3, <1>4

(* The values of a tab are written, under its key or under a new one.      *)
Stores(t, key, e, phase, user, scIs, cloned, session) ==
    /\ key \in 1..MaxFresh /\ e \in Entry /\ phase \in Running \ {"joining"}
    /\ user \in Users \cup {NoOne} /\ scIs \in Nat /\ cloned \in BOOLEAN
    /\ session \in Entry
    /\ local' = [local EXCEPT ![key] = e]
    /\ grants' \in [0..MaxFresh -> Entry]
    /\ \A k \in 0..fresh : grants'[k] = grants[k]
    /\ tab' \in [Tabs -> Page]
    /\ \A u \in Tabs \ {t} : tab'[u] = tab[u]
    /\ PageIs(tab'[t], phase, key, session, TRUE, user, scIs, cloned)
    /\ fresh' \in 0..MaxFresh
    /\ fresh' \in {fresh, fresh + 1}
    /\ (key = tab[t].name \/ (key = fresh + 1 /\ fresh' = fresh + 1))
    /\ (cloned = tab[t].cloned \/ key = fresh + 1)
    /\ e.id # NoOne
    /\ e.token <= fresh'
    /\ session.token <= fresh'
    /\ (cloned = FALSE => session = e)
    /\ ((e.id = fresh + 1 /\ fresh' = fresh + 1) \/ (e.id = local[key].id))
    /\ (scIs # NoOne <=> phase \in Connected)
    /\ (cloned = FALSE /\ scIs # NoOne => scIs = e.id)
    /\ (scIs # NoOne =>
          scIs = e.id \/ (scIs = tab[t].sc /\ key = tab[t].name /\ e.id = local[key].id))
    /\ (cloned = FALSE => GrantedIn(grants', e))
    /\ last' \in [Tabs -> LastPage]
    /\ \A u \in Tabs \ {t} : last'[u] = last[u]
    /\ last'[t].key <= fresh'
    /\ (phase = "connecting" => last'[t].user = user)
    /\ (cloned = FALSE /\ e.token # NoOne => e.user = user)
    /\ (cloned = FALSE /\ last'[t].user # NoOne /\ last'[t].as = last'[t].user
         /\ last'[t].key = key =>
          e.id = last'[t].id /\ e.user = last'[t].user)
    /\ \A p \in probes' : p.from \in Tabs /\ p.to \in Tabs
    /\ \A a \in acks' : a.to \in Tabs

(* Whatever is stored so, the invariant is kept.                           *)
LEMMA StoreKeeps ==
  ASSUME IdentityInv, NEW t \in Tabs, NEW key, NEW e, NEW phase, NEW user, NEW scIs,
         NEW cloned, NEW session,
         Stores(t, key, e, phase, user, scIs, cloned, session)
  PROVE  IdentityInv'
<1> SUFFICES ASSUME key \in 1..MaxFresh, e \in Entry, phase \in Running \ {"joining"},
                    user \in Users \cup {NoOne}, scIs \in Nat, cloned \in BOOLEAN,
                    session \in Entry,
                    local' = [local EXCEPT ![key] = e],
                    grants' \in [0..MaxFresh -> Entry],
                    \A k \in 0..fresh : grants'[k] = grants[k],
                    tab' \in [Tabs -> Page],
                    \A u \in Tabs \ {t} : tab'[u] = tab[u],
                    PageIs(tab'[t], phase, key, session, TRUE, user, scIs, cloned),
                    fresh' \in 0..MaxFresh,
                    fresh' \in {fresh, fresh + 1},
                    key = tab[t].name \/ (key = fresh + 1 /\ fresh' = fresh + 1),
                    cloned = tab[t].cloned \/ key = fresh + 1,
                    e.id # NoOne,
                    e.token <= fresh',
                    session.token <= fresh',
                    cloned = FALSE => session = e,
                    (e.id = fresh + 1 /\ fresh' = fresh + 1) \/ (e.id = local[key].id),
                    scIs # NoOne <=> phase \in Connected,
                    cloned = FALSE /\ scIs # NoOne => scIs = e.id,
                    scIs # NoOne =>
                       scIs = e.id \/ (scIs = tab[t].sc /\ key = tab[t].name
                                        /\ e.id = local[key].id),
                    cloned = FALSE => GrantedIn(grants', e),
                    last' \in [Tabs -> LastPage],
                    \A u \in Tabs \ {t} : last'[u] = last[u],
                    last'[t].key <= fresh',
                    phase = "connecting" => last'[t].user = user,
                    cloned = FALSE /\ e.token # NoOne => e.user = user,
                    cloned = FALSE /\ last'[t].user # NoOne /\ last'[t].as = last'[t].user
                       /\ last'[t].key = key =>
                       e.id = last'[t].id /\ e.user = last'[t].user,
                    \A p \in probes' : p.from \in Tabs /\ p.to \in Tabs,
                    \A a \in acks' : a.to \in Tabs
             PROVE  IdentityInv'
  BY DEF Stores
<1>1. /\ key \in Nat /\ key # NoOne /\ key <= fresh' /\ key <= MaxFresh
      /\ e.id \in Nat /\ e.token \in Nat /\ e.id <= fresh' /\ fresh <= fresh'
      /\ fresh' \in Nat /\ MaxFresh \in Nat /\ fresh \in Nat
  <2>1. key \in Nat /\ key # NoOne /\ key <= fresh' /\ key <= MaxFresh /\ key \in 0..MaxFresh
    BY TypesAre, KeyIn, Null
  <2>2. e.id \in Nat /\ e.token \in Nat
    BY DEF Entry
  <2>3. fresh' \in Nat /\ fresh \in Nat /\ fresh <= fresh' /\ MaxFresh \in Nat
    BY TypesAre
  <2>4. local[key].id <= fresh
    BY <2>1 DEF IdentityInv, Drawn
  <2>5. e.id <= fresh'
    BY <2>2, <2>3, <2>4
  <2>6. QED
    BY <2>1, <2>2, <2>3, <2>5
<1>2. /\ local' \in [0..MaxFresh -> Entry] /\ local'[key] = e
      /\ \A k \in 0..MaxFresh : k # key => local'[k] = local[k]
  BY <1>1, TypesAre
<1>3. \A u \in Tabs \ {t} : /\ tab[u].name \in 0..MaxFresh /\ tab[u].name \in Nat
                           /\ tab[u].name <= fresh /\ tab[u].sc \in Nat /\ tab[u].sc <= fresh
  BY KeyIn DEF IdentityInv, Drawn
<1>4. \A u \in Tabs \ {t} : tab[u].name = key => key = tab[t].name
  BY <1>1, <1>3
<1>5. Typed'
  BY <1>2, TypesAre DEF IdentityInv, Typed
<1>6. Drawn'
  <2>1. ASSUME NEW u \in Tabs
        PROVE  /\ tab'[u].name <= fresh' /\ tab'[u].sc <= fresh'
               /\ last'[u].key <= fresh' /\ tab'[u].session.token <= fresh'
    <3>1. CASE u = t
      <4>1. tab[t].sc <= fresh /\ tab[t].sc \in Nat
        BY KeyIn DEF IdentityInv, Drawn
      <4>2. scIs <= fresh'
        BY <1>1, <4>1, Null
      <4>3. QED
        BY <1>1, <3>1, <4>2 DEF PageIs
    <3>2. CASE u # t
      <4>1. tab[u].session.token \in Nat /\ last[u].key \in Nat
        BY TypesAre DEF Page, Entry, LastPage
      <4>2. /\ tab[u].name <= fresh /\ tab[u].sc <= fresh
            /\ last[u].key <= fresh /\ tab[u].session.token <= fresh
        BY DEF IdentityInv, Drawn
      <4>3. tab'[u] = tab[u] /\ last'[u] = last[u]
        BY <3>2
      <4>4. \A n \in Nat : n <= fresh => n <= fresh'
        BY <1>1
      <4>5. tab[u].name \in Nat /\ tab[u].sc \in Nat
        BY <1>3, <3>2
      <4>6. QED
        BY <4>1, <4>2, <4>3, <4>4, <4>5
    <3>3. QED
      BY <3>1, <3>2
  <2>2. ASSUME NEW k \in 0..MaxFresh
        PROVE  /\ local'[k].id <= fresh' /\ local'[k].token <= fresh'
               /\ (k > fresh' => local'[k].id = NoOne)
    <3>1. CASE k = key
      BY <1>1, <1>2, <3>1
    <3>2. CASE k # key
      <4>1. local[k].id \in Nat /\ local[k].token \in Nat
        BY TypesAre DEF Entry
      <4>2. /\ local[k].id <= fresh /\ local[k].token <= fresh
            /\ k > fresh => local[k].id = NoOne
        BY DEF IdentityInv, Drawn
      <4>3. QED
        BY <1>1, <1>2, <3>2, <4>1, <4>2
    <3>3. QED
      BY <3>1, <3>2
  <2>3. QED
    BY <2>1, <2>2 DEF Drawn
<1>7. Pages'
  <2>1. ASSUME NEW u \in Tabs PROVE PageOk(u)'
    <3>1. CASE u = t
      BY <1>1, <1>2, <3>1 DEF PageOk, PageIs, Running, Connected
    <3>2. CASE u # t
      <4>1. PageOk(u) /\ tab'[u] = tab[u]
        BY <3>2 DEF IdentityInv, Pages
      <4>2. tab[u].name # NoOne => local'[tab[u].name].id # NoOne
        BY <1>2, <1>3, <3>2, <4>1 DEF PageOk
      <4>3. QED
        BY <4>1, <4>2 DEF PageOk
    <3>3. QED
      BY <3>1, <3>2
  <2>2. QED
    BY <2>1 DEF Pages
<1>8. OwnKey'
  <2>1. ASSUME NEW u \in Tabs, NEW v \in Tabs, u # v, tab'[u].cloned = FALSE,
               tab'[u].name # NoOne,
               tab'[u].name = tab'[v].name
        PROVE  FALSE
    <3>1. CASE u # t /\ v # t
      <4>1. tab'[u] = tab[u] /\ tab'[v] = tab[v]
        BY <3>1
      <4>2. QED
        BY <2>1, <4>1 DEF IdentityInv, OwnKey
    <3>2. CASE u = t
      <4>1. tab[v].name = key /\ cloned = FALSE
        BY <2>1, <3>2 DEF PageIs
      <4>2. key = tab[t].name /\ key # fresh + 1
        BY <1>1, <1>3, <1>4, <2>1, <3>2, <4>1
      <4>3. QED
        BY <1>1, <2>1, <3>2, <4>1, <4>2 DEF IdentityInv, OwnKey
    <3>3. CASE v = t
      <4>1. tab[u].name = key /\ tab[u].cloned = FALSE
        BY <2>1, <3>3 DEF PageIs
      <4>2. QED
        BY <1>1, <1>4, <2>1, <3>3, <4>1 DEF IdentityInv, OwnKey
    <3>4. QED
      BY <2>1, <3>1, <3>2, <3>3
  <2>2. QED
    BY <2>1 DEF OwnKey
<1>9. OwnEntry'
  <2>1. ASSUME NEW u \in Tabs PROVE EntryOk(u)'
    <3>1. CASE u = t
      BY <1>1, <1>2, <3>1 DEF EntryOk, PageIs, TokenOf, GrantedIn
    <3>2. CASE u # t
      <4>1. EntryOk(u) /\ tab'[u] = tab[u] /\ last'[u] = last[u]
        BY <3>2 DEF IdentityInv, OwnEntry
      <4>2. tab[u].cloned = FALSE /\ tab[u].name # NoOne =>
              local'[tab[u].name] = local[tab[u].name]
        BY <1>2, <1>3, <1>4, <3>2 DEF IdentityInv, OwnKey
      <4>3. local[tab[u].name].token \in 0..fresh
        <5>1. local[tab[u].name].token \in Nat
          BY <1>3, <3>2, TypesAre DEF Entry
        <5>2. local[tab[u].name].token <= fresh
          BY <1>3, <3>2 DEF IdentityInv, Drawn
        <5>3. QED
          BY <1>1, <5>1, <5>2
      <4>4. /\ TokenOf(local[tab[u].name]) /\ local'[tab[u].name] = local[tab[u].name]
            => TokenOf(local[tab[u].name])'
        <5>1. grants'[local[tab[u].name].token] = grants[local[tab[u].name].token]
          BY <4>3
        <5>2. QED
          BY <4>1, <5>1 DEF TokenOf, GrantedIn
      <4>5. QED
        BY <4>1, <4>2, <4>4 DEF EntryOk
    <3>3. QED
      BY <3>1, <3>2
  <2>2. QED
    BY <2>1 DEF OwnEntry
<1>10. Recorded'
  <2>1. ASSUME NEW u \in Tabs, tab'[u].phase \in {"connecting", "joining"}
        PROVE  last'[u].user = tab'[u].user
    <3>1. CASE u = t
      BY <2>1, <3>1 DEF PageIs
    <3>2. CASE u # t
      BY <2>1, <3>2 DEF IdentityInv, Recorded
    <3>3. QED
      BY <3>1, <3>2
  <2>2. QED
    BY <2>1 DEF Recorded
<1>11. IdsDiffer'
  <2>1. ASSUME NEW k \in 0..MaxFresh, k # key PROVE local[k].id # e.id
    <3>1. CASE e.id = fresh + 1
      <4>1. local[k].id <= fresh /\ local[k].id \in Nat
        BY TypesAre DEF IdentityInv, Drawn, Entry
      <4>2. QED
        BY <1>1, <3>1, <4>1
    <3>2. CASE e.id = local[key].id
      BY <1>1, <2>1, <3>2 DEF IdentityInv, IdsDiffer
    <3>3. QED
      BY <3>1, <3>2
  <2>2. ASSUME NEW j \in 0..MaxFresh, NEW k \in 0..MaxFresh, j # k, local'[j].id # NoOne
        PROVE  local'[j].id # local'[k].id
    <3>1. CASE j = key \/ k = key
      BY <1>2, <2>1, <2>2, <3>1
    <3>2. CASE j # key /\ k # key
      BY <1>2, <2>2, <3>2 DEF IdentityInv, IdsDiffer
    <3>3. QED
      BY <3>1, <3>2
  <2>3. ASSUME NEW u \in Tabs, NEW k \in 0..MaxFresh, tab'[u].sc # NoOne,
               local'[k].id = tab'[u].sc
        PROVE  k = tab'[u].name
    <3>1. CASE u = t
      <4>1. tab'[u].sc = scIs /\ tab'[u].name = key
        BY <2>3, <3>1 DEF PageIs
      <4>2. CASE scIs = e.id
        BY <1>2, <2>1, <2>3, <4>1, <4>2
      <4>3. CASE scIs = tab[t].sc /\ key = tab[t].name /\ e.id = local[key].id
        <5>1. local[k].id = tab[t].sc /\ tab[t].sc # NoOne
          BY <1>2, <2>3, <4>1, <4>3
        <5>2. QED
          BY <4>1, <4>3, <5>1 DEF IdentityInv, IdsDiffer
      <4>4. QED
        BY <2>3, <4>1, <4>2, <4>3
    <3>2. CASE u # t
      <4>1. tab[u].sc # NoOne /\ tab'[u].name = tab[u].name /\ tab'[u].sc = tab[u].sc
        BY <2>3, <3>2
      <4>2. CASE k # key
        BY <1>2, <2>3, <4>1, <4>2 DEF IdentityInv, IdsDiffer
      <4>3. CASE k = key
        <5>1. e.id = tab[u].sc
          BY <1>2, <2>3, <4>1, <4>3
        <5>2. e.id # fresh + 1
          BY <1>1, <1>3, <3>2, <5>1
        <5>3. local[k].id = tab[u].sc
          BY <4>3, <5>1, <5>2
        <5>4. QED
          BY <4>1, <5>3 DEF IdentityInv, IdsDiffer
      <4>4. QED
        BY <4>2, <4>3
    <3>3. QED
      BY <3>1, <3>2
  <2>4. QED
    BY <2>2, <2>3 DEF IdsDiffer
<1>12. QED
  BY <1>5, <1>6, <1>7, <1>8, <1>9, <1>10, <1>11 DEF IdentityInv

LEMMA ServerConnectionKeeps ==
  ASSUME IdentityInv, NEW t \in Tabs, ServerConnection(t)
  PROVE  IdentityInv'
<1> DEFINE now == ensurePersistentClientIdForUsername(Identity(t), Prepared(t), fresh + 1)
           key == tab[t].name
<1>1. /\ tab[t].phase = "owner" /\ fresh < MaxFresh /\ UNCHANGED <<probes, acks, grants>>
      /\ local' = [local EXCEPT ![key] = now]
      /\ fresh' = IF fresh + 1 \in {now.id} THEN fresh + 1 ELSE fresh
      /\ last' = [last EXCEPT ![t] = [key |-> key, user |-> tab[t].user,
                                      as |-> Prepared(t), id |-> now.id]]
  BY DEF ServerConnection, setPersistentClientValue, Draw
<1>2. /\ tab[t] \in Page /\ key # NoOne /\ tab[t].channel = TRUE /\ key \in 1..MaxFresh
      /\ key <= fresh
  <2>1. tab[t] \in Page /\ key \in 0..MaxFresh /\ key <= fresh
    BY TypesAre, KeyIn
  <2>2. key # NoOne /\ tab[t].channel = TRUE
    BY <1>1 DEF IdentityInv, Pages, PageOk, Running
  <2>3. QED
    BY <2>1, <2>2, TypesAre, Null
<1>3. tab[t].user \in Users \cup {NoOne} /\ Prepared(t) \in Users \cup {NoOne}
  BY <1>2 DEF Page, Prepared
<1>4. /\ now \in Entry /\ now.user = Prepared(t) /\ now.token <= fresh /\ now.id # NoOne
      /\ now.id = fresh + 1 \/ now.id = local[key].id
      /\ now.token # NoOne => /\ now.token = Identity(t).token /\ Prepared(t) # NoOne
                             /\ Identity(t).user \in {Prepared(t), NoOne}
                             /\ now.id = local[key].id
      /\ Identity(t).user = Prepared(t) => now.id = local[key].id
  <2>1. /\ Identity(t).id \in Nat /\ Identity(t).user \in Users \cup {NoOne}
        /\ Identity(t).token \in Nat /\ Identity(t).token <= fresh /\ Identity(t).id # NoOne
        /\ Identity(t).id = local[key].id
    BY <1>2, IdentityIs
  <2>2. QED
    BY <1>3, <2>1, EnsureIs
<1> HIDE DEF now
<1> DEFINE r == [tab[t] EXCEPT !.phase = "connecting", !.sc = now.id, !.name = key,
                               !.session = now]
<1>5. PageIs(r, "connecting", key, now, TRUE, tab[t].user, now.id, tab[t].cloned)
  BY <1>2, <1>4 DEF PageIs, Page, Phases, Entry
<1>6. tab' = [tab EXCEPT ![t] = r]
  BY DEF ServerConnection, setPersistentClientValue, now
<1> HIDE DEF r
<1>7. /\ tab' \in [Tabs -> Page] /\ \A u \in Tabs \ {t} : tab'[u] = tab[u]
      /\ PageIs(tab'[t], "connecting", key, now, TRUE, tab[t].user, now.id, tab[t].cloned)
  BY <1>5, <1>6, TypesAre DEF PageIs
<1>8. /\ last' \in [Tabs -> LastPage]
      /\ \A u \in Tabs \ {t} : last'[u] = last[u]
      /\ last'[t].key = key /\ last'[t].user = tab[t].user /\ last'[t].id = now.id
      /\ last'[t].as = now.user
  BY <1>1, <1>2, <1>3, <1>4, TypesAre DEF Entry, Page, LastPage
<1>9. /\ fresh' \in 0..MaxFresh /\ fresh' \in {fresh, fresh + 1}
      /\ key <= fresh' /\ now.token <= fresh'
      /\ ((now.id = fresh + 1 /\ fresh' = fresh + 1) \/ now.id = local[key].id)
  <2>1. key \in Nat /\ now.token \in Nat
    BY <1>2, <1>4 DEF Entry
  <2>2. QED
    BY <1>1, <1>2, <1>4, <2>1, TypesAre
<1>10. /\ tab[t].cloned = FALSE => GrantedIn(grants', now)
       /\ tab[t].cloned = FALSE /\ now.token # NoOne => now.user = tab[t].user
  <2> SUFFICES ASSUME tab[t].cloned = FALSE, now.token # NoOne
               PROVE  GrantedIn(grants, now) /\ now.user = tab[t].user
    BY <1>1 DEF GrantedIn
  <2>1. /\ Identity(t).token = local[key].token /\ Identity(t).user = local[key].user
        /\ TokenOf(local[key])
        /\ local[key].token # NoOne => local[key].user = tab[t].user
    BY <1>1, <1>2, IdentityIs DEF IdentityInv, OwnEntry, EntryOk, Running
  <2>2. QED
    BY <1>4, <2>1 DEF TokenOf, GrantedIn
<1>11. /\ \A p \in probes' : p.from \in Tabs /\ p.to \in Tabs
       /\ \A a \in acks' : a.to \in Tabs
  BY <1>1 DEF IdentityInv, Typed
<1>12. grants' \in [0..MaxFresh -> Entry] /\ \A k \in 0..fresh : grants'[k] = grants[k]
  BY <1>1, TypesAre
<1>13. "connecting" \in Running \ {"joining"} /\ "connecting" \in Connected /\ now.id \in Nat
  BY <1>4 DEF Running, Connected, Entry
<1>14. tab[t].cloned \in BOOLEAN
  BY <1>2 DEF Page
<1>15. Stores(t, key, now, "connecting", tab[t].user, now.id, tab[t].cloned, now)
  BY <1>1, <1>2, <1>3, <1>4, <1>7, <1>8, <1>9, <1>10, <1>11, <1>12, <1>13, <1>14
     DEF Stores
<1>16. QED
  BY <1>15, StoreKeeps

LEMMA loginformKeeps ==
  ASSUME IdentityInv, NEW t \in Tabs, NEW user \in Users \cup {NoOne}, loginform(t, user)
  PROVE  IdentityInv'
<1> DEFINE key == getPersistentClientTabKey(t)
           was == IF tab[t].name = NoOne THEN tab[t].session ELSE Identity(t)
           now == ensurePersistentClientIdForUsername(was, user, fresh + 1)
<1>1. /\ tab[t].phase = "idle" /\ fresh < MaxFresh /\ UNCHANGED <<acks, grants>>
      /\ local' = [local EXCEPT ![key] = now]
      /\ fresh' = IF fresh + 1 \in {key, now.id} THEN fresh + 1 ELSE fresh
      /\ last' = IF last[t].user = user THEN last ELSE [last EXCEPT ![t].user = NoOne]
      /\ Probe(t, key)
  BY DEF loginform, setPersistentClientValue, Draw
<1>2. /\ tab[t] \in Page /\ tab[t].name \in 0..MaxFresh /\ tab[t].name <= fresh
      /\ tab[t].session \in Entry
  BY TypesAre, KeyIn DEF Page
<1>3. /\ was.id \in Nat /\ was.user \in Users \cup {NoOne} /\ was.token \in Nat
      /\ was.token <= fresh
      /\ tab[t].name = NoOne => was.id = NoOne /\ was.user = NoOne /\ was.token = NoOne
      /\ tab[t].name # NoOne =>
           was = Identity(t) /\ was.id = local[tab[t].name].id /\ was.id # NoOne
  <2>1. CASE tab[t].name = NoOne
    <3>1. was = Nothing
      BY <2>1 DEF IdentityInv, Pages, PageOk
    <3>2. QED
      BY <2>1, <3>1, NothingIs, TypesAre, Null
  <2>2. CASE tab[t].name # NoOne
    BY <2>2, IdentityIs
  <2>3. QED
    BY <2>1, <2>2
<1> HIDE DEF was
<1>4. /\ now \in Entry /\ now.user = user /\ now.token <= fresh /\ now.id # NoOne
      /\ now.id = fresh + 1 \/ (now.id = was.id /\ was.id # NoOne)
      /\ now.token # NoOne => /\ now.token = was.token /\ user # NoOne
                             /\ was.user \in {user, NoOne}
                             /\ (was.id # NoOne => now.id = was.id)
      /\ was.id # NoOne /\ was.user = user => now.id = was.id
  BY <1>3, EnsureIs
<1> HIDE DEF now
<1>5. /\ key \in 1..MaxFresh
      /\ \/ key = tab[t].name /\ tab[t].name # NoOne
         \/ key = fresh + 1 /\ tab[t].name = NoOne
  <2>1. CASE tab[t].name = NoOne
    BY <1>1, <2>1, TypesAre DEF getPersistentClientTabKey
  <2>2. CASE tab[t].name # NoOne
    BY <1>2, <2>2, TypesAre, Null DEF getPersistentClientTabKey
  <2>3. QED
    BY <2>1, <2>2
<1> DEFINE r == [tab[t] EXCEPT !.phase = "probing", !.channel = TRUE, !.user = user,
                               !.name = key, !.session = now]
<1>6. tab[t].sc = NoOne
  BY <1>1 DEF IdentityInv, Pages, PageOk, Connected
<1>7. PageIs(r, "probing", key, now, TRUE, user, NoOne, tab[t].cloned)
  <2>1. /\ "probing" \in Phases /\ NoOne \in Nat /\ key \in Nat
        /\ tab[t].cloned \in BOOLEAN /\ user \in Users \cup {NoOne}
    BY <1>2, <1>5, Null DEF Phases, Page
  <2> HIDE DEF key
  <2>2. QED
    BY <1>2, <1>4, <1>6, <2>1 DEF PageIs, Page
<1>8. tab' = [tab EXCEPT ![t] = r]
  BY DEF loginform, setPersistentClientValue, now, was
<1> HIDE DEF r
<1>9. /\ tab' \in [Tabs -> Page] /\ \A u \in Tabs \ {t} : tab'[u] = tab[u]
      /\ PageIs(tab'[t], "probing", key, now, TRUE, user, NoOne, tab[t].cloned)
  BY <1>7, <1>8, TypesAre DEF PageIs
<1>10. /\ last' \in [Tabs -> LastPage]
       /\ \A u \in Tabs \ {t} : last'[u] = last[u]
       /\ last'[t].key = last[t].key /\ last'[t].id = last[t].id /\ last'[t].as = last[t].as
       /\ last'[t].user \in {last[t].user, NoOne}
       /\ last'[t].user # NoOne => last'[t].user = last[t].user /\ last[t].user = user
  <2>1. CASE last[t].user = user
    BY <1>1, <2>1, TypesAre DEF LastPage
  <2>2. CASE last[t].user # user
    BY <1>1, <2>2, TypesAre DEF LastPage
  <2>3. QED
    BY <2>1, <2>2
<1>11. /\ fresh' \in 0..MaxFresh /\ fresh' \in {fresh, fresh + 1} /\ fresh <= fresh'
       /\ now.token <= fresh'
       /\ key = fresh + 1 => fresh' = fresh + 1
       /\ now.id = fresh + 1 => fresh' = fresh + 1
  <2>1. now.token \in Nat
    BY <1>4 DEF Entry
  <2>2. QED
    BY <1>1, <1>4, <2>1, TypesAre
<1>12. (now.id = fresh + 1 /\ fresh' = fresh + 1) \/ now.id = local[key].id
  BY <1>3, <1>4, <1>5, <1>11
<1>13. last'[t].key <= fresh'
  <2>1. last[t].key <= fresh /\ last[t].key \in Nat
    BY TypesAre DEF IdentityInv, Drawn, LastPage
  <2>2. QED
    BY <1>10, <1>11, <2>1, TypesAre
<1>14. tab[t].cloned = FALSE => GrantedIn(grants', now)
  <2> SUFFICES ASSUME tab[t].cloned = FALSE, now.token # NoOne PROVE GrantedIn(grants, now)
    BY <1>1 DEF GrantedIn
  <2>1. tab[t].name # NoOne
    BY <1>3, <1>4
  <2>2. /\ was.token = local[tab[t].name].token /\ was.user = local[tab[t].name].user
        /\ TokenOf(local[tab[t].name])
    BY <1>3, <2>1, IdentityIs DEF IdentityInv, OwnEntry, EntryOk
  <2>3. QED
    BY <1>3, <1>4, <2>1, <2>2 DEF TokenOf, GrantedIn
<1>15. tab[t].cloned = FALSE /\ last'[t].user # NoOne /\ last'[t].as = last'[t].user
         /\ last'[t].key = key =>
         now.id = last'[t].id /\ now.user = last'[t].user
  <2> SUFFICES ASSUME tab[t].cloned = FALSE, last'[t].user # NoOne,
                      last'[t].as = last'[t].user, last'[t].key = key
               PROVE  now.id = last'[t].id /\ now.user = last'[t].user
    OBVIOUS
  <2>1. /\ last[t].user = user /\ last'[t].user = user /\ last[t].key = key
        /\ last[t].as = last[t].user
    BY <1>10
  <2>2. tab[t].name # NoOne
    <3>1. last[t].key <= fresh /\ last[t].key \in Nat
      BY TypesAre DEF IdentityInv, Drawn, LastPage
    <3>2. QED
      BY <1>5, <2>1, <3>1, TypesAre
  <2>3. /\ was.user = local[tab[t].name].user
        /\ local[tab[t].name].id = last[t].id /\ local[tab[t].name].user = last[t].user
    BY <1>3, <1>5, <2>1, <2>2, IdentityIs DEF IdentityInv, OwnEntry, EntryOk
  <2>4. QED
    BY <1>3, <1>4, <1>10, <2>1, <2>2, <2>3
<1>16. /\ \A p \in probes' : p.from \in Tabs /\ p.to \in Tabs
       /\ \A a \in acks' : a.to \in Tabs
  BY <1>1 DEF IdentityInv, Typed, Probe, Listeners
<1>17. grants' \in [0..MaxFresh -> Entry] /\ \A k \in 0..fresh : grants'[k] = grants[k]
  BY <1>1, TypesAre
<1>18. /\ "probing" \in Running \ {"joining"} /\ "probing" \notin Connected /\ NoOne \in Nat /\ tab[t].cloned \in BOOLEAN
       /\ tab[t].cloned = tab[t].cloned
  BY <1>2, Null DEF Running, Connected, Page
<1> HIDE DEF key
<1>19. Stores(t, key, now, "probing", user, NoOne, tab[t].cloned, now)
  BY <1>1, <1>4, <1>5, <1>9, <1>10, <1>11, <1>12, <1>13, <1>14, <1>15, <1>16, <1>17,
     <1>18
     DEF Stores
<1>20. QED
  BY <1>19, StoreKeeps

LEMMA SplitKeeps ==
  ASSUME IdentityInv, NEW a \in acks, splitPersistentClientIdentityAcrossTabs(a)
  PROVE  IdentityInv'
<1> DEFINE t == a.to
<1>1. /\ t \in Tabs /\ UNCHANGED <<probes, grants, last>>
      /\ \A p \in probes' : p.from \in Tabs /\ p.to \in Tabs
      /\ \A b \in acks' : b.to \in Tabs
  BY DEF splitPersistentClientIdentityAcrossTabs, IdentityInv, Typed
<1>2. CASE ~(tab[t].phase = "probing" /\ a.key = tab[t].name)
  <2>1. UNCHANGED <<tab, local, fresh, grants, last>>
    BY <1>2 DEF splitPersistentClientIdentityAcrossTabs
  <2>2. QED
    BY <1>1, <2>1, StoredSame
<1>3. CASE tab[t].phase = "probing" /\ a.key = tab[t].name
  <2> DEFINE now == [id |-> fresh + 1, user |-> Identity(t).user, token |-> NoOne]
             r == [tab[t] EXCEPT !.phase = "owner", !.cloned = FALSE, !.name = fresh + 1,
                                 !.session = now]
  <2>1. /\ fresh < MaxFresh /\ fresh' = fresh + 1
        /\ local' = [local EXCEPT ![fresh + 1] = now] /\ tab' = [tab EXCEPT ![t] = r]
    BY <1>3 DEF splitPersistentClientIdentityAcrossTabs, setPersistentClientValue
  <2>2. tab[t] \in Page /\ tab[t].name # NoOne /\ tab[t].channel = TRUE /\ tab[t].sc = NoOne
    BY <1>1, <1>3, TypesAre DEF IdentityInv, Pages, PageOk, Running, Connected
  <2>3. /\ Identity(t).user \in Users \cup {NoOne} /\ fresh + 1 \in 1..MaxFresh
        /\ fresh + 1 \in Nat /\ fresh \in Nat
    <3>1. Identity(t).user \in Users \cup {NoOne}
      BY <1>1, <2>2, IdentityIs
    <3>2. QED
      BY <2>1, <3>1, TypesAre
  <2>4. /\ now \in Entry /\ now.id = fresh + 1 /\ now.token = NoOne
        /\ NoOne \in Nat /\ NoOne <= fresh + 1 /\ fresh + 1 # NoOne
    BY <2>3, Null DEF Entry
  <2> HIDE DEF now
  <2>5. PageIs(r, "owner", fresh + 1, now, TRUE, tab[t].user, NoOne, FALSE)
    BY <2>2, <2>3, <2>4 DEF PageIs, Page, Phases
  <2> HIDE DEF r
  <2>6. /\ tab' \in [Tabs -> Page] /\ \A u \in Tabs \ {t} : tab'[u] = tab[u]
        /\ PageIs(tab'[t], "owner", fresh + 1, now, TRUE, tab[t].user, NoOne, FALSE)
    BY <1>1, <2>1, <2>5, TypesAre DEF PageIs
  <2>7. last[t].key <= fresh /\ last[t].key \in Nat /\ last[t].key # fresh + 1
    <3>1. last[t].key <= fresh /\ last[t].key \in Nat
      BY <1>1, TypesAre DEF IdentityInv, Drawn, LastPage
    <3>2. QED
      BY <2>3, <3>1
  <2>8. /\ last' \in [Tabs -> LastPage]
        /\ \A u \in Tabs \ {t} : last'[u] = last[u]
        /\ last'[t].key <= fresh' /\ last'[t].key # fresh + 1
    BY <1>1, <2>1, <2>3, <2>7, TypesAre
  <2>9. grants' \in [0..MaxFresh -> Entry] /\ \A k \in 0..fresh : grants'[k] = grants[k]
    BY <1>1, TypesAre
  <2>10. /\ "owner" \in Running \ {"joining"} /\ "owner" \notin Connected
         /\ tab[t].user \in Users \cup {NoOne} /\ FALSE \in BOOLEAN
         /\ GrantedIn(grants', now) /\ fresh' \in 0..MaxFresh /\ fresh' \in {fresh, fresh + 1}
    BY <2>1, <2>2, <2>3, <2>4 DEF Running, Connected, Page, GrantedIn
  <2> HIDE DEF t
  <2>11. Stores(t, fresh + 1, now, "owner", tab[t].user, NoOne, FALSE, now)
    BY <1>1, <2>1, <2>3, <2>4, <2>6, <2>8, <2>9, <2>10 DEF Stores
  <2>12. QED
    BY <1>1, <2>11, StoreKeeps
<1>4. QED
  BY <1>2, <1>3

LEMMA JoinedKeeps ==
  ASSUME IdentityInv, NEW t \in Tabs, NEW user \in Users, applyJoinedMessage(t, user)
  PROVE  IdentityInv'
<1> DEFINE key == tab[t].name
           e == Granted(local[key], user, fresh + 1)
           kept == Granted(tab[t].session, user, fresh + 1)
           r == [tab[t] EXCEPT !.phase = "joined", !.user = user, !.asked = user,
                               !.name = key, !.session = kept]
<1>1. /\ tab[t].phase = "joining" /\ fresh < MaxFresh /\ tab[t].user \in {user, NoOne}
      /\ fresh' = fresh + 1 /\ UNCHANGED <<probes, acks, last>>
      /\ grants' = [grants EXCEPT ![fresh + 1] =
                      [id |-> tab[t].sc, user |-> user, token |-> fresh + 1]]
      /\ local' = [local EXCEPT ![key] = e] /\ tab' = [tab EXCEPT ![t] = r]
  BY DEF applyJoinedMessage, setPersistentClientValue
<1>2. /\ tab[t] \in Page /\ key \in 0..MaxFresh /\ key # NoOne /\ tab[t].channel = TRUE
      /\ tab[t].sc # NoOne /\ tab[t].sc \in Nat /\ tab[t].session \in Entry /\ key \in 1..MaxFresh
      /\ local[key] \in Entry /\ local[key].id # NoOne
  <2>1. /\ tab[t] \in Page /\ key \in 0..MaxFresh /\ tab[t].sc \in Nat
    BY TypesAre, KeyIn
  <2>2. key # NoOne /\ tab[t].channel = TRUE /\ tab[t].sc # NoOne /\ local[key].id # NoOne
    BY <1>1 DEF IdentityInv, Pages, PageOk, Running, Connected
  <2>3. QED
    BY <2>1, <2>2, TypesAre, Null DEF Page
<1>3. /\ fresh + 1 \in Nat /\ fresh + 1 \in 1..MaxFresh /\ fresh \in Nat /\ user # NoOne
      /\ fresh + 1 # NoOne
  BY <1>1, TypesAre, Null
<1>4. /\ e \in Entry /\ e.id = local[key].id /\ e.user = user /\ e.token = fresh + 1
  BY <1>2, <1>3 DEF Granted, Entry
<1>5. /\ kept \in Entry /\ kept.token = fresh + 1
      /\ tab[t].session = local[key] => kept = e
  BY <1>2, <1>3 DEF Granted, Entry
<1> HIDE DEF e, kept
<1>6. PageIs(r, "joined", key, kept, TRUE, user, tab[t].sc, tab[t].cloned)
  BY <1>2, <1>5 DEF PageIs, Page, Phases
<1> HIDE DEF r
<1>7. /\ tab' \in [Tabs -> Page] /\ \A u \in Tabs \ {t} : tab'[u] = tab[u]
      /\ PageIs(tab'[t], "joined", key, kept, TRUE, user, tab[t].sc, tab[t].cloned)
  BY <1>1, <1>6, TypesAre DEF PageIs
<1>8. tab[t].cloned = FALSE =>
        /\ tab[t].session = local[key] /\ tab[t].sc = local[key].id
        /\ last[t].user # NoOne /\ last[t].as = last[t].user /\ last[t].key = key =>
             local[key].id = last[t].id /\ last[t].user = tab[t].user
  BY <1>1, <1>2 DEF IdentityInv, OwnEntry, EntryOk, Recorded
<1>9. /\ grants' \in [0..MaxFresh -> Entry] /\ \A k \in 0..fresh : grants'[k] = grants[k]
      /\ grants'[fresh + 1].id = tab[t].sc /\ grants'[fresh + 1].user = user
  <2>1. [id |-> tab[t].sc, user |-> user, token |-> fresh + 1] \in Entry
    BY <1>2, <1>3 DEF Entry
  <2>2. QED
    BY <1>1, <1>3, <2>1, TypesAre
<1>10. tab[t].cloned = FALSE => GrantedIn(grants', e)
  BY <1>3, <1>4, <1>8, <1>9 DEF GrantedIn
<1>11. tab[t].cloned = FALSE /\ last'[t].user # NoOne /\ last'[t].as = last'[t].user
         /\ last'[t].key = key =>
         e.id = last'[t].id /\ e.user = last'[t].user
  BY <1>1, <1>4, <1>8
<1>12. last'[t].key <= fresh'
  <2>1. last[t].key <= fresh /\ last[t].key \in Nat
    BY TypesAre DEF IdentityInv, Drawn, LastPage
  <2>2. QED
    BY <1>1, <1>3, <2>1
<1>13. /\ last' \in [Tabs -> LastPage]
       /\ \A u \in Tabs \ {t} : last'[u] = last[u]
       /\ \A p \in probes' : p.from \in Tabs /\ p.to \in Tabs
       /\ \A a \in acks' : a.to \in Tabs
  BY <1>1, TypesAre DEF IdentityInv, Typed
<1>14. /\ "joined" \in Running \ {"joining"} /\ "joined" \in Connected
       /\ user \in Users \cup {NoOne} /\ tab[t].cloned \in BOOLEAN
       /\ fresh' \in 0..MaxFresh /\ fresh' \in {fresh, fresh + 1} /\ e.id # NoOne
       /\ e.token <= fresh' /\ kept.token <= fresh'
       /\ (tab[t].cloned = FALSE => kept = e)
       /\ (tab[t].cloned = FALSE => tab[t].sc = e.id)
  BY <1>1, <1>2, <1>3, <1>4, <1>5, <1>8 DEF Running, Connected, Page
<1> HIDE DEF key
<1>15. key = tab[t].name
  BY DEF key
<1>16. Stores(t, key, e, "joined", user, tab[t].sc, tab[t].cloned, kept)
  BY <1>1, <1>2, <1>4, <1>5, <1>7, <1>9, <1>10, <1>11, <1>12, <1>13, <1>14, <1>15
     DEF Stores
<1>17. QED
  BY <1>16, StoreKeeps

(* The pages of the other tabs, what they have asked and what they are told *)
(* are left alone.                                                         *)
LEMMA PairsOf ==
  ASSUME OneAsks, NEW t \in Tabs,
         \A u \in Tabs \ {t} : tab'[u] = tab[u],
         \A p \in probes : p.from # t /\ p.to # t => p \in probes',
         \A a \in acks : a.to # t => a \in acks',
         \A u \in Tabs \ {t} :
            tab'[u].name = tab'[t].name /\ tab'[u].phase \in Running /\ tab'[t].phase \in Running
            => Asks(t, u)' \/ Asks(u, t)'
  PROVE  OneAsks'
<1>1. ASSUME NEW v \in Tabs, NEW w \in Tabs, v # w, tab'[v].name = tab'[w].name,
             tab'[v].phase \in Running, tab'[w].phase \in Running
      PROVE  Asks(v, w)' \/ Asks(w, v)'
  <2>1. CASE v = t \/ w = t
    BY <1>1, <2>1
  <2>2. CASE v # t /\ w # t
    <3>1. tab'[v] = tab[v] /\ tab'[w] = tab[w]
      BY <2>2
    <3>2. Asks(v, w) \/ Asks(w, v)
      BY <1>1, <3>1 DEF OneAsks
    <3>3. QED
      BY <2>2, <3>1, <3>2 DEF Asks
  <2>3. QED
    BY <2>1, <2>2
<1>2. QED
  BY <1>1 DEF OneAsks

(* A page that is not running any more shares its key with none.           *)
LEMMA LeftOwns ==
  ASSUME IdentityInv, OwnerInv, NEW t \in Tabs,
         Open(t) \/ Reload(t) \/ CloseTab(t) \/ \E auth \in BOOLEAN : LoginAgain(t, auth)
  PROVE  OwnerInv'
<1>1. /\ \A u \in Tabs \ {t} : tab'[u] = tab[u]
      /\ tab'[t].phase \in {"idle", "closed"} /\ tab'[t].sc = NoOne
  <2>1. tab[t] \in Page
    BY TypesAre
  <2>2. CASE Open(t)
    BY <2>2, TypesAre DEF Open, Closed
  <2>3. CASE Reload(t)
    BY <2>1, <2>3, TypesAre DEF Reload, Page
  <2>4. CASE CloseTab(t)
    BY <2>4, TypesAre DEF CloseTab, Closed
  <2>5. ASSUME NEW auth \in BOOLEAN, LoginAgain(t, auth)
        PROVE  /\ \A u \in Tabs \ {t} : tab'[u] = tab[u]
               /\ tab'[t].phase \in {"idle", "closed"} /\ tab'[t].sc = NoOne
    BY <2>5, LoginAgainIs DEF PageIs
  <2>6. QED
    BY <2>2, <2>3, <2>4, <2>5
<1>2. /\ \A p \in probes : p.from # t /\ p.to # t => p \in probes'
      /\ \A a \in acks : a.to # t => a \in acks'
  <2>1. ASSUME NEW auth \in BOOLEAN, LoginAgain(t, auth) PROVE UNCHANGED <<probes, acks>>
    BY <2>1 DEF LoginAgain
  <2>2. QED
    BY <2>1 DEF Open, Reload, CloseTab, Forget
<1>3. OneAsks'
  BY <1>1, <1>2, PairsOf DEF OwnerInv, Running
<1>4. ScDiffer'
  BY <1>1 DEF OwnerInv, ScDiffer
<1>5. QED
  BY <1>3, <1>4 DEF OwnerInv

LEMMA DuplicateOwns ==
  ASSUME IdentityInv, OwnerInv, NEW t \in Tabs, NEW u \in Tabs, Duplicate(t, u)
  PROVE  OwnerInv'
<1>1. /\ t # u /\ tab'[u].phase = "idle" /\ tab'[u].sc = NoOne /\ UNCHANGED <<probes, acks>>
      /\ \A v \in Tabs \ {u} : /\ tab'[v].phase = tab[v].phase /\ tab'[v].name = tab[v].name
                               /\ tab'[v].sc = tab[v].sc
  <2>1. tab[t] \in Page
    BY TypesAre
  <2>2. QED
    BY <2>1, TypesAre DEF Duplicate, Closed, Page
<1>2. OneAsks'
  BY <1>1 DEF OwnerInv, OneAsks, Asks, Running
<1>3. ScDiffer'
  BY <1>1 DEF OwnerInv, ScDiffer
<1>4. QED
  BY <1>2, <1>3 DEF OwnerInv

(* A page that asks again asks every page that may share its key.          *)
LEMMA AskingOwns ==
  ASSUME IdentityInv, OwnerInv, NEW t \in Tabs, NEW key,
         \A u \in Tabs \ {t} : tab'[u] = tab[u],
         tab'[t].phase = "probing", tab'[t].name = key, tab'[t].sc = NoOne,
         Probe(t, key), UNCHANGED acks
  PROVE  OwnerInv'
<1>1. ASSUME NEW u \in Tabs \ {t}, tab'[u].phase \in Running PROVE Asks(t, u)'
  <2>1. u \in Listeners(t)
    BY <1>1 DEF IdentityInv, Pages, PageOk, Listeners
  <2>2. [from |-> t, to |-> u, key |-> key] \in probes'
    BY <2>1 DEF Probe
  <2>3. QED
    BY <2>2 DEF Asks
<1>2. OneAsks'
  <2>1. \A p \in probes : p \in probes'
    BY DEF Probe
  <2>2. \A u \in Tabs \ {t} :
            tab'[u].name = tab'[t].name /\ tab'[u].phase \in Running /\ tab'[t].phase \in Running
            => Asks(t, u)' \/ Asks(u, t)'
    BY <1>1
  <2>3. OneAsks
    BY DEF OwnerInv
  <2>4. QED
    BY <2>1, <2>2, <2>3, PairsOf
<1>3. ScDiffer'
  BY DEF OwnerInv, ScDiffer
<1>4. QED
  BY <1>2, <1>3 DEF OwnerInv

LEMMA ReconnectOwns ==
  ASSUME IdentityInv, OwnerInv, NEW t \in Tabs, Reconnect(t)
  PROVE  OwnerInv'
<1>1. tab[t] \in Page
  BY TypesAre
<1>2. /\ \A u \in Tabs \ {t} : tab'[u] = tab[u]
      /\ tab'[t].phase = "probing" /\ tab'[t].name = tab[t].name /\ tab'[t].sc = NoOne
      /\ Probe(t, tab[t].name) /\ UNCHANGED acks
  BY <1>1, TypesAre DEF Reconnect, Page
<1>3. QED
  BY <1>2, AskingOwns

LEMMA loginformOwns ==
  ASSUME IdentityInv, OwnerInv, NEW t \in Tabs, NEW user, loginform(t, user)
  PROVE  OwnerInv'
<1> DEFINE key == getPersistentClientTabKey(t)
<1>1. tab[t] \in Page /\ tab[t].phase = "idle"
  BY TypesAre DEF loginform
<1>2. tab[t].sc = NoOne
  BY <1>1 DEF IdentityInv, Pages, PageOk, Connected
<1>3. /\ \A u \in Tabs \ {t} : tab'[u] = tab[u]
      /\ tab'[t].phase = "probing" /\ tab'[t].name = key /\ tab'[t].sc = tab[t].sc
      /\ Probe(t, key) /\ UNCHANGED acks
  <2> HIDE DEF key
  <2>1. PICK now : tab' = [tab EXCEPT ![t] =
            [[tab[t] EXCEPT !.phase = "probing", !.channel = TRUE, !.user = user]
                EXCEPT !.name = key, !.session = now]]
    BY DEF loginform, setPersistentClientValue, key
  <2>2. QED
    BY <1>1, <2>1, TypesAre DEF loginform, Page, key
<1> HIDE DEF key
<1>4. QED
  BY <1>2, <1>3, AskingOwns

(* A page whose probe nobody answers is alone with its key, or another     *)
(* page is asking.                                                         *)
LEMMA ProbeTimeoutOwns ==
  ASSUME IdentityInv, OwnerInv, Timely, NEW t \in Tabs, ProbeTimeout(t)
  PROVE  OwnerInv'
<1>1. tab[t] \in Page
  BY TypesAre
<1>2. /\ \A u \in Tabs \ {t} : tab'[u] = tab[u]
      /\ tab'[t].name = tab[t].name /\ tab'[t].sc = tab[t].sc /\ tab[t].phase = "probing"
      /\ UNCHANGED <<probes, acks>>
  BY <1>1, TypesAre DEF ProbeTimeout, Page
<1>3. ASSUME NEW u \in Tabs PROVE ~Asks(t, u)
  BY DEF ProbeTimeout, Asks
<1>4. ASSUME NEW u \in Tabs \ {t}, tab'[u].name = tab'[t].name, tab'[u].phase \in Running
      PROVE  Asks(u, t)'
  <2>1. Asks(u, t)
    BY <1>2, <1>3, <1>4 DEF OwnerInv, OneAsks, Running
  <2>2. QED
    BY <1>2, <2>1 DEF Asks
<1>5. OneAsks'
  BY <1>2, <1>4, PairsOf DEF OwnerInv
<1>6. ScDiffer'
  BY <1>2 DEF OwnerInv, ScDiffer
<1>7. QED
  BY <1>5, <1>6 DEF OwnerInv

(* A probe that is delivered to a page with the same key becomes an answer. *)
LEMMA HandlerOwns ==
  ASSUME IdentityInv, OwnerInv, NEW p \in probes, getPersistentClientProbeChannel(p)
  PROVE  OwnerInv'
<1>1. tab' = tab /\ probes' = probes \ {p} /\ \A a \in acks : a \in acks'
  BY DEF getPersistentClientProbeChannel
<1>2. ASSUME NEW t \in Tabs, NEW u \in Tabs, tab[t].name = tab[u].name, Asks(t, u)
      PROVE  Asks(t, u)'
  <2>1. CASE p = [from |-> t, to |-> u, key |-> tab[t].name]
    <3>1. [to |-> t, key |-> tab[t].name] \in acks'
      BY <1>2, <2>1 DEF getPersistentClientProbeChannel
    <3>2. QED
      BY <1>1, <1>2, <3>1 DEF Asks
  <2>2. CASE p # [from |-> t, to |-> u, key |-> tab[t].name]
    BY <1>1, <1>2, <2>2 DEF Asks
  <2>3. QED
    BY <2>1, <2>2
<1>3. OneAsks'
  BY <1>1, <1>2 DEF OwnerInv, OneAsks
<1>4. QED
  BY <1>1, <1>3 DEF OwnerInv, ScDiffer

(* The tab that is told takes a key that nobody has.                       *)
LEMMA SplitOwns ==
  ASSUME IdentityInv, OwnerInv, NEW a \in acks, splitPersistentClientIdentityAcrossTabs(a)
  PROVE  OwnerInv'
<1> DEFINE t == a.to
<1>1. t \in Tabs /\ tab[t] \in Page /\ UNCHANGED probes /\ acks' = acks \ {a}
  BY TypesAre DEF splitPersistentClientIdentityAcrossTabs, IdentityInv, Typed
<1>2. CASE ~(tab[t].phase = "probing" /\ a.key = tab[t].name)
  <2>1. tab' = tab
    BY <1>2 DEF splitPersistentClientIdentityAcrossTabs
  <2>2. ASSUME NEW v \in Tabs, NEW w \in Tabs, Asks(v, w) PROVE Asks(v, w)'
    BY <1>1, <1>2, <2>1, <2>2 DEF Asks
  <2>3. QED
    BY <2>1, <2>2 DEF OwnerInv, OneAsks, ScDiffer
<1>3. CASE tab[t].phase = "probing" /\ a.key = tab[t].name
  <2> HIDE DEF t
  <2>1. PICK now : tab' = [tab EXCEPT ![t] =
            [[tab[t] EXCEPT !.phase = "owner", !.cloned = FALSE]
                EXCEPT !.name = fresh + 1, !.session = now]]
    BY <1>3 DEF splitPersistentClientIdentityAcrossTabs, setPersistentClientValue, t
  <2>2. /\ \A u \in Tabs \ {t} : tab'[u] = tab[u]
        /\ tab'[t].name = fresh + 1 /\ tab'[t].sc = tab[t].sc
    BY <1>1, <2>1, TypesAre DEF Page
  <2>3. \A u \in Tabs \ {t} : tab'[u].name # tab'[t].name
    <3>1. \A u \in Tabs : tab[u].name \in Nat /\ tab[u].name <= fresh
      BY KeyIn
    <3>2. \A n \in Nat : n <= fresh => n # fresh + 1
      BY TypesAre
    <3>3. QED
      BY <2>2, <3>1, <3>2
  <2>4. OneAsks'
    <3>1. OneAsks /\ \A b \in acks : b.to # t => b \in acks'
      BY <1>1 DEF OwnerInv, t
    <3>2. \A u \in Tabs \ {t} : tab'[u].name = tab'[t].name => Asks(t, u)' \/ Asks(u, t)'
      BY <2>3
    <3>3. QED
      BY <1>1, <2>2, <3>1, <3>2, PairsOf
  <2>5. ScDiffer'
    BY <2>2 DEF OwnerInv, ScDiffer
  <2>6. QED
    BY <2>4, <2>5 DEF OwnerInv
<1>4. QED
  BY <1>2, <1>3

(* Of a page that has done waiting: another page with its key is asking.   *)
LEMMA DoneAsking ==
  ASSUME IdentityInv, OwnerInv, NEW t \in Tabs, tab[t].phase \in Running \ {"probing"},
         \A u \in Tabs \ {t} : tab'[u] = tab[u],
         tab'[t].name = tab[t].name, UNCHANGED <<probes, acks>>
  PROVE  OneAsks'
<1>1. ASSUME NEW u \in Tabs \ {t}, tab'[u].name = tab'[t].name, tab'[u].phase \in Running
      PROVE  Asks(u, t)'
  <2>1. Asks(u, t)
    BY <1>1 DEF OwnerInv, OneAsks, Asks
  <2>2. QED
    BY <2>1 DEF Asks
<1>2. OneAsks
  BY DEF OwnerInv
<1>3. QED
  BY <1>1, <1>2, PairsOf

LEMMA JoinOwns ==
  ASSUME IdentityInv, OwnerInv, NEW t \in Tabs, join(t)
  PROVE  OwnerInv'
<1>1. /\ tab[t].phase = "connecting" /\ UNCHANGED <<probes, acks>>
      /\ \A u \in Tabs \ {t} : tab'[u] = tab[u]
      /\ tab'[t].name = tab[t].name /\ tab'[t].sc = tab[t].sc
  BY JoinIs DEF PageIs
<1>2. OneAsks'
  BY <1>1, DoneAsking DEF Running
<1>3. ScDiffer'
  BY <1>1 DEF OwnerInv, ScDiffer
<1>4. QED
  BY <1>2, <1>3 DEF OwnerInv

LEMMA JoinedOwns ==
  ASSUME IdentityInv, OwnerInv, NEW t \in Tabs, NEW user, applyJoinedMessage(t, user)
  PROVE  OwnerInv'
<1>1. tab[t] \in Page /\ tab[t].phase = "joining" /\ UNCHANGED <<probes, acks>>
  BY TypesAre DEF applyJoinedMessage
<1>2. PICK kept : tab' = [tab EXCEPT ![t] =
            [[tab[t] EXCEPT !.phase = "joined", !.user = user, !.asked = user]
                EXCEPT !.name = tab[t].name, !.session = kept]]
  BY DEF applyJoinedMessage, setPersistentClientValue
<1>3. /\ \A u \in Tabs \ {t} : tab'[u] = tab[u]
      /\ tab'[t].name = tab[t].name /\ tab'[t].sc = tab[t].sc
  BY <1>1, <1>2, TypesAre DEF Page
<1>4. OneAsks'
  BY <1>1, <1>3, DoneAsking DEF Running
<1>5. ScDiffer'
  BY <1>3 DEF OwnerInv, ScDiffer
<1>6. QED
  BY <1>4, <1>5 DEF OwnerInv

(* What a new connection is known by.                                      *)
LEMMA ConnectionIs ==
  ASSUME IdentityInv, NEW t \in Tabs, ServerConnection(t)
  PROVE  /\ tab[t].phase = "owner" /\ tab[t].name # NoOne
         /\ \A u \in Tabs \ {t} : tab'[u] = tab[u]
         /\ tab'[t].name = tab[t].name /\ UNCHANGED <<probes, acks>>
         /\ tab'[t].sc \in {fresh + 1, local[tab[t].name].id} /\ tab'[t].sc # NoOne
         /\ last'[t].id = tab'[t].sc /\ last'[t].user = tab[t].user
         /\ last'[t].key = tab[t].name /\ last'[t].as = Prepared(t)
         /\ \A u \in Tabs \ {t} : last'[u] = last[u]
         /\ Identity(t).user = Prepared(t) => tab'[t].sc = local[tab[t].name].id
<1> DEFINE now == ensurePersistentClientIdForUsername(Identity(t), Prepared(t), fresh + 1)
<1>1. /\ tab[t] \in Page /\ tab[t].phase = "owner" /\ UNCHANGED <<probes, acks>>
      /\ last' = [last EXCEPT ![t] = [key |-> tab[t].name, user |-> tab[t].user,
                                      as |-> Prepared(t), id |-> now.id]]
  BY TypesAre DEF ServerConnection
<1>2. tab[t].name # NoOne /\ Prepared(t) \in Users \cup {NoOne}
  BY <1>1 DEF IdentityInv, Pages, PageOk, Running, Page, Prepared
<1>3. /\ now.id # NoOne /\ now.id \in {fresh + 1, local[tab[t].name].id}
      /\ Identity(t).user = Prepared(t) => now.id = local[tab[t].name].id
  <2>1. /\ Identity(t).id \in Nat /\ Identity(t).user \in Users \cup {NoOne}
        /\ Identity(t).token \in Nat /\ Identity(t).token <= fresh /\ Identity(t).id # NoOne
        /\ Identity(t).id = local[tab[t].name].id
    BY <1>2, IdentityIs
  <2>2. QED
    BY <1>2, <2>1, EnsureIs
<1>4. tab' = [tab EXCEPT ![t] = [[tab[t] EXCEPT !.phase = "connecting", !.sc = now.id]
                                   EXCEPT !.name = tab[t].name, !.session = now]]
  BY DEF ServerConnection, setPersistentClientValue
<1> HIDE DEF now
<1>5. /\ \A u \in Tabs \ {t} : tab'[u] = tab[u]
      /\ tab'[t].name = tab[t].name /\ tab'[t].sc = now.id
  BY <1>1, <1>4, TypesAre DEF Page
<1>6. /\ last'[t].id = now.id /\ last'[t].user = tab[t].user /\ last'[t].key = tab[t].name
      /\ last'[t].as = Prepared(t)
      /\ \A u \in Tabs \ {t} : last'[u] = last[u]
  BY <1>1, TypesAre DEF LastPage
<1>7. QED
  BY <1>1, <1>2, <1>3, <1>5, <1>6

(* The id is new, or was stored under the key, and then a tab connected by *)
(* it has the key too and one of the two is still asking.                  *)
LEMMA ServerConnectionOwns ==
  ASSUME IdentityInv, OwnerInv, NEW t \in Tabs, ServerConnection(t)
  PROVE  OwnerInv'
<1>1. /\ tab[t].phase = "owner" /\ tab[t].name # NoOne
      /\ \A u \in Tabs \ {t} : tab'[u] = tab[u]
      /\ tab'[t].name = tab[t].name /\ UNCHANGED <<probes, acks>>
      /\ tab'[t].sc \in {fresh + 1, local[tab[t].name].id}
  BY ConnectionIs
<1>2. OneAsks'
  BY <1>1, DoneAsking DEF Running
<1>3. ASSUME NEW u \in Tabs \ {t}, tab[u].sc # NoOne PROVE tab'[t].sc # tab[u].sc
  <2>1. CASE tab'[t].sc = fresh + 1
    <3>1. tab[u].sc \in Nat /\ tab[u].sc <= fresh /\ fresh \in Nat
      BY KeyIn, TypesAre DEF IdentityInv, Drawn
    <3>2. QED
      BY <2>1, <3>1
  <2>2. CASE tab'[t].sc = local[tab[t].name].id
    <3> SUFFICES ASSUME local[tab[t].name].id = tab[u].sc PROVE FALSE
      BY <2>2
    <3>1. tab[u].name = tab[t].name
      BY <1>3, KeyIn DEF IdentityInv, IdsDiffer
    <3>2. tab[u].phase \in Connected
      BY <1>3 DEF IdentityInv, Pages, PageOk
    <3>3. Asks(t, u) \/ Asks(u, t)
      BY <1>1, <3>1, <3>2 DEF OwnerInv, OneAsks, Running, Connected
    <3>4. QED
      BY <1>1, <3>2, <3>3 DEF Asks, Connected
  <2>3. QED
    BY <1>1, <2>1, <2>2
<1>4. ScDiffer'
  <2>1. ASSUME NEW v \in Tabs, NEW w \in Tabs, v # w, tab'[v].sc # NoOne
        PROVE  tab'[v].sc # tab'[w].sc
    <3>1. CASE v # t /\ w # t
      BY <1>1, <2>1, <3>1 DEF OwnerInv, ScDiffer
    <3>2. CASE v = t
      BY <1>1, <1>3, <2>1, <3>2
    <3>3. CASE w = t
      BY <1>1, <1>3, <2>1, <3>3
    <3>4. QED
      BY <3>1, <3>2, <3>3
  <2>2. QED
    BY <2>1 DEF ScDiffer
<1>5. QED
  BY <1>2, <1>4 DEF OwnerInv

LEMMA IdentityStarts == TabIdentityAssumption /\ Init => IdentityInv /\ OwnerInv
<1> SUFFICES ASSUME TabIdentityAssumption, Init PROVE IdentityInv /\ OwnerInv
  OBVIOUS
<1>1. PageIs(Closed, "closed", NoOne, Nothing, FALSE, NoOne, NoOne, FALSE) /\ Closed \in Page
  BY ClosedIs DEF PageIs
<1>2. /\ \A t \in Tabs : /\ tab[t] = Closed
                         /\ last[t] = NotYet
      /\ tab \in [Tabs -> Page]
      /\ local \in [0..MaxFresh -> Entry] /\ \A k \in 0..MaxFresh : local[k] = Nothing
      /\ grants \in [0..MaxFresh -> Entry]
      /\ last \in [Tabs -> LastPage]
      /\ fresh = 0 /\ probes = {} /\ acks = {}
  BY <1>1, NothingIs, Null DEF Init, NotYet, LastPage
<1>3. Typed
  BY <1>2 DEF Typed, TabIdentityAssumption
<1>4. Drawn /\ Pages /\ OwnKey /\ OwnEntry /\ Recorded /\ IdsDiffer
  BY <1>1, <1>2, NothingIs, Null
     DEF Drawn, Pages, PageOk, OwnKey, OwnEntry, EntryOk, Recorded, IdsDiffer, PageIs,
         Running, Connected, NotYet
<1>5. OwnerInv
  BY <1>1, <1>2 DEF OwnerInv, OneAsks, ScDiffer, Running, PageIs
<1>6. QED
  BY <1>3, <1>4, <1>5 DEF IdentityInv

LEMMA LeavesFor ==
  ASSUME IdentityInv, NEW t \in Tabs,
         JoinRefused(t) \/ GiveUp(t) \/ disconnectConferenceNow(t)
  PROVE  \E auth \in BOOLEAN : LoginAgain(t, auth)
<1>1. tab[t].auth \in BOOLEAN
  BY TypesAre DEF Page
<1>2. QED
  BY <1>1 DEF JoinRefused, GiveUp, disconnectConferenceNow

LEMMA IdentityKeeps ==
  ASSUME IdentityInv, [Next]_vars
  PROVE  IdentityInv'
<1>1. CASE UNCHANGED vars
  <2>1. /\ UNCHANGED <<tab, local, fresh, grants, last>>
        /\ \A p \in probes' : p.from \in Tabs /\ p.to \in Tabs
        /\ \A a \in acks' : a.to \in Tabs
    BY <1>1 DEF vars, IdentityInv, Typed
  <2>2. QED
    BY <2>1, StoredSame
<1>2. CASE Next
  <2>1. ASSUME NEW t \in Tabs, JoinRefused(t) \/ GiveUp(t) \/ disconnectConferenceNow(t)
        PROVE  IdentityInv'
    BY <2>1, LeavesFor, LoginAgainKeeps
  <2>2. QED
    BY <1>2, <2>1, OpenKeeps, ReloadKeeps, CloseTabKeeps, ReconnectKeeps,
       ProbeTimeoutKeeps, ServerConnectionKeeps, JoinKeeps, JoinedKeeps, loginformKeeps,
       DuplicateKeeps, HandlerKeeps, SplitKeeps DEF Next
<1>3. QED
  BY <1>1, <1>2

LEMMA OwnerKeeps ==
  ASSUME IdentityInv, OwnerInv, Timely, [Next]_vars
  PROVE  OwnerInv'
<1>1. CASE UNCHANGED vars
  BY <1>1 DEF vars, OwnerInv, OneAsks, Asks, ScDiffer
<1>2. CASE Next
  <2>1. ASSUME NEW t \in Tabs, JoinRefused(t) \/ GiveUp(t) \/ disconnectConferenceNow(t)
        PROVE  OwnerInv'
    BY <2>1, LeavesFor, LeftOwns
  <2>2. QED
    BY <1>2, <2>1, LeftOwns, ReconnectOwns, ProbeTimeoutOwns, ServerConnectionOwns,
       JoinOwns, JoinedOwns, loginformOwns, DuplicateOwns, HandlerOwns, SplitOwns DEF Next
<1>3. QED
  BY <1>1, <1>2

(* The three properties follow.                                            *)
LEMMA IdsAreOwn ==
  ASSUME OwnerInv
  PROVE  OwnId
BY DEF OwnerInv, ScDiffer, OwnId, Live

LEMMA TokensAreOwn ==
  ASSUME IdentityInv
  PROVE  TokenIsOurs
<1> SUFFICES ASSUME NEW t \in Tabs, tab[t].sc # NoOne, tab[t].cloned = FALSE,
                    tab[t].phase = "connecting", getPersistentClientValue(t, "token") # NoOne
             PROVE  /\ grants[getPersistentClientValue(t, "token")].id = tab[t].sc
                    /\ grants[getPersistentClientValue(t, "token")].user = tab[t].user
  <2>1. \A t \in Tabs : tab[t].cloned \in BOOLEAN
    BY TypesAre DEF Page
  <2>2. QED
    BY <2>1 DEF TokenIsOurs, Live
<1>1. tab[t].name # NoOne
  BY DEF IdentityInv, Pages, PageOk, Running
<1>2. /\ TokenOf(local[tab[t].name]) /\ local[tab[t].name].id = tab[t].sc
      /\ local[tab[t].name].token # NoOne => local[tab[t].name].user = tab[t].user
  BY <1>1 DEF IdentityInv, OwnEntry, EntryOk, Running
<1>3. getPersistentClientValue(t, "token") = local[tab[t].name].token
  BY <1>1, IdentityIs DEF Identity, Nothing
<1>4. QED
  BY <1>2, <1>3 DEF TokenOf, GrantedIn

(* What a tab last connected with changes when it connects again, and when *)
(* it, or the username, is another.                                        *)
LEMMA LastIs ==
  ASSUME IdentityInv, [Next]_vars, NEW t \in Tabs, last'[t] # last[t], last'[t].user # NoOne
  PROVE  ServerConnection(t)
<1>0. /\ ~UNCHANGED vars
      /\ last \in [Tabs -> LastPage]
  BY TypesAre DEF vars
<1>1. ASSUME NEW u \in Tabs, Open(u) PROVE FALSE
  BY <1>0, <1>1, Null DEF Open, NotYet, LastPage
<1>2. ASSUME NEW u \in Tabs, NEW v \in Tabs, Duplicate(u, v) PROVE FALSE
  BY <1>0, <1>2, Null DEF Duplicate, NotYet, LastPage
<1>3. ASSUME NEW u \in Tabs, NEW user, loginform(u, user) PROVE FALSE
  <2>1. last' = IF last[u].user = user THEN last ELSE [last EXCEPT ![u].user = NoOne]
    BY <1>3 DEF loginform
  <2>2. QED
    BY <1>0, <2>1 DEF LastPage
<1>4. ASSUME NEW u \in Tabs, ServerConnection(u) PROVE u = t
  BY <1>4, ConnectionIs
<1>5. ~(last' = last)
  OBVIOUS
<1>6. QED
  BY <1>0, <1>1, <1>2, <1>3, <1>4, <1>5
     DEF Next, Reload, CloseTab, Reconnect, ProbeTimeout, join, LoginAgain, JoinRefused, GiveUp,
         disconnectConferenceNow, applyJoinedMessage,
         getPersistentClientProbeChannel, splitPersistentClientIdentityAcrossTabs

LEMMA RefreshKeeps ==
  ASSUME IdentityInv, [Next]_vars, NEW t \in Tabs, last'[t] # last[t],
         last[t].user = last'[t].user, last[t].user # NoOne, last[t].key = last'[t].key,
         last[t].as = last[t].user, last'[t].as = last'[t].user, ~tab[t].cloned
  PROVE  last'[t].id = last[t].id
<1>1. ServerConnection(t)
  BY LastIs
<1>2. /\ tab[t].name # NoOne /\ last'[t].key = tab[t].name /\ last'[t].user = tab[t].user
      /\ last'[t].id = tab'[t].sc /\ last'[t].as = Prepared(t)
      /\ Identity(t).user = Prepared(t) => tab'[t].sc = local[tab[t].name].id
  BY <1>1, ConnectionIs
<1>3. tab[t].cloned = FALSE
  BY TypesAre DEF Page
<1>4. local[tab[t].name].id = last[t].id /\ local[tab[t].name].user = last[t].user
  BY <1>2, <1>3 DEF IdentityInv, OwnEntry, EntryOk
<1>5. Identity(t).user = local[tab[t].name].user
  BY <1>2, <1>3, IdentityIs
<1>6. QED
  BY <1>2, <1>4, <1>5

-------------------------------------------------------------------------------
(* The user list and the tiles.  What the page does about a user or a      *)
(* stream is a chain of small changes, each described by what it does and  *)
(* what it leaves alone; loops over the streams are recursive functions,   *)
(* reasoned about by induction on the offers.                              *)

(* Induction over the numbers, as a fact about sets: a set of numbers      *)
(* without a first one that is missing misses none.                        *)
LEMMA SetInduction ==
  ASSUME NEW T, 0 \in T, \A n \in Nat : n \in T => n + 1 \in T
  PROVE  Nat \subseteq T
<1> DEFINE Order == OpToRel(<, Nat)
           Rest == Nat \ T
<1>1. SUFFICES ASSUME Rest # {} PROVE FALSE
  OBVIOUS
<1>2. IsWellFoundedOn(Order, Nat)
  BY NatLessThanWellFounded
<1>3. PICK x \in Rest : \A y \in Rest : ~(<<y, x>> \in Order)
  <2> HIDE DEF Order, Rest
  <2>1. Rest \subseteq Nat BY DEF Rest
  <2>2. QED
  BY <1>1, <1>2, <2>1, WFMin
<1>4. x # 0 /\ x \in Nat
  OBVIOUS
<1>5. x - 1 \in Nat /\ x - 1 \notin Rest
  <2>1. x - 1 \in Nat /\ x - 1 < x
    BY <1>4
  <2>2. x - 1 \in Rest => <<x - 1, x>> \in Order
    BY <2>1, <1>4 DEF OpToRel
  <2>3. QED
    BY <2>1, <2>2, <1>3
<1>6. QED
  BY <1>4, <1>5

(* A function of the numbers up to a bound that starts with a value and    *)
(* takes the steps.                                                        *)
IsRun(q, first, steps, bound) ==
    q[0] = first /\ \A n \in 1..bound : q[n] = steps[n][q[n - 1]]

(* There is such a function, and its values stay where the steps keep      *)
(* them: what a loop over the streams computes is defined.                 *)
LEMMA RunsOn ==
  ASSUME NEW Bound \in Nat, NEW Values, NEW first \in Values,
         NEW steps \in [1..Bound -> [Values -> Values]]
  PROVE  \E q \in [0..Bound -> Values] : IsRun(q, first, steps, Bound)
<1> DEFINE Ok(k) == \E q \in [0..k -> Values] : q[0] = first
  /\ \A n \in 1..k : q[n] = steps[n][q[n - 1]]
           T == {k \in Nat : k <= Bound => Ok(k)}
<1>1. 0 \in T
  <2> DEFINE r == [n \in 0..0 |-> first]
  <2>1. r \in [0..0 -> Values] /\ r[0] = first /\ 1..0 = {}
    OBVIOUS
  <2>2. Ok(0)
    BY <2>1
  <2>3. QED
    BY <2>2
<1>2. ASSUME NEW k \in Nat, k \in T PROVE k + 1 \in T
  <2>1. SUFFICES ASSUME k + 1 <= Bound PROVE Ok(k + 1)
    OBVIOUS
  <2>2. PICK q \in [0..k -> Values] : q[0] = first
          /\ \A n \in 1..k : q[n] = steps[n][q[n - 1]]
    BY <1>2, <2>1
  <2> DEFINE r == [n \in 0..(k + 1) |-> IF n = k + 1 THEN steps[k + 1][q[k]] ELSE q[n]]
  <2>3. k + 1 \in 1..Bound /\ q[k] \in Values
    BY <2>1, <2>2
  <2>4. steps[k + 1] \in [Values -> Values]
    BY <2>3
  <2>5. steps[k + 1][q[k]] \in Values
    BY <2>3, <2>4
  <2>6. r \in [0..(k + 1) -> Values]
    BY <2>2, <2>5
  <2>7. r[0] = first
    BY <2>2
  <2>8. ASSUME NEW n \in 1..(k + 1) PROVE r[n] = steps[n][r[n - 1]]
    <3>1. n - 1 \in 0..k /\ r[n - 1] = q[n - 1]
      OBVIOUS
    <3>2. CASE n = k + 1
      BY <3>1, <3>2
    <3>3. CASE n # k + 1
      <4>1. n \in 1..k /\ r[n] = q[n]
        BY <3>3
      <4>2. QED
        BY <4>1, <3>1, <2>2
    <3>4. QED
      BY <3>2, <3>3
  <2>9. QED
    BY <2>6, <2>7, <2>8
<1>3. Nat \subseteq T
  <2> HIDE DEF T
  <2> QED BY <1>1, <1>2, SetInduction
<1>4. QED
  BY <1>3 DEF IsRun

LEMMA StaysIn ==
  ASSUME NEW Bound \in Nat, NEW Values, NEW q, q[0] \in Values,
         \A n \in 1..Bound : q[n - 1] \in Values => q[n] \in Values
  PROVE  \A n \in 0..Bound : q[n] \in Values
<1> DEFINE T == {n \in Nat : n <= Bound => q[n] \in Values}
<1>1. 0 \in T
  OBVIOUS
<1>2. ASSUME NEW k \in Nat, k \in T PROVE k + 1 \in T
  <2>1. SUFFICES ASSUME k + 1 <= Bound PROVE q[k + 1] \in Values
    OBVIOUS
  <2>2. k + 1 \in 1..Bound /\ (k + 1) - 1 = k /\ q[k] \in Values
    BY <1>2, <2>1
  <2>3. QED
    BY <2>2
<1>3. Nat \subseteq T
  <2> HIDE DEF T
  <2> QED BY <1>1, <1>2, SetInduction
<1>4. QED
  BY <1>3

(* The types of what the page knows of users and streams.                  *)
Summaries == SUBSET ({"camera"} \cup Kinds)
Stream == [open : BOOLEAN, owner : Members, localId : 0..MaxOffers,
           stream : BOOLEAN, tracks : [Kinds -> U!TrackStates],
           ice : U!IceStates, orphan : BOOLEAN]
Presence == [snap : {U!Unset} \cup Summaries, transient : BOOLEAN,
             waits : {"no", "recent", "long"}, status : {"online", "poor"},
             audio : BOOLEAN]
Health == [last : BOOLEAN, since : {"no", "fresh", "over"},
           timer : 0..MaxOffers]
Presences == UNION {[Y -> Presence] : Y \in SUBSET Members}
Healths == UNION {[Y -> Health] : Y \in SUBSET U!Offers}

PageState == [users : SUBSET Members, streamsOf : [Members -> Summaries],
         down : [U!Offers -> Stream], presence : Presences,
         rows : SUBSET Members, recentlyDeleted : SUBSET Members,
         tiles : SUBSET U!Offers,
         shown : [Members -> {"none", "tile", "placeholder"}],
         health : Healths, due : BOOLEAN]

(* The offers that were used come first, and a stream that replaces        *)
(* another has its local id and its owner.                                 *)
Ids(p) ==
    /\ \A i \in U!Offers : p.down[i].localId \in 0..i
    /\ \A i, j \in U!Offers :
         i < j /\ p.down[j].localId # 0 => p.down[i].localId # 0
    /\ \A i \in U!Offers : p.down[i].open => p.down[i].localId # 0
    /\ \A i, j \in U!Offers :
         p.down[i].open /\ p.down[j].open /\ i # j =>
           /\ p.down[i].localId # p.down[j].localId
           /\ p.down[i].owner # p.down[j].owner
    /\ \A i, j \in U!Offers :
         p.down[i].localId # 0 /\ p.down[i].localId = p.down[j].localId =>
           p.down[i].owner = p.down[j].owner

(* A timer is that of a stream with the local id it is kept under, and a   *)
(* stream that was just disconnected has one.                              *)
TimerOf(p) ==
    \A l \in DOMAIN p.health :
      p.health[l].timer # 0 => p.down[p.health[l].timer].localId = l
TimerSet(p, l) ==
    l \in DOMAIN p.health =>
      \A j \in U!Offers :
        /\ p.down[j].open /\ p.down[j].localId = l
        /\ p.down[j].ice = "disconnected" /\ p.health[l].since = "fresh"
        => p.health[l].timer # 0
TimersOk(p) == TimerOf(p) /\ \A l \in U!Offers : TimerSet(p, l)

Sound(p) == p \in PageState /\ Ids(p) /\ TimersOk(p)

(* Every tile is that of an open stream.                                   *)
TilesOpen(p) == \A l \in p.tiles : U!OpenAs(p, l) # {}

(* What the row of a user in the roster shows is what the streams say now. *)
RowIsCurrent(p, u) ==
    /\ u \in DOMAIN p.presence
    /\ p.presence[u].status = U!getParticipantConnectionStatus(p, u)
    /\ p.presence[u].audio = U!participantHasAudio(p, u, p.presence[u].snap)
    /\ ~p.presence[u].transient

(* No row for a user who is not in the roster, and nothing known of them.  *)
RowThere(p, u) ==
    u \notin p.users => u \notin p.rows /\ U!PresenceOf(p, u).snap = U!Unset

RowOk(p, u) ==
    RowThere(p, u) /\ (u \in p.users => u \in p.rows /\ RowIsCurrent(p, u))

(* A stream of a user that was announced has its tile as soon as it has    *)
(* video, unless the user has left in the meantime; nobody in the roster   *)
(* counts as having left.                                                  *)
TileOk(p, u) ==
    /\ \A i \in U!getUserStreams(p, u) :
         ~p.down[i].orphan =>
           /\ u \notin p.recentlyDeleted
           /\ U!hasVideoTrack(p, i) => p.down[i].localId \in p.tiles
    /\ u \in p.users => u \notin p.recentlyDeleted

(* When no frame is due, the layout shows the tile of a user who has       *)
(* video, and nothing for one who has just left.                           *)
ShownOk(p, u) ==
    ~p.due =>
      /\ u \in p.users
         /\ (\E i \in U!getUserStreams(p, u) :
               U!hasVideoTrack(p, i) /\ ~p.down[i].orphan)
           => p.shown[u] = "tile"
      /\ u \in p.recentlyDeleted => p.shown[u] = "none"

(* What a step on one user leaves alone.                                   *)
SameStreams(p, q) ==
    /\ q.users = p.users
    /\ q.streamsOf = p.streamsOf
    /\ q.down = p.down

SameView(p, q) ==
    /\ q.recentlyDeleted = p.recentlyDeleted
    /\ q.tiles = p.tiles
    /\ q.shown = p.shown
    /\ q.due = p.due

SameHealth(p, q) ==
    \A j \in U!Offers : p.down[j].open =>
      U!getStreamConnectionHealth(q, j) = U!getStreamConnectionHealth(p, j)

(* From p to q, only what concerns one user may have changed.              *)
OnlyOf(p, q, u) ==
    /\ p.due => q.due
    /\ \A v \in Members \ {u} :
         /\ v \in q.users <=> v \in p.users
         /\ q.streamsOf[v] = p.streamsOf[v]
         /\ v \in q.recentlyDeleted <=> v \in p.recentlyDeleted
         /\ v \in DOMAIN q.presence <=> v \in DOMAIN p.presence
         /\ U!PresenceOf(q, v) = U!PresenceOf(p, v)
         /\ v \in q.rows <=> v \in p.rows
         /\ q.shown[v] = p.shown[v]
         /\ U!getUserStreams(q, v) = U!getUserStreams(p, v)
    /\ \A v \in Members \ {u} : \A j \in U!getUserStreams(p, v) :
         /\ q.down[j] = p.down[j]
         /\ U!getStreamConnectionHealth(q, j) = U!getStreamConnectionHealth(p, j)
         /\ p.down[j].localId \in p.tiles => p.down[j].localId \in q.tiles

(* The user has been looked at again.                                      *)
LookedAt(p, q, u) ==
    /\ u \in p.users => u \in q.rows /\ RowIsCurrent(q, u)
    /\ u \notin p.users /\ U!PresenceOf(p, u).snap = U!Unset =>
         (u \in q.rows <=> u \in p.rows) /\ U!PresenceOf(q, u).snap = U!Unset

Redrawn(p, q, u) ==
    /\ Sound(q)
    /\ SameStreams(p, q)
    /\ OnlyOf(p, q, u)
    /\ LookedAt(p, q, u)

LEMMA OnlyOfTrans ==
  ASSUME NEW p, NEW q, NEW r, NEW u, OnlyOf(p, q, u), OnlyOf(q, r, u)
  PROVE  OnlyOf(p, r, u)
<1>1. p.due => r.due
  BY DEF OnlyOf
<1>2. ASSUME NEW v \in Members \ {u}
      PROVE  /\ v \in r.users <=> v \in p.users
             /\ r.streamsOf[v] = p.streamsOf[v]
             /\ v \in r.recentlyDeleted <=> v \in p.recentlyDeleted
             /\ v \in DOMAIN r.presence <=> v \in DOMAIN p.presence
             /\ U!PresenceOf(r, v) = U!PresenceOf(p, v)
             /\ v \in r.rows <=> v \in p.rows
             /\ r.shown[v] = p.shown[v]
             /\ U!getUserStreams(r, v) = U!getUserStreams(p, v)
  BY <1>2 DEF OnlyOf
<1>3. ASSUME NEW v \in Members \ {u}, NEW j \in U!getUserStreams(p, v)
      PROVE  /\ r.down[j] = p.down[j]
             /\ U!getStreamConnectionHealth(r, j) = U!getStreamConnectionHealth(p, j)
             /\ p.down[j].localId \in p.tiles => p.down[j].localId \in r.tiles
  <2>1. j \in U!getUserStreams(q, v)
    BY <1>3 DEF OnlyOf
  <2>2. /\ q.down[j] = p.down[j]
        /\ U!getStreamConnectionHealth(q, j) = U!getStreamConnectionHealth(p, j)
        /\ p.down[j].localId \in p.tiles => p.down[j].localId \in q.tiles
    BY <1>3 DEF OnlyOf
  <2>3. /\ r.down[j] = q.down[j]
        /\ U!getStreamConnectionHealth(r, j) = U!getStreamConnectionHealth(q, j)
        /\ q.down[j].localId \in q.tiles => q.down[j].localId \in r.tiles
    BY <1>3, <2>1 DEF OnlyOf
  <2>4. QED
    BY <2>2, <2>3
<1>4. QED
  BY <1>1, <1>2, <1>3 DEF OnlyOf

(* What holds of the other users goes on holding.                          *)
LEMMA OthersStay ==
  ASSUME NEW p, NEW q, NEW u, OnlyOf(p, q, u), NEW v \in Members \ {u}
  PROVE  /\ RowOk(p, v) => RowOk(q, v)
         /\ TileOk(p, v) => TileOk(q, v)
         /\ ShownOk(p, v) => ShownOk(q, v)
<1>1. /\ v \in q.users <=> v \in p.users
      /\ q.streamsOf[v] = p.streamsOf[v]
      /\ v \in q.recentlyDeleted <=> v \in p.recentlyDeleted
      /\ v \in DOMAIN q.presence <=> v \in DOMAIN p.presence
      /\ U!PresenceOf(q, v) = U!PresenceOf(p, v)
      /\ v \in q.rows <=> v \in p.rows
      /\ q.shown[v] = p.shown[v]
      /\ U!getUserStreams(q, v) = U!getUserStreams(p, v)
      /\ p.due => q.due
  BY DEF OnlyOf
<1>2. ASSUME NEW j \in U!getUserStreams(p, v)
      PROVE  /\ q.down[j] = p.down[j]
             /\ U!getStreamConnectionHealth(q, j) = U!getStreamConnectionHealth(p, j)
             /\ p.down[j].localId \in p.tiles => p.down[j].localId \in q.tiles
             /\ U!hasVideoTrack(q, j) <=> U!hasVideoTrack(p, j)
             /\ U!Present(q, j) = U!Present(p, j)
  BY <1>2 DEF OnlyOf, U!hasVideoTrack, U!Live, U!Present
<1>3. v \in DOMAIN p.presence => q.presence[v] = p.presence[v]
  BY <1>1 DEF U!PresenceOf
<1>4. U!getParticipantConnectionStatus(q, v) = U!getParticipantConnectionStatus(p, v)
  <2>1. {U!getStreamConnectionHealth(q, j) : j \in U!getUserStreams(q, v)}
          = {U!getStreamConnectionHealth(p, j) : j \in U!getUserStreams(p, v)}
    BY <1>1, <1>2
  <2>2. QED
    BY <2>1 DEF U!getParticipantConnectionStatus
<1>5. ASSUME NEW y
      PROVE  U!participantHasAudio(q, v, y) <=> U!participantHasAudio(p, v, y)
  BY <1>1, <1>2 DEF U!participantHasAudio
<1>6. RowIsCurrent(p, v) => RowIsCurrent(q, v)
  <2>1. SUFFICES ASSUME RowIsCurrent(p, v) PROVE RowIsCurrent(q, v)
    OBVIOUS
  <2>2. /\ v \in DOMAIN q.presence /\ q.presence[v] = p.presence[v]
        /\ q.presence[v].status = U!getParticipantConnectionStatus(q, v)
        /\ ~q.presence[v].transient
    BY <2>1, <1>1, <1>3, <1>4 DEF RowIsCurrent
  <2>3. U!participantHasAudio(q, v, p.presence[v].snap)
          = U!participantHasAudio(p, v, p.presence[v].snap)
    BY <1>5 DEF U!participantHasAudio
  <2>4. QED
    BY <2>1, <2>2, <2>3 DEF RowIsCurrent
<1>7. RowOk(p, v) => RowOk(q, v)
  BY <1>1, <1>6 DEF RowOk, RowThere
<1>8. TileOk(p, v) => TileOk(q, v)
  BY <1>1, <1>2 DEF TileOk
<1>9. ShownOk(p, v) => ShownOk(q, v)
  BY <1>1, <1>2 DEF ShownOk
<1>10. QED
  BY <1>7, <1>8, <1>9

LEMMA PutTyped ==
  ASSUME NEW X, NEW Y, NEW e \in UNION {[Z -> Y] : Z \in SUBSET X},
         NEW x \in X, NEW y \in Y
  PROVE  U!Put(e, x, y) \in UNION {[Z -> Y] : Z \in SUBSET X}
<1>1. DOMAIN e \in SUBSET X /\ e \in [DOMAIN e -> Y]
  OBVIOUS
<1>2. U!Put(e, x, y) \in [DOMAIN e \cup {x} -> Y]
  BY <1>1 DEF U!Put
<1>3. QED
  BY <1>1, <1>2

LEMMA WithoutTyped ==
  ASSUME NEW X, NEW Y, NEW e \in UNION {[Z -> Y] : Z \in SUBSET X}, NEW x
  PROVE  U!Without(e, x) \in UNION {[Z -> Y] : Z \in SUBSET X}
<1>1. DOMAIN e \in SUBSET X /\ e \in [DOMAIN e -> Y]
  OBVIOUS
<1>2. U!Without(e, x) \in [DOMAIN e \ {x} -> Y]
  BY <1>1 DEF U!Without
<1>3. QED
  BY <1>1, <1>2

LEMMA PageFields ==
  ASSUME NEW p \in PageState
  PROVE  /\ p.users \subseteq Members
         /\ p.streamsOf \in [Members -> Summaries]
         /\ p.down \in [U!Offers -> Stream]
         /\ DOMAIN p.presence \subseteq Members
         /\ \A u \in DOMAIN p.presence : p.presence[u] \in Presence
         /\ p.rows \subseteq Members
         /\ p.recentlyDeleted \subseteq Members
         /\ p.tiles \subseteq U!Offers
         /\ p.shown \in [Members -> {"none", "tile", "placeholder"}]
         /\ DOMAIN p.health \subseteq U!Offers
         /\ \A l \in DOMAIN p.health : p.health[l] \in Health
         /\ p.due \in BOOLEAN
<1>1. DOMAIN p.presence \subseteq Members
        /\ p.presence \in [DOMAIN p.presence -> Presence]
  BY DEF PageState, Presences
<1>2. DOMAIN p.health \subseteq U!Offers /\ p.health \in [DOMAIN p.health -> Health]
  BY DEF PageState, Healths
<1>3. QED
  BY <1>1, <1>2 DEF PageState

LEMMA HealthTyped ==
  ASSUME U!ParticipantsAssumption, NEW p \in PageState, NEW i
  PROVE  U!HealthOf(p, i) \in Health
  BY PageFields DEF U!HealthOf, U!NoHealth, Health, U!ParticipantsAssumption

(* The record of the health after a stream was asked for.                  *)
After(p, i) ==
    LET h == U!HealthOf(p, i)
        state == U!iceConnectionState(p, i)
    IN  CASE state = "connected" ->
               [last |-> TRUE, since |-> "no", timer |-> 0]
          [] state = "failed" -> [h EXCEPT !.timer = 0]
          [] state = "disconnected" ->
               IF h.since = "over" THEN [h EXCEPT !.timer = 0]
               ELSE [h EXCEPT !.since = "fresh",
                              !.timer = IF @ = 0 THEN i ELSE @]
          [] OTHER -> [h EXCEPT !.since = "no", !.timer = 0]

(* Asking for the health of a stream writes down what was found            *)
(* (getStreamConnectionHealth and its timer), and says the same when asked *)
(* again.                                                                  *)
LEMMA AskedIs ==
  ASSUME NEW p, NEW i
  PROVE  U!Asked(p, i)
           = [p EXCEPT !.health = U!Put(p.health, p.down[i].localId, After(p, i))]
  BY DEF U!Asked, After

LEMMA AfterDoes ==
  ASSUME U!ParticipantsAssumption, NEW p \in PageState, NEW i \in U!Offers
  PROVE  /\ After(p, i) \in Health
         /\ U!iceConnectionState(p, i) = "connected"
              => After(p, i).since = "no" /\ After(p, i).timer = 0
         /\ U!iceConnectionState(p, i) = "disconnected" =>
              /\ After(p, i).since = "over" <=> U!HealthOf(p, i).since = "over"
              /\ After(p, i).since = "fresh" => After(p, i).timer # 0
         /\ U!iceConnectionState(p, i) # "connected"
              => After(p, i).last = U!HealthOf(p, i).last
         /\ After(p, i).timer \in {0, i, U!HealthOf(p, i).timer}
         /\ U!iceConnectionState(p, i) = "closed" => After(p, i).since = "no"
<1> DEFINE h == U!HealthOf(p, i)
           s == U!iceConnectionState(p, i)
<1>1. h \in Health
  BY HealthTyped
<1>2. i \in 0..MaxOffers /\ i # 0 /\ 0 \in 0..MaxOffers
  BY DEF U!Offers, U!ParticipantsAssumption
<1>3. CASE s = "connected"
  BY <1>1, <1>2, <1>3 DEF After, Health
<1>4. CASE s = "failed"
  BY <1>1, <1>2, <1>4 DEF After, Health
<1>5. CASE s = "disconnected"
  BY <1>1, <1>2, <1>5 DEF After, Health
<1>6. CASE s \notin {"connected", "failed", "disconnected"}
  BY <1>1, <1>2, <1>6 DEF After, Health
<1>7. QED
  BY <1>3, <1>4, <1>5, <1>6

(* What asking for the health of a stream leaves alone.                    *)
OnlyHealth(p, q) ==
    /\ q \in PageState
    /\ SameStreams(p, q)
    /\ SameView(p, q)
    /\ q.presence = p.presence
    /\ q.rows = p.rows

LEMMA AskedDoes ==
  ASSUME U!ParticipantsAssumption, NEW p \in PageState, NEW i \in U!Offers,
         p.down[i].localId # 0
  PROVE  /\ OnlyHealth(p, U!Asked(p, i))
         /\ U!getStreamConnectionHealth(U!Asked(p, i), i)
              = U!getStreamConnectionHealth(p, i)
         /\ \A j \in U!Offers : p.down[j].localId # p.down[i].localId =>
              U!getStreamConnectionHealth(U!Asked(p, i), j)
                = U!getStreamConnectionHealth(p, j)
         /\ TimerOf(p) => TimerOf(U!Asked(p, i))
         /\ \A l \in U!Offers : l # p.down[i].localId /\ TimerSet(p, l) =>
              TimerSet(U!Asked(p, i), l)
         /\ Ids(p) =>
              TimerSet(U!Asked(p, i), p.down[i].localId)
<1> DEFINE l == p.down[i].localId
           x == After(p, i)
           q == U!Asked(p, i)
           s == U!iceConnectionState(p, i)
<1>1. l \in U!Offers /\ p.down[i] \in Stream
  BY PageFields DEF Stream, U!Offers, U!ParticipantsAssumption
<1>2. q = [p EXCEPT !.health = U!Put(p.health, l, x)] /\ x \in Health
  BY AskedIs, AfterDoes
<1>3. U!Put(p.health, l, x) \in Healths
  <2>1. p.health \in UNION {[Y -> Health] : Y \in SUBSET U!Offers}
    BY DEF PageState, Healths
  <2> HIDE DEF l, x
  <2>2. QED
    BY <1>1, <1>2, <2>1, PutTyped DEF Healths
<1>4. OnlyHealth(p, q) /\ q.health = U!Put(p.health, l, x)
  BY <1>2, <1>3 DEF OnlyHealth, PageState, SameStreams, SameView
<1>5. /\ DOMAIN q.health = DOMAIN p.health \cup {l}
      /\ q.health[l] = x
      /\ \A z \in DOMAIN p.health \ {l} : q.health[z] = p.health[z]
  <2> HIDE DEF l, x, q
  <2> DEFINE y == U!Put(p.health, l, x)
  <2>1. /\ DOMAIN y = DOMAIN p.health \cup {l}
        /\ y[l] = x
        /\ \A z \in DOMAIN p.health \ {l} : y[z] = p.health[z]
    BY DEF U!Put
  <2>2. q.health = y
    BY <1>4
  <2> HIDE DEF y
  <2>3. QED
    BY <2>1, <2>2
<1>6. \A j \in U!Offers : U!iceConnectionState(q, j) = U!iceConnectionState(p, j)
        /\ q.down[j] = p.down[j]
  BY <1>4 DEF OnlyHealth, SameStreams, U!iceConnectionState
<1>7. U!HealthOf(q, i) = x
  BY <1>5, <1>6 DEF U!HealthOf
<1>8. U!getStreamConnectionHealth(q, i) = U!getStreamConnectionHealth(p, i)
  <2>1. /\ s = "connected" => x.since = "no"
        /\ s = "disconnected" => (x.since = "over" <=> U!HealthOf(p, i).since = "over")
        /\ s # "connected" => x.last = U!HealthOf(p, i).last
    BY AfterDoes
  <2>2. U!iceConnectionState(q, i) = s
    BY <1>6
  <2> HIDE DEF s, x, q
  <2>3. QED
    BY <2>1, <2>2, <1>7 DEF U!getStreamConnectionHealth, s
<1>9. ASSUME NEW j \in U!Offers, p.down[j].localId # l
      PROVE  U!getStreamConnectionHealth(q, j) = U!getStreamConnectionHealth(p, j)
  <2>1. U!HealthOf(q, j) = U!HealthOf(p, j)
    BY <1>5, <1>6, <1>9 DEF U!HealthOf
  <2>2. U!iceConnectionState(q, j) = U!iceConnectionState(p, j)
    BY <1>6
  <2>3. QED
    BY <2>1, <2>2 DEF U!getStreamConnectionHealth
<1>10. TimerOf(p) => TimerOf(q)
  <2>1. SUFFICES ASSUME TimerOf(p), NEW z \in DOMAIN q.health, q.health[z].timer # 0
                 PROVE  q.down[q.health[z].timer].localId = z
    BY DEF TimerOf
  <2>2. q.down = p.down
    BY <1>4 DEF OnlyHealth, SameStreams
  <2>3. CASE z # l
    BY <2>1, <2>2, <2>3, <1>5 DEF TimerOf
  <2>4. CASE z = l
    <3>1. x.timer \in {0, i, U!HealthOf(p, i).timer}
      BY AfterDoes
    <3>2. U!HealthOf(p, i).timer # 0 => p.down[U!HealthOf(p, i).timer].localId = l
      BY <2>1 DEF U!HealthOf, U!NoHealth, TimerOf
    <3>3. QED
      BY <3>1, <3>2, <2>1, <2>2, <2>4, <1>5
  <2>5. QED
    BY <2>3, <2>4
<1>11. ASSUME NEW z \in U!Offers, z # l, TimerSet(p, z)
       PROVE  TimerSet(q, z)
  BY <1>5, <1>6, <1>11 DEF TimerSet
<1>12. ASSUME Ids(p) PROVE TimerSet(q, l)
  <2>1. SUFFICES ASSUME NEW j \in U!Offers, q.down[j].open, q.down[j].localId = l,
                        q.down[j].ice = "disconnected", q.health[l].since = "fresh"
                 PROVE  q.health[l].timer # 0
    BY DEF TimerSet
  <2>2. p.down[j].open /\ p.down[j].localId = l /\ p.down[j].ice = "disconnected"
    BY <2>1, <1>6
  <2>3. CASE p.down[i].open
    <3>1. j = i
      BY <2>2, <2>3, <1>12 DEF Ids
    <3>2. s = "disconnected"
      BY <3>1, <2>2 DEF U!iceConnectionState
    <3>3. QED
      BY <3>2, <2>1, <1>5, AfterDoes
  <2>4. CASE ~p.down[i].open
    <3>1. s = "closed"
      BY <2>4 DEF U!iceConnectionState
    <3>2. x.since = "no"
      BY <3>1, AfterDoes
    <3>3. QED
      BY <3>2, <2>1, <1>5
  <2>5. QED
    BY <2>3, <2>4
<1>13. QED
  BY <1>4, <1>8, <1>9, <1>10, <1>11, <1>12

(* From p to q, only the records of health have changed, and not what is   *)
(* said of any stream: so it is while the streams of a user are asked for, *)
(* one after the other.                                                    *)
StillAsked(p, q) ==
    /\ OnlyHealth(p, q)
    /\ SameHealth(p, q)
    /\ TimersOk(p) => TimersOk(q)

LEMMA AskedStill ==
  ASSUME U!ParticipantsAssumption, NEW p \in PageState, Ids(p), NEW i \in U!Offers,
         p.down[i].open
  PROVE  StillAsked(p, U!Asked(p, i))
<1>1. p.down[i].localId # 0
  BY DEF Ids
<1>2. ASSUME NEW j \in U!Offers, p.down[j].open
      PROVE  U!getStreamConnectionHealth(U!Asked(p, i), j)
               = U!getStreamConnectionHealth(p, j)
  <2>1. CASE j = i
    BY <2>1, <1>1, AskedDoes
  <2>2. CASE j # i
    <3>1. p.down[j].localId # p.down[i].localId
      BY <1>2, <2>2 DEF Ids
    <3>2. QED
      BY <3>1, <1>1, AskedDoes
  <2>3. QED
    BY <2>1, <2>2
<1>3. TimersOk(p) => TimersOk(U!Asked(p, i))
  <2>1. TimerSet(U!Asked(p, i), p.down[i].localId)
    BY <1>1, AskedDoes
  <2>2. \A l \in U!Offers : l # p.down[i].localId /\ TimerSet(p, l)
          => TimerSet(U!Asked(p, i), l)
    BY <1>1, AskedDoes
  <2>3. TimerOf(p) => TimerOf(U!Asked(p, i))
    BY <1>1, AskedDoes
  <2>4. QED
    BY <2>1, <2>2, <2>3 DEF TimersOk
<1>4. OnlyHealth(p, U!Asked(p, i))
  BY <1>1, AskedDoes
<1>5. QED
  BY <1>2, <1>3, <1>4 DEF StillAsked, SameHealth

LEMMA StillTrans ==
  ASSUME NEW p, NEW q, NEW r, StillAsked(p, q), StillAsked(q, r)
  PROVE  StillAsked(p, r)
<1>1. OnlyHealth(p, r) /\ q.down = p.down
  BY DEF StillAsked, OnlyHealth, SameStreams, SameView
<1>2. SameHealth(p, r)
  BY <1>1 DEF StillAsked, SameHealth
<1>3. QED
  BY <1>1, <1>2 DEF StillAsked

LEMMA StillSelf ==
  ASSUME NEW p \in PageState PROVE StillAsked(p, p)
  BY DEF StillAsked, OnlyHealth, SameStreams, SameView, SameHealth

(* Asking for all the streams of a user, one after the other: the function *)
(* that does it exists, and every step of it leaves the page as it was.    *)
LEMMA AskedAllStill ==
  ASSUME U!ParticipantsAssumption, NEW p \in PageState, Ids(p), NEW u \in Members
  PROVE  StillAsked(p, U!AskedAll(p, u))
<1> DEFINE Values == {x \in PageState : StillAsked(p, x)}
           q[n \in 0..MaxOffers] ==
             IF n = 0 THEN p
             ELSE IF n \in U!getUserStreams(p, u) THEN U!Asked(q[n - 1], n)
             ELSE q[n - 1]
           steps == [n \in 1..MaxOffers |-> [x \in Values |->
                       IF n \in U!getUserStreams(p, u) THEN U!Asked(x, n) ELSE x]]
<1>1. U!AskedAll(p, u) = q[MaxOffers]
  BY DEF U!AskedAll
<1>2. ASSUME NEW n \in 1..MaxOffers, NEW x \in Values, n \in U!getUserStreams(p, u)
      PROVE  U!Asked(x, n) \in Values
  <2>1. x \in PageState /\ StillAsked(p, x) /\ n \in U!Offers /\ p.down[n].open
          /\ x.down = p.down
    BY <1>2 DEF U!getUserStreams, StillAsked, OnlyHealth, SameStreams
  <2>2. Ids(x)
    BY <2>1 DEF Ids
  <2>3. StillAsked(x, U!Asked(x, n))
    BY <2>1, <2>2, AskedStill
  <2>4. StillAsked(p, U!Asked(x, n))
    BY <2>1, <2>3, StillTrans
  <2>5. QED
    BY <2>4 DEF StillAsked, OnlyHealth
<1>3. p \in Values
  BY StillSelf
<1>4. steps \in [1..MaxOffers -> [Values -> Values]]
  <2> HIDE DEF Values
  <2>1. QED
    BY <1>2
<1>5. \E g \in [0..MaxOffers -> Values] : IsRun(g, p, steps, MaxOffers)
  <2> HIDE DEF steps, Values, q
  <2>1. MaxOffers \in Nat
    BY DEF U!ParticipantsAssumption
  <2>2. QED
    BY <1>3, <1>4, <2>1, RunsOn
<1>6. PICK g \in [0..MaxOffers -> Values] :
         g[0] = p /\ \A n \in 1..MaxOffers : g[n] = steps[n][g[n - 1]]
  BY <1>5 DEF IsRun
<1>7. g = [n \in 0..MaxOffers |->
             IF n = 0 THEN p
             ELSE IF n \in U!getUserStreams(p, u) THEN U!Asked(g[n - 1], n)
             ELSE g[n - 1]]
  <2> HIDE DEF Values
  <2>1. ASSUME NEW n \in 0..MaxOffers, n # 0
        PROVE  g[n] = IF n \in U!getUserStreams(p, u) THEN U!Asked(g[n - 1], n)
                                                      ELSE g[n - 1]
    <3>1. n \in 1..MaxOffers /\ g[n - 1] \in Values
      BY <2>1 DEF U!ParticipantsAssumption
    <3>2. QED
      BY <3>1, <1>6
  <2>2. QED
    BY <2>1, <1>6
<1>8. q = [n \in 0..MaxOffers |->
             IF n = 0 THEN p
             ELSE IF n \in U!getUserStreams(p, u) THEN U!Asked(q[n - 1], n)
             ELSE q[n - 1]]
  BY <1>7
<1>9. \A n \in 0..MaxOffers : q[n] \in Values
  <2> HIDE DEF q, Values
  <2>1. 0 \in 0..MaxOffers /\ MaxOffers \in Nat
    BY DEF U!ParticipantsAssumption
  <2>2. q[0] \in Values
    BY <1>3, <1>8, <2>1
  <2>3. ASSUME NEW n \in 1..MaxOffers, q[n - 1] \in Values PROVE q[n] \in Values
    <3>1. q[n] = IF n \in U!getUserStreams(p, u) THEN U!Asked(q[n - 1], n) ELSE q[n - 1]
      BY <1>8, <2>1
    <3>2. QED
      BY <3>1, <2>3, <1>2
  <2>4. QED
    BY <2>1, <2>2, <2>3, StaysIn
<1>10. q[MaxOffers] \in Values
  <2> HIDE DEF q, Values
  <2>1. QED
    BY <1>9 DEF U!ParticipantsAssumption
<1>11. QED
  BY <1>1, <1>10

LEMMA PresenceTyped ==
  ASSUME NEW p \in PageState, NEW u
  PROVE  U!PresenceOf(p, u) \in Presence
  BY PageFields DEF U!PresenceOf, U!NewPresence, Presence

LEMMA UnsetIsNone ==
  ASSUME U!ParticipantsAssumption, NEW x \in Summaries
  PROVE  x # U!Unset
  BY DEF U!ParticipantsAssumption, Summaries, U!Unset

(* What a page says of the streams of a user is said of its roster, its    *)
(* streams and their health.                                               *)
LEMMA SaysTheSame ==
  ASSUME NEW p, NEW q, SameStreams(p, q), SameHealth(p, q), NEW u, NEW y
  PROVE  /\ U!getParticipantConnectionStatus(q, u)
              = U!getParticipantConnectionStatus(p, u)
         /\ U!participantHasAudio(q, u, y) <=> U!participantHasAudio(p, u, y)
         /\ U!getUserStreams(q, u) = U!getUserStreams(p, u)
<1>1. U!getUserStreams(q, u) = U!getUserStreams(p, u)
  BY DEF SameStreams, U!getUserStreams
<1>2. {U!getStreamConnectionHealth(q, j) : j \in U!getUserStreams(q, u)}
        = {U!getStreamConnectionHealth(p, j) : j \in U!getUserStreams(p, u)}
  BY <1>1 DEF SameHealth, U!getUserStreams
<1>3. U!getParticipantConnectionStatus(q, u) = U!getParticipantConnectionStatus(p, u)
  BY <1>2 DEF U!getParticipantConnectionStatus
<1>4. U!participantHasAudio(q, u, y) <=> U!participantHasAudio(p, u, y)
  BY <1>1 DEF U!participantHasAudio, SameStreams, U!Present
<1>5. QED
  BY <1>1, <1>3, <1>4

LEMMA StatusTyped ==
  ASSUME NEW p, NEW u, NEW y
  PROVE  /\ U!getParticipantConnectionStatus(p, u) \in {"online", "poor"}
         /\ U!participantHasAudio(p, u, y) \in BOOLEAN
  BY DEF U!getParticipantConnectionStatus, U!participantHasAudio

(* What a refresh records of a user.                                       *)
NowOf(p, u) ==
    LET known == u \in p.users
        old == U!PresenceOf(p, u)
        snap == IF known THEN p.streamsOf[u] ELSE old.snap
    IN  [snap |-> snap,
         transient |-> old.transient /\ ~known,
         waits |-> IF known THEN "no" ELSE old.waits,
         status |-> U!getParticipantConnectionStatus(p, u),
         audio |-> U!participantHasAudio(p, u, snap)]

LEMMA RefreshIs ==
  ASSUME NEW p, NEW u
  PROVE  U!refreshParticipantPresence(p, u) =
           IF NowOf(p, u).snap = U!Unset
           THEN [p EXCEPT !.presence = U!Put(p.presence, u, U!PresenceOf(p, u))]
           ELSE U!renderParticipantRow(
                  [U!AskedAll(p, u) EXCEPT !.presence =
                     U!Put(U!AskedAll(p, u).presence, u, NowOf(p, u))], u)
  BY DEF U!refreshParticipantPresence, NowOf

LEMMA NowTyped ==
  ASSUME NEW p \in PageState, NEW u \in Members
  PROVE  NowOf(p, u) \in Presence
<1>1. U!PresenceOf(p, u) \in Presence
  BY PresenceTyped
<1>2. p.streamsOf[u] \in Summaries
  BY PageFields
<1>3. QED
  BY <1>1, <1>2, StatusTyped DEF NowOf, Presence

(* What a refresh changes of the page: the presence and the row of one     *)
(* user, and records of health that say the same.                          *)
Refreshed(p, q, u) ==
    /\ q \in PageState
    /\ SameStreams(p, q)
    /\ SameView(p, q)
    /\ SameHealth(p, q)
    /\ TimersOk(p) => TimersOk(q)
    /\ \A v \in Members \ {u} :
         /\ v \in DOMAIN q.presence <=> v \in DOMAIN p.presence
         /\ U!PresenceOf(q, v) = U!PresenceOf(p, v)
         /\ v \in q.rows <=> v \in p.rows

WithPresence(p, u, x) == [p EXCEPT !.presence = U!Put(p.presence, u, x)]

PresencePut(p, q, u, x) ==
    /\ q \in PageState
    /\ q.users = p.users /\ q.streamsOf = p.streamsOf /\ q.down = p.down
    /\ q.recentlyDeleted = p.recentlyDeleted /\ q.tiles = p.tiles
    /\ q.shown = p.shown /\ q.due = p.due /\ q.rows = p.rows
    /\ q.health = p.health
    /\ u \in DOMAIN q.presence /\ q.presence[u] = x /\ U!PresenceOf(q, u) = x
    /\ \A v \in Members \ {u} :
         /\ v \in DOMAIN q.presence <=> v \in DOMAIN p.presence
         /\ U!PresenceOf(q, v) = U!PresenceOf(p, v)

LEMMA PutPresence ==
  ASSUME NEW p \in PageState, NEW u \in Members, NEW x \in Presence
  PROVE  PresencePut(p, WithPresence(p, u, x), u, x)
<1> DEFINE q == WithPresence(p, u, x)
           e == U!Put(p.presence, u, x)
<1>1. e \in Presences
  <2>1. p.presence \in UNION {[Y -> Presence] : Y \in SUBSET Members}
    BY DEF PageState, Presences
  <2>2. QED
    BY <2>1, PutTyped DEF Presences
<1>2. /\ DOMAIN e = DOMAIN p.presence \cup {u}
      /\ e[u] = x
      /\ \A z \in DOMAIN p.presence \ {u} : e[z] = p.presence[z]
  BY DEF U!Put
<1> HIDE DEF e, q
<1>3. q = [p EXCEPT !.presence = e]
  BY DEF e, q, WithPresence
<1>4. /\ q \in PageState
      /\ q.users = p.users /\ q.streamsOf = p.streamsOf /\ q.down = p.down
      /\ q.recentlyDeleted = p.recentlyDeleted /\ q.tiles = p.tiles
      /\ q.shown = p.shown /\ q.due = p.due /\ q.rows = p.rows
      /\ q.health = p.health
      /\ q.presence = e
  BY <1>1, <1>3 DEF PageState
<1>5. PresencePut(p, q, u, x)
  BY <1>2, <1>4 DEF U!PresenceOf, PresencePut
<1>6. QED
  BY <1>5 DEF q

LEMMA RenderDoes ==
  ASSUME NEW p \in PageState, NEW u \in Members, NEW q, q = U!renderParticipantRow(p, u)
  PROVE  /\ q \in PageState
         /\ q.users = p.users /\ q.streamsOf = p.streamsOf /\ q.down = p.down
         /\ q.recentlyDeleted = p.recentlyDeleted /\ q.tiles = p.tiles
         /\ q.shown = p.shown /\ q.due = p.due /\ q.presence = p.presence
         /\ q.health = p.health
         /\ q.rows = IF u \in p.users \/ U!PresenceOf(p, u).snap # U!Unset
                     THEN p.rows \cup {u} ELSE p.rows
<1>1. CASE u \in p.users \/ U!PresenceOf(p, u).snap # U!Unset
  <2>1. q = [p EXCEPT !.rows = p.rows \cup {u}]
    BY <1>1 DEF U!renderParticipantRow
  <2>2. QED
    BY <1>1, <2>1 DEF PageState
<1>2. CASE ~(u \in p.users \/ U!PresenceOf(p, u).snap # U!Unset)
  BY <1>2 DEF U!renderParticipantRow
<1>3. QED
  BY <1>1, <1>2

LEMMA SameHealthFrom ==
  ASSUME NEW p, NEW q, q.down = p.down, q.health = p.health
  PROVE  SameHealth(p, q) /\ (TimersOk(p) => TimersOk(q))
<1>1. ASSUME NEW j
      PROVE  U!getStreamConnectionHealth(q, j) = U!getStreamConnectionHealth(p, j)
  BY DEF U!getStreamConnectionHealth, U!HealthOf, U!iceConnectionState
<1>2. QED
  BY <1>1 DEF SameHealth, TimersOk, TimerOf, TimerSet

LEMMA SameHealthTrans ==
  ASSUME NEW p, NEW q, NEW r, q.down = p.down, SameHealth(p, q), SameHealth(q, r)
  PROVE  SameHealth(p, r)
  BY DEF SameHealth

(* A user nobody knows of is left alone; of another the row says what is   *)
(* so now.                                                                 *)
LEMMA RefreshDoes ==
  ASSUME U!ParticipantsAssumption, NEW p \in PageState, Ids(p), NEW u \in Members,
         NEW q, q = U!refreshParticipantPresence(p, u)
  PROVE  Refreshed(p, q, u) /\ LookedAt(p, q, u)
<1> DEFINE x == NowOf(p, u)
           y == U!AskedAll(p, u)
<1>1. x \in Presence /\ U!PresenceOf(p, u) \in Presence
  BY NowTyped, PresenceTyped
<1>2. StillAsked(p, y)
  BY AskedAllStill
<1>3. q = IF x.snap = U!Unset
          THEN WithPresence(p, u, U!PresenceOf(p, u))
          ELSE U!renderParticipantRow(WithPresence(y, u, x), u)
  BY RefreshIs DEF WithPresence
<1>4. u \in p.users => x.snap # U!Unset
  <2>1. p.streamsOf[u] \in Summaries
    BY PageFields
  <2>2. QED
    BY <2>1, UnsetIsNone DEF NowOf
<1>5. CASE x.snap = U!Unset
  <2>1. q = WithPresence(p, u, U!PresenceOf(p, u))
    BY <1>3, <1>5
  <2>2. /\ q \in PageState
        /\ q.users = p.users /\ q.streamsOf = p.streamsOf /\ q.down = p.down
        /\ q.recentlyDeleted = p.recentlyDeleted /\ q.tiles = p.tiles
        /\ q.shown = p.shown /\ q.due = p.due /\ q.rows = p.rows
        /\ q.health = p.health
        /\ U!PresenceOf(q, u) = U!PresenceOf(p, u)
        /\ \A v \in Members \ {u} :
             /\ v \in DOMAIN q.presence <=> v \in DOMAIN p.presence
             /\ U!PresenceOf(q, v) = U!PresenceOf(p, v)
    <3>1. PresencePut(p, q, u, U!PresenceOf(p, u))
      BY <2>1, <1>1, PutPresence
    <3>2. QED
      BY <3>1 DEF PresencePut
  <2>3. SameHealth(p, q) /\ (TimersOk(p) => TimersOk(q))
    BY <2>2, SameHealthFrom
  <2>4. Refreshed(p, q, u)
    BY <2>2, <2>3 DEF Refreshed, SameStreams, SameView
  <2>5. u \notin p.users
    BY <1>4, <1>5
  <2>6. QED
    BY <2>2, <2>4, <2>5 DEF LookedAt
<1>6. CASE x.snap # U!Unset
  <2> DEFINE z == WithPresence(y, u, x)
  <2>1. /\ y \in PageState /\ y.users = p.users /\ y.streamsOf = p.streamsOf
        /\ y.down = p.down /\ y.recentlyDeleted = p.recentlyDeleted
        /\ y.tiles = p.tiles /\ y.shown = p.shown /\ y.due = p.due
        /\ y.presence = p.presence /\ y.rows = p.rows
        /\ SameHealth(p, y) /\ (TimersOk(p) => TimersOk(y))
    BY <1>2 DEF StillAsked, OnlyHealth, SameStreams, SameView
  <2> HIDE DEF x, y
  <2>2. /\ z \in PageState
        /\ z.users = y.users /\ z.streamsOf = y.streamsOf /\ z.down = y.down
        /\ z.recentlyDeleted = y.recentlyDeleted /\ z.tiles = y.tiles
        /\ z.shown = y.shown /\ z.due = y.due /\ z.rows = y.rows
        /\ z.health = y.health
        /\ u \in DOMAIN z.presence /\ z.presence[u] = x /\ U!PresenceOf(z, u) = x
        /\ \A v \in Members \ {u} :
             /\ v \in DOMAIN z.presence <=> v \in DOMAIN y.presence
             /\ U!PresenceOf(z, v) = U!PresenceOf(y, v)
    <3>1. PresencePut(y, z, u, x)
      BY <2>1, <1>1, PutPresence
    <3>2. QED
      BY <3>1 DEF PresencePut
  <2> HIDE DEF z
  <2>3. q = U!renderParticipantRow(z, u)
    BY <1>3, <1>6 DEF z
  <2>4. /\ q \in PageState
        /\ q.users = z.users /\ q.streamsOf = z.streamsOf /\ q.down = z.down
        /\ q.recentlyDeleted = z.recentlyDeleted /\ q.tiles = z.tiles
        /\ q.shown = z.shown /\ q.due = z.due /\ q.presence = z.presence
        /\ q.health = z.health
        /\ q.rows = IF u \in z.users \/ U!PresenceOf(z, u).snap # U!Unset
                    THEN z.rows \cup {u} ELSE z.rows
    BY <2>2, <2>3, RenderDoes
  <2>5. q.rows = p.rows \cup {u}
    BY <2>4, <2>2, <2>1, <1>6
  <2>6. SameHealth(y, q) /\ (TimersOk(y) => TimersOk(q))
    BY <2>2, <2>4, SameHealthFrom
  <2>7. SameHealth(p, q)
    BY <2>1, <2>6, SameHealthTrans
  <2>8. SameStreams(p, q) /\ SameView(p, q)
    BY <2>1, <2>2, <2>4 DEF SameStreams, SameView
  <2>9. \A v : U!PresenceOf(q, v) = U!PresenceOf(z, v)
          /\ U!PresenceOf(y, v) = U!PresenceOf(p, v)
    BY <2>1, <2>4 DEF U!PresenceOf
  <2>10. Refreshed(p, q, u)
    BY <2>1, <2>2, <2>4, <2>5, <2>6, <2>7, <2>8, <2>9 DEF Refreshed
  <2>11. u \in p.users => u \in q.rows /\ RowIsCurrent(q, u)
    <3>1. SUFFICES ASSUME u \in p.users PROVE u \in q.rows /\ RowIsCurrent(q, u)
      OBVIOUS
    <3>2. /\ u \in DOMAIN q.presence /\ q.presence[u] = x
      BY <2>2, <2>4
    <3>3. /\ ~x.transient
          /\ x.status = U!getParticipantConnectionStatus(p, u)
          /\ x.audio = U!participantHasAudio(p, u, x.snap)
      BY <3>1 DEF x, NowOf
    <3>4. /\ U!getParticipantConnectionStatus(q, u)
               = U!getParticipantConnectionStatus(p, u)
          /\ U!participantHasAudio(q, u, x.snap) <=> U!participantHasAudio(p, u, x.snap)
      BY <2>7, <2>8, SaysTheSame
    <3>5. U!participantHasAudio(q, u, x.snap) = U!participantHasAudio(p, u, x.snap)
      BY <3>4 DEF U!participantHasAudio
    <3>6. QED
      BY <3>2, <3>3, <3>4, <3>5, <2>5 DEF RowIsCurrent
  <2>12. u \notin p.users => U!PresenceOf(p, u).snap # U!Unset
    BY <1>6 DEF x, NowOf
  <2>13. QED
    BY <2>10, <2>11, <2>12 DEF LookedAt
<1>7. QED
  BY <1>5, <1>6

SameKnown(p, q) ==
    /\ q.presence = p.presence
    /\ q.rows = p.rows
    /\ q.health = p.health

LEMMA IdsSame == ASSUME NEW p, NEW q, q.down = p.down, Ids(p) PROVE Ids(q)
  BY DEF Ids

LEMMA SoundSame ==
  ASSUME NEW p, NEW q \in PageState, SameStreams(p, q), SameKnown(p, q), Sound(p)
  PROVE  /\ Sound(q)
         /\ SameHealth(p, q)
         /\ \A v : U!PresenceOf(q, v) = U!PresenceOf(p, v)
<1>1. q.down = p.down /\ q.health = p.health /\ q.presence = p.presence
  BY DEF SameStreams, SameKnown
<1>2. SameHealth(p, q) /\ TimersOk(q)
  BY <1>1, SameHealthFrom DEF Sound
<1>3. Ids(q)
  BY <1>1, IdsSame DEF Sound
<1>4. QED
  BY <1>1, <1>2, <1>3 DEF Sound, U!PresenceOf

LEMMA CurrentStays ==
  ASSUME NEW p, NEW q, SameStreams(p, q), SameHealth(p, q),
         q.presence = p.presence, NEW u, RowIsCurrent(p, u)
  PROVE  RowIsCurrent(q, u)
<1>1. U!getParticipantConnectionStatus(q, u) = U!getParticipantConnectionStatus(p, u)
  BY SaysTheSame
<1>2. U!participantHasAudio(q, u, q.presence[u].snap)
        <=> U!participantHasAudio(p, u, q.presence[u].snap)
  BY SaysTheSame
<1>3. U!participantHasAudio(q, u, q.presence[u].snap)
        = U!participantHasAudio(p, u, q.presence[u].snap)
  BY <1>2 DEF U!participantHasAudio
<1>4. QED
  BY <1>1, <1>3 DEF RowIsCurrent

(* A change of the view before or after a user is looked at makes no       *)
(* difference.                                                             *)
LEMMA SeenAfter ==
  ASSUME NEW p, NEW q, NEW r, NEW u, SameStreams(p, q), q.presence = p.presence,
         q.rows = p.rows, LookedAt(q, r, u)
  PROVE  LookedAt(p, r, u)
  BY DEF LookedAt, SameStreams, U!PresenceOf

LEMMA SeenBefore ==
  ASSUME NEW p, NEW q, NEW r, NEW u, SameStreams(q, r), SameKnown(q, r),
         SameHealth(q, r), LookedAt(p, q, u)
  PROVE  LookedAt(p, r, u)
<1>1. r.presence = q.presence /\ r.rows = q.rows
  BY DEF SameKnown
<1>2. RowIsCurrent(q, u) => RowIsCurrent(r, u)
  BY <1>1, CurrentStays
<1>3. U!PresenceOf(r, u) = U!PresenceOf(q, u)
  BY <1>1 DEF U!PresenceOf
<1>4. QED
  BY <1>1, <1>2, <1>3 DEF LookedAt

LEMMA OnlyOfRefreshed ==
  ASSUME NEW p, NEW q, NEW u, Refreshed(p, q, u)
  PROVE  OnlyOf(p, q, u)
<1>1. /\ q.users = p.users /\ q.streamsOf = p.streamsOf /\ q.down = p.down
      /\ q.recentlyDeleted = p.recentlyDeleted /\ q.tiles = p.tiles
      /\ q.shown = p.shown /\ q.due = p.due /\ SameHealth(p, q)
  BY DEF Refreshed, SameStreams, SameView
<1>2. ASSUME NEW v PROVE U!getUserStreams(q, v) = U!getUserStreams(p, v)
  BY <1>1 DEF U!getUserStreams
<1>3. ASSUME NEW v, NEW j \in U!getUserStreams(p, v)
      PROVE  U!getStreamConnectionHealth(q, j) = U!getStreamConnectionHealth(p, j)
  BY <1>1, <1>3 DEF U!getUserStreams, SameHealth
<1>4. \A v \in Members \ {u} :
         /\ v \in DOMAIN q.presence <=> v \in DOMAIN p.presence
         /\ U!PresenceOf(q, v) = U!PresenceOf(p, v)
         /\ v \in q.rows <=> v \in p.rows
  BY DEF Refreshed
<1>5. QED
  BY <1>1, <1>2, <1>3, <1>4 DEF OnlyOf

LEMMA RefreshRedraws ==
  ASSUME U!ParticipantsAssumption, NEW p, Sound(p), NEW u \in Members,
         NEW q, q = U!refreshParticipantPresence(p, u)
  PROVE  Redrawn(p, q, u) /\ SameView(p, q)
<1>1. Refreshed(p, q, u) /\ LookedAt(p, q, u)
  BY RefreshDoes DEF Sound
<1>2. OnlyOf(p, q, u)
  BY <1>1, OnlyOfRefreshed
<1>3. q \in PageState /\ SameStreams(p, q) /\ SameView(p, q) /\ TimersOk(q)
  BY <1>1 DEF Refreshed, Sound
<1>4. Ids(q)
  BY <1>3, IdsSame DEF Sound, SameStreams
<1>5. QED
  BY <1>1, <1>2, <1>3, <1>4 DEF Redrawn, Sound

(* The timer of the stream itself need not be right before.                *)
LEMMA SetStatusDoes ==
  ASSUME U!ParticipantsAssumption, NEW p \in PageState, Ids(p), TimerOf(p),
         NEW i \in U!Offers, p.down[i].open,
         \A l \in U!Offers : l # p.down[i].localId => TimerSet(p, l),
         NEW q, q = U!setMediaStatus(p, i)
  PROVE  Redrawn(p, q, p.down[i].owner) /\ SameView(p, q)
<1> DEFINE y == U!Asked(p, i)
           u == p.down[i].owner
<1>1. StillAsked(p, y)
  BY AskedStill
<1>2. y \in PageState /\ SameStreams(p, y) /\ SameView(p, y) /\ SameHealth(p, y)
      /\ y.presence = p.presence /\ y.rows = p.rows
  BY <1>1 DEF StillAsked, OnlyHealth
<1>3. TimersOk(y)
  <2>1. p.down[i].localId # 0
    BY DEF Ids
  <2>2. /\ TimerOf(y)
        /\ \A l \in U!Offers : l # p.down[i].localId /\ TimerSet(p, l) => TimerSet(y, l)
        /\ TimerSet(y, p.down[i].localId)
    BY <2>1, AskedDoes
  <2>3. QED
    BY <2>2 DEF TimersOk
<1>4. Ids(y)
  BY <1>2, IdsSame DEF SameStreams
<1>5. Sound(y) /\ u \in Members
  BY <1>2, <1>3, <1>4, PageFields DEF Sound, Stream
<1>6. q = U!refreshParticipantPresence(y, u)
  BY DEF U!setMediaStatus
<1> HIDE DEF y, u
<1>7. Redrawn(y, q, u) /\ SameView(y, q)
  BY <1>5, <1>6, RefreshRedraws
<1>8. Refreshed(p, y, u)
  BY <1>2, <1>3 DEF Refreshed, U!PresenceOf
<1>9. OnlyOf(p, y, u)
  BY <1>8, OnlyOfRefreshed
<1>10. OnlyOf(p, q, u)
  BY <1>7, <1>9, OnlyOfTrans DEF Redrawn
<1>11. LookedAt(p, q, u)
  BY <1>2, <1>7, SeenAfter DEF Redrawn
<1>12. Sound(q) /\ SameStreams(p, q) /\ SameView(p, q)
  BY <1>2, <1>7 DEF Redrawn, SameStreams, SameView
<1>13. QED
  BY <1>10, <1>11, <1>12 DEF Redrawn, u

LEMMA OnlyOfView ==
  ASSUME NEW p, NEW q, NEW u, SameStreams(p, q), SameKnown(p, q),
         p.due => q.due,
         \A v \in Members \ {u} :
           (v \in q.recentlyDeleted <=> v \in p.recentlyDeleted)
             /\ q.shown[v] = p.shown[v],
         \A v \in Members \ {u} : \A j \in U!getUserStreams(p, v) :
           p.down[j].localId \in p.tiles => p.down[j].localId \in q.tiles
  PROVE  OnlyOf(p, q, u)
<1>1. /\ q.users = p.users /\ q.streamsOf = p.streamsOf /\ q.down = p.down
      /\ q.presence = p.presence /\ q.rows = p.rows /\ q.health = p.health
  BY DEF SameStreams, SameKnown
<1>2. ASSUME NEW v
      PROVE  U!getUserStreams(q, v) = U!getUserStreams(p, v)
               /\ U!PresenceOf(q, v) = U!PresenceOf(p, v)
  BY <1>1 DEF U!getUserStreams, U!PresenceOf
<1>3. ASSUME NEW j
      PROVE  U!getStreamConnectionHealth(q, j) = U!getStreamConnectionHealth(p, j)
  BY <1>1 DEF U!getStreamConnectionHealth, U!HealthOf, U!iceConnectionState
<1>4. QED
  BY <1>1, <1>2, <1>3 DEF OnlyOf

(* Setting the tile of a stream (setMedia).                                *)
MediaSet(p, q, i, force) ==
    /\ Redrawn(p, q, p.down[i].owner)
    /\ q.recentlyDeleted = p.recentlyDeleted
    /\ q.shown = p.shown
    /\ q.tiles = p.tiles \cup {p.down[i].localId}
    /\ q.due <=> p.due \/ force \/ p.down[i].localId \notin p.tiles

LEMMA SetMediaDoes ==
  ASSUME U!ParticipantsAssumption, NEW p, Sound(p), NEW i \in U!Offers, p.down[i].open,
         NEW force \in BOOLEAN, NEW q, q = U!setMedia(p, i, force)
  PROVE  MediaSet(p, q, i, force)
<1> DEFINE l == p.down[i].localId
           u == p.down[i].owner
           y == [p EXCEPT !.tiles = p.tiles \cup {l},
                          !.due = p.due \/ force \/ l \notin p.tiles]
<1>1. q = U!setMediaStatus(y, i)
  BY DEF U!setMedia
<1>2. p \in PageState /\ Ids(p) /\ TimersOk(p)
  BY DEF Sound
<1>3. l \in U!Offers
  BY <1>2, PageFields DEF Ids, U!Offers, U!ParticipantsAssumption
<1>4. /\ y \in PageState /\ SameStreams(p, y) /\ SameKnown(p, y)
      /\ y.recentlyDeleted = p.recentlyDeleted /\ y.shown = p.shown
      /\ y.tiles = p.tiles \cup {l}
      /\ y.due <=> p.due \/ force \/ l \notin p.tiles
  BY <1>2, <1>3 DEF PageState, SameStreams, SameKnown
<1> HIDE DEF y
<1>5. Sound(y)
  BY <1>4, SoundSame
<1>6. y.down = p.down
  BY <1>4 DEF SameStreams
<1>7. Redrawn(y, q, u) /\ SameView(y, q)
  <2>1. y.down[i].open /\ y.down[i].owner = u
    BY <1>6
  <2>2. QED
    BY <2>1, <1>1, <1>5, SetStatusDoes DEF Sound, TimersOk
<1>8. OnlyOf(p, y, u)
  BY <1>4, OnlyOfView
<1>9. OnlyOf(p, q, u)
  BY <1>7, <1>8, OnlyOfTrans DEF Redrawn
<1>10. LookedAt(p, q, u)
  BY <1>4, <1>7, SeenAfter DEF Redrawn, SameKnown
<1>11. Redrawn(p, q, u)
  BY <1>4, <1>7, <1>9, <1>10 DEF Redrawn, SameStreams
<1>12. QED
  BY <1>4, <1>7, <1>11 DEF SameView, MediaSet

LEMMA SetMediaTo ==
  ASSUME U!ParticipantsAssumption, NEW p, Sound(p), NEW i \in U!Offers, p.down[i].open
  PROVE  /\ MediaSet(p, U!setMedia(p, i, FALSE), i, FALSE)
         /\ MediaSet(p, U!setMedia(p, i, TRUE), i, TRUE)
<1>1. \A force \in BOOLEAN : MediaSet(p, U!setMedia(p, i, force), i, force)
  BY SetMediaDoes
<1>2. TRUE \in BOOLEAN /\ FALSE \in BOOLEAN
  OBVIOUS
<1>3. QED
  BY <1>1, <1>2, Zenon

LEMMA UserChangeDoes ==
  ASSUME U!ParticipantsAssumption, NEW p, Sound(p), NEW u \in Members,
         NEW q, q = U!gotUserChange(p, u)
  PROVE  /\ Redrawn(p, q, u)
         /\ q.recentlyDeleted = p.recentlyDeleted \ {u}
         /\ q.shown = p.shown
         /\ q.tiles = p.tiles
         /\ q.due
<1> DEFINE y == [p EXCEPT !.recentlyDeleted = p.recentlyDeleted \ {u}]
           z == U!refreshParticipantPresence(y, u)
<1>1. q = [z EXCEPT !.due = TRUE]
  BY DEF U!gotUserChange
<1>2. /\ y \in PageState /\ SameStreams(p, y) /\ SameKnown(p, y)
      /\ y.recentlyDeleted = p.recentlyDeleted \ {u} /\ y.shown = p.shown
      /\ y.tiles = p.tiles /\ y.due = p.due
  BY DEF PageState, SameStreams, SameKnown, Sound
<1> HIDE DEF y
<1>3. Sound(y)
  BY <1>2, SoundSame
<1>4. Redrawn(y, z, u) /\ SameView(y, z)
  BY <1>3, RefreshRedraws
<1> HIDE DEF z
<1>5. /\ q \in PageState /\ SameStreams(z, q) /\ SameKnown(z, q)
      /\ q.recentlyDeleted = z.recentlyDeleted /\ q.shown = z.shown
      /\ q.tiles = z.tiles /\ q.due
  BY <1>1, <1>4 DEF Redrawn, Sound, PageState, SameStreams, SameKnown
<1>6. Sound(q) /\ SameHealth(z, q)
  BY <1>4, <1>5, SoundSame DEF Redrawn
<1>7. OnlyOf(p, y, u)
  BY <1>2, OnlyOfView
<1>8. OnlyOf(z, q, u)
  BY <1>5, OnlyOfView
<1>9. OnlyOf(p, q, u)
  BY <1>4, <1>7, <1>8, OnlyOfTrans DEF Redrawn
<1>10. LookedAt(p, z, u)
  BY <1>2, <1>4, SeenAfter DEF Redrawn, SameKnown
<1>11. LookedAt(p, q, u)
  BY <1>5, <1>6, <1>10, SeenBefore
<1>12. SameStreams(p, q)
  BY <1>2, <1>4, <1>5 DEF Redrawn, SameStreams
<1>13. QED
  BY <1>2, <1>4, <1>5, <1>6, <1>9, <1>11, <1>12 DEF Redrawn, SameView

LEMMA MarkDoes ==
  ASSUME U!ParticipantsAssumption, NEW p, Sound(p), NEW u \in Members,
         NEW q, q = U!markParticipantStreamReconnecting(p, u)
  PROVE  /\ Sound(q) /\ SameStreams(p, q) /\ SameView(p, q)
         /\ OnlyOf(p, q, u)
         /\ RowThere(p, u) => RowThere(q, u)
<1> DEFINE old == U!PresenceOf(p, u)
           x == [old EXCEPT !.transient = TRUE,
                            !.waits = IF @ = "no" THEN "recent" ELSE @]
           z == WithPresence(p, u, x)
<1>1. old \in Presence
  BY PresenceTyped DEF Sound
<1>2. x \in Presence /\ x.snap = old.snap
  BY <1>1 DEF Presence
<1>3. q = U!renderParticipantRow(z, u)
  BY DEF U!markParticipantStreamReconnecting, WithPresence
<1> HIDE DEF x
<1>4. /\ z \in PageState
      /\ z.users = p.users /\ z.streamsOf = p.streamsOf /\ z.down = p.down
      /\ z.recentlyDeleted = p.recentlyDeleted /\ z.tiles = p.tiles
      /\ z.shown = p.shown /\ z.due = p.due /\ z.rows = p.rows
      /\ z.health = p.health
      /\ U!PresenceOf(z, u) = x
      /\ \A v \in Members \ {u} :
           /\ v \in DOMAIN z.presence <=> v \in DOMAIN p.presence
           /\ U!PresenceOf(z, v) = U!PresenceOf(p, v)
  <2>1. PresencePut(p, z, u, x)
    BY <1>2, PutPresence DEF Sound
  <2>2. QED
    BY <2>1 DEF PresencePut
<1> HIDE DEF z
<1>5. /\ q \in PageState
      /\ q.users = z.users /\ q.streamsOf = z.streamsOf /\ q.down = z.down
      /\ q.recentlyDeleted = z.recentlyDeleted /\ q.tiles = z.tiles
      /\ q.shown = z.shown /\ q.due = z.due /\ q.presence = z.presence
      /\ q.health = z.health
      /\ q.rows = IF u \in z.users \/ U!PresenceOf(z, u).snap # U!Unset
                  THEN z.rows \cup {u} ELSE z.rows
  BY <1>3, <1>4, RenderDoes
<1>6. SameHealth(p, q) /\ TimersOk(q)
  BY <1>4, <1>5, SameHealthFrom DEF Sound
<1>7. Sound(q)
  BY <1>4, <1>5, <1>6, IdsSame DEF Sound
<1>8. SameStreams(p, q) /\ SameView(p, q)
  BY <1>4, <1>5 DEF SameStreams, SameView
<1>9. \A v : U!PresenceOf(q, v) = U!PresenceOf(z, v)
  BY <1>5 DEF U!PresenceOf
<1>10. Refreshed(p, q, u)
  BY <1>4, <1>5, <1>6, <1>8, <1>9 DEF Refreshed, Sound
<1>11. OnlyOf(p, q, u)
  BY <1>10, OnlyOfRefreshed
<1>12. RowThere(p, u) => RowThere(q, u)
  BY <1>2, <1>4, <1>5, <1>9 DEF RowThere
<1>13. QED
  BY <1>7, <1>8, <1>11, <1>12

(* Taking a tile away (delMedia): that of a stream that is closed, or one  *)
(* that is still open and gets its tile back.                              *)
Deleted(p, l, u) ==
    [p EXCEPT !.tiles = p.tiles \ {l},
              !.health = U!Without(p.health, l),
              !.shown = [p.shown EXCEPT ![u] = IF p.shown[u] = "tile" THEN "none"
                                               ELSE p.shown[u]],
              !.due = TRUE]

LEMMA DelMediaIs ==
  ASSUME NEW p \in PageState, NEW l, NEW u \in Members
  PROVE  U!delMedia(p, l, u) =
           IF l \notin p.tiles THEN U!RefreshOwners(p, U!OpenAs(p, l))
           ELSE U!RefreshOwners(Deleted(p, l, u), U!OpenAs(p, l))
  BY DEF U!delMedia, Deleted, PageState

LEMMA DeletedDoes ==
  ASSUME NEW p, Sound(p), NEW l \in U!Offers, NEW u \in Members,
         \A j \in U!OpenAs(p, l) : p.down[j].owner = u,
         NEW q, q = Deleted(p, l, u)
  PROVE  /\ Sound(q) /\ SameStreams(p, q) /\ OnlyOf(p, q, u)
         /\ U!OpenAs(p, l) = {} => SameHealth(p, q)
         /\ q.presence = p.presence /\ q.rows = p.rows
         /\ q.recentlyDeleted = p.recentlyDeleted
         /\ q.tiles = p.tiles \ {l} /\ q.due
<1> DEFINE e == U!Without(p.health, l)
           g == [p.shown EXCEPT ![u] = IF p.shown[u] = "tile" THEN "none"
                                       ELSE p.shown[u]]
<1>1. e \in Healths
  <2>1. p.health \in UNION {[Y -> Health] : Y \in SUBSET U!Offers}
    BY DEF PageState, Healths, Sound
  <2>2. QED
    BY <2>1, WithoutTyped DEF Healths
<1>2. DOMAIN e = DOMAIN p.health \ {l}
        /\ \A z \in DOMAIN p.health \ {l} : e[z] = p.health[z]
  BY DEF U!Without
<1>3. p \in PageState /\ Ids(p) /\ TimersOk(p)
  BY DEF Sound
<1>4. /\ g \in [Members -> {"none", "tile", "placeholder"}]
      /\ \A v \in Members \ {u} : g[v] = p.shown[v]
  BY <1>3, PageFields
<1> HIDE DEF e, g
<1>5. q = [p EXCEPT !.tiles = p.tiles \ {l}, !.health = e, !.shown = g, !.due = TRUE]
  BY DEF Deleted, e, g
<1>6. /\ q \in PageState /\ SameStreams(p, q)
      /\ q.presence = p.presence /\ q.rows = p.rows /\ q.health = e
      /\ q.recentlyDeleted = p.recentlyDeleted
      /\ q.tiles = p.tiles \ {l} /\ q.due /\ q.shown = g
  BY ZenonT(80), <1>1, <1>3, <1>4, <1>5 DEF PageState, SameStreams
<1>7. q.down = p.down
  BY <1>6 DEF SameStreams
<1>8. TimersOk(q)
  <2>1. TimerOf(q)
    BY <1>2, <1>3, <1>6, <1>7 DEF TimersOk, TimerOf
  <2>2. ASSUME NEW z \in U!Offers PROVE TimerSet(q, z)
    BY <1>2, <1>3, <1>6, <1>7 DEF TimersOk, TimerSet
  <2>3. QED
    BY <2>1, <2>2 DEF TimersOk
<1>9. Sound(q)
  BY <1>3, <1>6, <1>7, <1>8, IdsSame DEF Sound
<1>10. ASSUME NEW j \in U!Offers, p.down[j].localId # l
       PROVE  U!getStreamConnectionHealth(q, j) = U!getStreamConnectionHealth(p, j)
  <2>1. U!HealthOf(q, j) = U!HealthOf(p, j)
    BY <1>2, <1>6, <1>7, <1>10 DEF U!HealthOf
  <2>2. U!iceConnectionState(q, j) = U!iceConnectionState(p, j)
    BY <1>7 DEF U!iceConnectionState
  <2>3. QED
    BY <2>1, <2>2 DEF U!getStreamConnectionHealth
<1>11. U!OpenAs(p, l) = {} => SameHealth(p, q)
  BY <1>10 DEF SameHealth, U!OpenAs
<1>12. ASSUME NEW v \in Members \ {u}, NEW j \in U!getUserStreams(p, v)
       PROVE  p.down[j].localId # l /\ j \in U!Offers
  BY <1>12 DEF U!getUserStreams, U!OpenAs
<1>13. ASSUME NEW v
       PROVE  U!getUserStreams(q, v) = U!getUserStreams(p, v)
                /\ U!PresenceOf(q, v) = U!PresenceOf(p, v)
  BY <1>6, <1>7 DEF U!getUserStreams, U!PresenceOf
<1>14. OnlyOf(p, q, u)
  <2>1. p.due => q.due
    BY <1>6
  <2>2. \A v \in Members \ {u} :
          /\ v \in q.users <=> v \in p.users
          /\ q.streamsOf[v] = p.streamsOf[v]
          /\ v \in q.recentlyDeleted <=> v \in p.recentlyDeleted
          /\ v \in DOMAIN q.presence <=> v \in DOMAIN p.presence
          /\ U!PresenceOf(q, v) = U!PresenceOf(p, v)
          /\ v \in q.rows <=> v \in p.rows
          /\ q.shown[v] = p.shown[v]
          /\ U!getUserStreams(q, v) = U!getUserStreams(p, v)
    BY <1>4, <1>6, <1>13 DEF SameStreams
  <2>3. \A v \in Members \ {u} : \A j \in U!getUserStreams(p, v) :
          /\ q.down[j] = p.down[j]
          /\ U!getStreamConnectionHealth(q, j) = U!getStreamConnectionHealth(p, j)
          /\ p.down[j].localId \in p.tiles => p.down[j].localId \in q.tiles
    BY <1>6, <1>7, <1>10, <1>12
  <2>4. QED
    BY <2>1, <2>2, <2>3 DEF OnlyOf
<1>15. QED
  BY <1>6, <1>9, <1>11, <1>14

(* Once the stream is closed, nobody is looked at again.                   *)
LEMMA DelClosedDoes ==
  ASSUME NEW p, Sound(p), NEW l \in U!Offers, NEW u \in Members, U!OpenAs(p, l) = {},
         NEW q, q = U!delMedia(p, l, u)
  PROVE  /\ Sound(q) /\ SameStreams(p, q) /\ OnlyOf(p, q, u)
         /\ SameHealth(p, q)
         /\ q.presence = p.presence /\ q.rows = p.rows
         /\ q.recentlyDeleted = p.recentlyDeleted
         /\ q.tiles = p.tiles \ {l}
         /\ l \in p.tiles => q.due
         /\ q.due \/ q.shown = p.shown
<1>1. p \in PageState
  BY DEF Sound
<1>2. CASE l \notin p.tiles
  <2>1. q = p
    BY <1>1, <1>2, DelMediaIs DEF U!RefreshOwners
  <2>2. SameStreams(p, p) /\ SameHealth(p, p) /\ OnlyOf(p, p, u)
    BY DEF SameStreams, SameHealth, OnlyOf
  <2>3. p.tiles = p.tiles \ {l}
    BY <1>2
  <2>4. QED
    BY <2>1, <2>2, <2>3, <1>2
<1>3. CASE l \in p.tiles
  <2>1. q = Deleted(p, l, u)
    BY <1>1, <1>3, DelMediaIs DEF U!RefreshOwners
  <2>2. QED
    BY <2>1, <1>3, DeletedDoes
<1>4. QED
  BY <1>2, <1>3

(* While it is open, its owner is.                                         *)
LEMMA DelOpenDoes ==
  ASSUME U!ParticipantsAssumption, NEW p, Sound(p), NEW n \in U!Offers, p.down[n].open,
         NEW q, q = U!delMedia(p, p.down[n].localId, p.down[n].owner)
  PROVE  /\ Sound(q) /\ SameStreams(p, q) /\ OnlyOf(p, q, p.down[n].owner)
         /\ q.recentlyDeleted = p.recentlyDeleted
         /\ q.tiles = p.tiles \ {p.down[n].localId}
<1> DEFINE l == p.down[n].localId
           u == p.down[n].owner
           y == IF l \in p.tiles THEN Deleted(p, l, u) ELSE p
<1>1. p \in PageState /\ Ids(p)
  BY DEF Sound
<1>2. U!OpenAs(p, l) = {n}
  BY <1>1 DEF Ids, U!OpenAs
<1>3. l \in U!Offers /\ u \in Members
  BY <1>1, PageFields DEF Ids, U!Offers, U!ParticipantsAssumption, Stream
<1>4. q = U!refreshParticipantPresence(y, u)
  <2>1. y.down = p.down
    BY <1>1 DEF Deleted, PageState
  <2>2. q = U!RefreshOwners(y, {n})
    BY <1>1, <1>2, <1>3, DelMediaIs
  <2> HIDE DEF y
  <2>3. QED
    BY <2>1, <2>2 DEF U!RefreshOwners
<1>5. /\ Sound(y) /\ SameStreams(p, y) /\ OnlyOf(p, y, u)
      /\ y.recentlyDeleted = p.recentlyDeleted /\ y.tiles = p.tiles \ {l}
  <2>1. CASE l \in p.tiles
    <3>1. y = Deleted(p, l, u)
      BY <2>1
    <3>2. \A j \in U!OpenAs(p, l) : p.down[j].owner = u
      BY <1>2
    <3> HIDE DEF l, u, y
    <3>3. QED
      BY <3>1, <3>2, <1>3, DeletedDoes
  <2>2. CASE l \notin p.tiles
    BY <2>2 DEF SameStreams, OnlyOf
  <2>3. QED
    BY <2>1, <2>2
<1> HIDE DEF y, l, u
<1>6. Redrawn(y, q, u) /\ SameView(y, q)
  BY <1>3, <1>4, <1>5, RefreshRedraws
<1>7. OnlyOf(p, q, u)
  BY <1>5, <1>6, OnlyOfTrans DEF Redrawn
<1>8. Sound(q) /\ SameStreams(p, q) /\ q.recentlyDeleted = p.recentlyDeleted
      /\ q.tiles = p.tiles \ {l}
  BY <1>5, <1>6 DEF Redrawn, SameView, SameStreams
<1>9. QED
  BY <1>7, <1>8 DEF l, u

(* The summary of a user's streams is computed anew.                       *)
LEMMA RecomputeDoes ==
  ASSUME NEW p \in PageState, NEW u \in Members, NEW q, q = U!recomputeUserStreams(p, u)
  PROVE  /\ q \in PageState
         /\ q.users = p.users /\ q.down = p.down
         /\ \A v \in Members \ {u} : q.streamsOf[v] = p.streamsOf[v]
         /\ SameKnown(p, q) /\ SameView(p, q)
         /\ u \notin p.users => q = p
<1> DEFINE with == {i \in U!getUserStreams(p, u) : p.down[i].stream}
           now == (IF with = {} THEN {} ELSE {"camera"})
                    \cup UNION {U!Live(p, i) : i \in with}
<1>1. now \in Summaries
  BY DEF Summaries, U!Live
<1>2. p.streamsOf \in [Members -> Summaries]
  BY PageFields
<1>3. CASE u \in p.users
  <2> DEFINE e == [p.streamsOf EXCEPT ![u] = now]
  <2>1. q = [p EXCEPT !.streamsOf = e]
    BY <1>3 DEF U!recomputeUserStreams
  <2>2. e \in [Members -> Summaries] /\ \A v \in Members \ {u} : e[v] = p.streamsOf[v]
    BY <1>1, <1>2
  <2> HIDE DEF e
  <2>3. QED
    BY <2>1, <2>2, <1>3 DEF PageState, SameKnown, SameView
<1>4. CASE u \notin p.users
  <2>1. q = p
    BY <1>4 DEF U!recomputeUserStreams
  <2>2. QED
    BY <2>1 DEF SameKnown, SameView
<1>5. QED
  BY <1>3, <1>4

LEMMA NoStreamTyped == U!ParticipantsAssumption => U!NoStream \in Stream
<1> SUFFICES ASSUME U!ParticipantsAssumption PROVE U!NoStream \in Stream
  OBVIOUS
<1>1. (CHOOSE u \in Members : TRUE) \in Members
  BY DEF U!ParticipantsAssumption
<1>2. [k \in Kinds |-> "none"] \in [Kinds -> U!TrackStates]
  BY DEF U!TrackStates
<1>3. 0 \in 0..MaxOffers /\ "new" \in U!IceStates
  BY DEF U!ParticipantsAssumption, U!IceStates
<1>4. QED
  BY <1>1, <1>2, <1>3 DEF U!NoStream, Stream

LEMMA ClosedLike ==
  ASSUME U!ParticipantsAssumption, NEW x \in Stream
  PROVE  /\ U!Closed(x) \in Stream
         /\ ~U!Closed(x).open /\ U!Closed(x).owner = x.owner
              /\ U!Closed(x).localId = x.localId
<1>1. U!NoStream \in Stream /\ ~U!NoStream.open
  BY NoStreamTyped DEF U!NoStream
<1>2. QED
  BY <1>1 DEF U!Closed, Stream

(* Another state of a stream of the user: the others do not notice.        *)
WithStream(p, i, x) == [p EXCEPT !.down = [p.down EXCEPT ![i] = x]]

StreamPut(p, q, i, x, u) ==
    /\ q \in PageState
    /\ q.users = p.users /\ q.streamsOf = p.streamsOf
    /\ SameView(p, q) /\ SameKnown(p, q)
    /\ q.down[i] = x /\ \A j \in U!Offers \ {i} : q.down[j] = p.down[j]
    /\ OnlyOf(p, q, u)

LEMMA WithStreamDoes ==
  ASSUME NEW p \in PageState, NEW i \in U!Offers, NEW x \in Stream,
         NEW u, p.down[i].open => p.down[i].owner = u, x.open => x.owner = u
  PROVE  StreamPut(p, WithStream(p, i, x), i, x, u)
<1> DEFINE q == WithStream(p, i, x)
           e == [p.down EXCEPT ![i] = x]
<1>1. e \in [U!Offers -> Stream] /\ e[i] = x
        /\ \A j \in U!Offers \ {i} : e[j] = p.down[j]
  BY PageFields
<1> HIDE DEF e, q
<1>2. q = [p EXCEPT !.down = e]
  BY DEF WithStream, e, q
<1>3. /\ q \in PageState /\ q.down = e
      /\ q.users = p.users /\ q.streamsOf = p.streamsOf
      /\ SameView(p, q) /\ SameKnown(p, q)
  BY <1>1, <1>2 DEF PageState, SameView, SameKnown
<1>4. ASSUME NEW v \in Members \ {u}
      PROVE  /\ U!getUserStreams(q, v) = U!getUserStreams(p, v)
             /\ i \notin U!getUserStreams(p, v)
             /\ U!PresenceOf(q, v) = U!PresenceOf(p, v)
  BY <1>1, <1>3 DEF U!getUserStreams, U!PresenceOf, SameKnown
<1>5. ASSUME NEW j \in U!Offers \ {i}
      PROVE  U!getStreamConnectionHealth(q, j) = U!getStreamConnectionHealth(p, j)
  BY <1>1, <1>3 DEF U!getStreamConnectionHealth, U!HealthOf, U!iceConnectionState, SameKnown
<1>6. OnlyOf(p, q, u)
  <2>1. \A v \in Members \ {u} :
          /\ v \in q.users <=> v \in p.users
          /\ q.streamsOf[v] = p.streamsOf[v]
          /\ v \in q.recentlyDeleted <=> v \in p.recentlyDeleted
          /\ v \in DOMAIN q.presence <=> v \in DOMAIN p.presence
          /\ U!PresenceOf(q, v) = U!PresenceOf(p, v)
          /\ v \in q.rows <=> v \in p.rows
          /\ q.shown[v] = p.shown[v]
          /\ U!getUserStreams(q, v) = U!getUserStreams(p, v)
    BY <1>3, <1>4 DEF SameView, SameKnown
  <2>2. ASSUME NEW v \in Members \ {u}, NEW j \in U!getUserStreams(p, v)
        PROVE  j \in U!Offers \ {i}
    BY <1>4, <2>2 DEF U!getUserStreams
  <2>3. p.due => q.due
    BY <1>3 DEF SameView
  <2>4. q.tiles = p.tiles
    BY <1>3 DEF SameView
  <2>5. QED
    BY <2>1, <2>2, <2>3, <2>4, <1>1, <1>3, <1>5 DEF OnlyOf
<1>7. StreamPut(p, q, i, x, u)
  BY <1>1, <1>3, <1>6 DEF StreamPut
<1>8. QED
  BY <1>7 DEF q

LEMMA ClosedDoes ==
  ASSUME U!ParticipantsAssumption, NEW p, Sound(p), TilesOpen(p),
         NEW i \in U!Offers, p.down[i].open,
         NEW q, q = WithStream(p, i, U!Closed(p.down[i]))
  PROVE  /\ Sound(q)
         /\ U!OpenAs(q, p.down[i].localId) = {}
         /\ \A l \in p.tiles \ {p.down[i].localId} : U!OpenAs(q, l) # {}
<1> DEFINE x == U!Closed(p.down[i])
           l == p.down[i].localId
<1>1. p \in PageState /\ Ids(p) /\ TimersOk(p)
  BY DEF Sound
<1>2. p.down[i] \in Stream
  BY <1>1, PageFields
<1>3. x \in Stream /\ ~x.open /\ x.owner = p.down[i].owner /\ x.localId = l
  BY <1>2, ClosedLike
<1> HIDE DEF x, l
<1>4. q = WithStream(p, i, x)
  BY DEF x
<1>5. /\ q \in PageState /\ SameView(p, q) /\ SameKnown(p, q)
      /\ q.down[i] = x /\ \A j \in U!Offers \ {i} : q.down[j] = p.down[j]
  <2> DEFINE o == p.down[i].owner
  <2>1. (p.down[i].open => p.down[i].owner = o) /\ (x.open => x.owner = o)
    BY <1>3
  <2> HIDE DEF o
  <2>2. StreamPut(p, WithStream(p, i, x), i, x, o)
    BY <1>1, <1>3, <2>1, WithStreamDoes
  <2>3. QED
    BY <1>4, <2>2 DEF StreamPut
<1>6. \A j \in U!Offers :
        /\ q.down[j].localId = p.down[j].localId
        /\ q.down[j].owner = p.down[j].owner
        /\ q.down[j].open <=> p.down[j].open /\ j # i
  BY <1>3, <1>5 DEF l
<1>7. Ids(q)
  BY <1>1, <1>6 DEF Ids
<1>8. q.health = p.health
  BY <1>5 DEF SameKnown
<1>9. TimersOk(q)
  <2>1. TimerOf(q)
    <3>1. SUFFICES ASSUME NEW z \in DOMAIN p.health, p.health[z].timer # 0
                   PROVE  q.down[p.health[z].timer].localId = z
      BY <1>8 DEF TimerOf
    <3>2. p.down[p.health[z].timer].localId = z
      BY <3>1, <1>1 DEF TimersOk, TimerOf
    <3>3. p.health[z].timer \in U!Offers
      <4>1. p.health[z] \in Health
        BY <1>1, PageFields
      <4>2. QED
        BY <4>1, <3>1 DEF Health, U!Offers, U!ParticipantsAssumption
    <3>4. QED
      BY <3>2, <3>3, <1>6
  <2>2. ASSUME NEW z \in U!Offers PROVE TimerSet(q, z)
    <3>1. TimerSet(p, z)
      BY <1>1 DEF TimersOk
    <3>2. QED
      BY <3>1, <1>5, <1>6, <1>8 DEF TimerSet
  <2>3. QED
    BY <2>1, <2>2 DEF TimersOk
<1>10. U!OpenAs(q, l) = {}
  BY <1>1, <1>6 DEF U!OpenAs, Ids, l
<1>11. ASSUME NEW z \in p.tiles \ {l} PROVE U!OpenAs(q, z) # {}
  <2>1. PICK j \in U!Offers : p.down[j].open /\ p.down[j].localId = z
    BY <1>11 DEF TilesOpen, U!OpenAs
  <2>2. j # i
    BY <2>1, <1>11 DEF l
  <2>3. QED
    BY <2>1, <2>2, <1>6 DEF U!OpenAs
<1>12. QED
  BY <1>1, <1>5, <1>7, <1>9, <1>10, <1>11 DEF Sound, l

LEMMA RowOkFrom ==
  ASSUME NEW p, NEW q, NEW u, q.users = p.users, LookedAt(p, q, u), RowThere(p, u)
  PROVE  RowOk(q, u)
  BY DEF LookedAt, RowThere, RowOk

(* Closing a stream, with its callbacks (Stream.close): its tile is taken  *)
(* away, the summary and the row of its owner are put up to date.          *)
ClosedIn(p, q, i, replace) ==
    /\ Sound(q) /\ TilesOpen(q)
    /\ OnlyOf(p, q, p.down[i].owner)
    /\ q.users = p.users
    /\ q.down[i] = U!Closed(p.down[i])
    /\ \A j \in U!Offers \ {i} : q.down[j] = p.down[j]
    /\ p.down[i].localId \notin q.tiles
    /\ p.down[i].localId \in p.tiles => q.due
    /\ q.due \/ q.shown = p.shown
    /\ q.recentlyDeleted \subseteq p.recentlyDeleted
    /\ RowThere(p, p.down[i].owner) => RowThere(q, p.down[i].owner)
    /\ RowThere(p, p.down[i].owner) /\ ~replace => RowOk(q, p.down[i].owner)

LEMMA CloseStreamDoes ==
  ASSUME U!ParticipantsAssumption, NEW p, Sound(p), TilesOpen(p),
         NEW i \in U!Offers, p.down[i].open, NEW replace \in BOOLEAN,
         NEW q, q = U!closeStream(p, i, replace)
  PROVE  ClosedIn(p, q, i, replace)
<1> DEFINE u == p.down[i].owner
           l == p.down[i].localId
           x == U!Closed(p.down[i])
           p0 == WithStream(p, i, x)
           p1 == U!recomputeUserStreams(p0, u)
           p2 == IF p1.streamsOf # p0.streamsOf THEN U!gotUserChange(p1, u) ELSE p1
           p3 == U!delMedia(p2, l, u)
           p4 == U!refreshParticipantPresence(p3, u)
<1>1. p \in PageState /\ Ids(p)
  BY DEF Sound
<1>2. u \in Members /\ l \in U!Offers /\ x \in Stream /\ ~x.open /\ x.owner = u
        /\ x.localId = l
  <2>1. p.down[i] \in Stream
    BY <1>1, PageFields
  <2>2. QED
    BY <2>1, <1>1, ClosedLike DEF Stream, Ids, U!Offers, U!ParticipantsAssumption
<1>3. q = IF replace THEN U!markParticipantStreamReconnecting(p4, u) ELSE p4
  <2>1. [p EXCEPT !.down[i] = U!Closed(@)] = p0
    BY <1>1 DEF WithStream, PageState
  <2>2. [p EXCEPT !.down[i] = U!Closed(@)].streamsOf = p.streamsOf
    BY <1>1 DEF PageState
  <2>3. p0.streamsOf = p.streamsOf
    BY <1>1 DEF PageState, WithStream
  <2>4. U!closeStream(p, i, replace) =
          LET t == U!recomputeUserStreams([p EXCEPT !.down[i] = U!Closed(@)], u)
              told == IF t.streamsOf # p.streamsOf THEN U!gotUserChange(t, u) ELSE t
              gone == U!refreshParticipantPresence(U!delMedia(told, l, u), u)
          IN IF replace THEN U!markParticipantStreamReconnecting(gone, u) ELSE gone
    BY DEF U!closeStream
  <2>5. QED
    BY <2>1, <2>3, <2>4
<1> HIDE DEF x
<1>4. /\ Sound(p0)
      /\ U!OpenAs(p0, l) = {}
      /\ \A z \in p.tiles \ {l} : U!OpenAs(p0, z) # {}
  BY ClosedDoes DEF x
<1>5. /\ p0.users = p.users /\ p0.streamsOf = p.streamsOf
      /\ SameView(p, p0) /\ SameKnown(p, p0)
      /\ p0.down[i] = x /\ \A j \in U!Offers \ {i} : p0.down[j] = p.down[j]
      /\ OnlyOf(p, p0, u)
  <2>1. StreamPut(p, p0, i, x, u)
    BY <1>1, <1>2, WithStreamDoes
  <2>2. QED
    BY <2>1 DEF StreamPut
<1> HIDE DEF p0, u, l
<1>6. /\ p1 \in PageState
      /\ p1.users = p0.users /\ p1.down = p0.down
      /\ \A v \in Members \ {u} : p1.streamsOf[v] = p0.streamsOf[v]
      /\ SameKnown(p0, p1) /\ SameView(p0, p1)
  BY <1>2, <1>4, RecomputeDoes DEF Sound
<1> HIDE DEF p1
<1>7. Sound(p1)
  <2>1. p1.health = p0.health
    BY <1>6 DEF SameKnown
  <2>2. TimersOk(p1)
    BY <2>1, <1>4, <1>6, SameHealthFrom DEF Sound
  <2>3. QED
    BY <2>2, <1>4, <1>6, IdsSame DEF Sound
<1>8. OnlyOf(p0, p1, u)
  <2>1. p1.health = p0.health /\ p1.presence = p0.presence /\ p1.rows = p0.rows
        /\ p1.recentlyDeleted = p0.recentlyDeleted /\ p1.tiles = p0.tiles
        /\ p1.shown = p0.shown /\ p1.due = p0.due
    BY <1>6 DEF SameKnown, SameView
  <2>2. ASSUME NEW v
        PROVE  U!getUserStreams(p1, v) = U!getUserStreams(p0, v)
                 /\ U!PresenceOf(p1, v) = U!PresenceOf(p0, v)
    BY <1>6, <2>1 DEF U!getUserStreams, U!PresenceOf
  <2>3. ASSUME NEW j
        PROVE  U!getStreamConnectionHealth(p1, j) = U!getStreamConnectionHealth(p0, j)
    BY <1>6, <2>1 DEF U!getStreamConnectionHealth, U!HealthOf, U!iceConnectionState
  <2>4. QED
    BY <1>6, <2>1, <2>2, <2>3 DEF OnlyOf
<1>9. /\ Sound(p2) /\ SameStreams(p1, p2) /\ OnlyOf(p1, p2, u)
      /\ p2.tiles = p1.tiles /\ p2.shown = p1.shown
      /\ p2.recentlyDeleted \subseteq p1.recentlyDeleted
      /\ p2.due \/ p2.due = p1.due
      /\ RowThere(p1, u) => RowThere(p2, u)
  <2>1. CASE p1.streamsOf # p0.streamsOf
    <3>1. p2 = U!gotUserChange(p1, u)
      BY <2>1
    <3> HIDE DEF p2
    <3>2. /\ Redrawn(p1, p2, u)
          /\ p2.recentlyDeleted = p1.recentlyDeleted \ {u}
          /\ p2.shown = p1.shown
          /\ p2.tiles = p1.tiles
          /\ p2.due
      BY <3>1, <1>2, <1>7, UserChangeDoes
    <3>3. RowThere(p1, u) => RowThere(p2, u)
      BY <3>2 DEF Redrawn, SameStreams, LookedAt, RowThere
    <3>4. QED
      BY <3>2, <3>3 DEF Redrawn
  <2>2. CASE p1.streamsOf = p0.streamsOf
    <3>1. p2 = p1
      BY <2>2
    <3>2. QED
      BY <3>1, <1>7 DEF SameStreams, OnlyOf
  <2>3. QED
    BY <2>1, <2>2
<1> HIDE DEF p2
<1>10. p2.down = p0.down /\ p2.users = p.users /\ p2.tiles = p.tiles
  BY <1>5, <1>6, <1>9 DEF SameStreams, SameView
<1>11. /\ Sound(p3) /\ SameStreams(p2, p3) /\ OnlyOf(p2, p3, u)
       /\ SameHealth(p2, p3)
       /\ p3.presence = p2.presence /\ p3.rows = p2.rows
       /\ p3.recentlyDeleted = p2.recentlyDeleted
       /\ p3.tiles = p2.tiles \ {l}
       /\ l \in p2.tiles => p3.due
       /\ p3.due \/ p3.shown = p2.shown
  <2>1. U!OpenAs(p2, l) = {}
    BY <1>4, <1>10 DEF U!OpenAs
  <2>2. QED
    BY <2>1, <1>2, <1>9, DelClosedDoes
<1> HIDE DEF p3
<1>12. Redrawn(p3, p4, u) /\ SameView(p3, p4)
  BY <1>2, <1>11, RefreshRedraws
<1> HIDE DEF p4
<1>13. /\ Sound(q) /\ SameStreams(p4, q) /\ SameView(p4, q) /\ OnlyOf(p4, q, u)
       /\ RowThere(p4, u) => RowThere(q, u)
       /\ ~replace => q = p4
  <2>1. CASE replace
    <3>1. q = U!markParticipantStreamReconnecting(p4, u)
      BY <2>1, <1>3
    <3>2. QED
      BY <3>1, <2>1, <1>2, <1>12, MarkDoes DEF Redrawn
  <2>2. CASE ~replace
    BY <2>2, <1>3, <1>12 DEF Redrawn, SameStreams, SameView, OnlyOf
  <2>3. QED
    BY <2>1, <2>2
<1>14. OnlyOf(p, q, u)
  <2>1. OnlyOf(p, p1, u)
    BY <1>5, <1>8, OnlyOfTrans
  <2>2. OnlyOf(p, p2, u)
    BY <2>1, <1>9, OnlyOfTrans
  <2>3. OnlyOf(p, p3, u)
    BY <2>2, <1>11, OnlyOfTrans
  <2>4. OnlyOf(p, p4, u)
    BY <2>3, <1>12, OnlyOfTrans DEF Redrawn
  <2>5. QED
    BY <2>4, <1>13, OnlyOfTrans
<1>15. q.users = p.users /\ q.down = p0.down /\ q.tiles = p.tiles \ {l}
  BY <1>10, <1>11, <1>12, <1>13 DEF Redrawn, SameStreams, SameView
<1>16. TilesOpen(q)
  BY <1>4, <1>15 DEF TilesOpen, U!OpenAs
<1>17. /\ l \in p.tiles => q.due
       /\ q.due \/ q.shown = p.shown
       /\ q.recentlyDeleted \subseteq p.recentlyDeleted
  <2>1. q.due = p3.due /\ q.shown = p3.shown /\ q.recentlyDeleted = p3.recentlyDeleted
    BY <1>12, <1>13 DEF SameView
  <2>2. p1.due = p.due /\ p1.shown = p.shown /\ p1.recentlyDeleted = p.recentlyDeleted
    BY <1>5, <1>6 DEF SameView
  <2>3. QED
    BY <2>1, <2>2, <1>9, <1>10, <1>11
<1>18. RowThere(p, u) => RowOk(p4, u)
  <2>1. SUFFICES ASSUME RowThere(p, u) PROVE RowOk(p4, u)
    OBVIOUS
  <2>2. RowThere(p1, u)
    BY <2>1, <1>5, <1>6 DEF RowThere, SameKnown, U!PresenceOf
  <2>3. RowThere(p2, u)
    BY <2>2, <1>9
  <2>4. RowThere(p3, u)
    BY <2>3, <1>11 DEF RowThere, SameStreams, U!PresenceOf
  <2>5. LookedAt(p3, p4, u) /\ p4.users = p3.users
    BY <1>12 DEF Redrawn, SameStreams
  <2>6. QED
    BY <2>4, <2>5, RowOkFrom
<1>19. /\ RowThere(p, u) => RowThere(q, u)
       /\ RowThere(p, u) /\ ~replace => RowOk(q, u)
  BY <1>13, <1>18 DEF RowOk
<1>20. q.down[i] = x /\ \A j \in U!Offers \ {i} : q.down[j] = p.down[j]
  BY <1>5, <1>15
<1>21. l \notin q.tiles
  BY <1>15
<1>22. QED
  BY <1>13, <1>14, <1>15, <1>16, <1>17, <1>19, <1>20, <1>21 DEF u, l, x, ClosedIn

LEMMA CloseStreamTo ==
  ASSUME U!ParticipantsAssumption, NEW p, Sound(p), TilesOpen(p),
         NEW i \in U!Offers, p.down[i].open
  PROVE  /\ ClosedIn(p, U!closeStream(p, i, FALSE), i, FALSE)
         /\ ClosedIn(p, U!closeStream(p, i, TRUE), i, TRUE)
<1>1. \A replace \in BOOLEAN : ClosedIn(p, U!closeStream(p, i, replace), i, replace)
  BY CloseStreamDoes
<1>2. TRUE \in BOOLEAN /\ FALSE \in BOOLEAN
  OBVIOUS
<1>3. QED
  BY <1>1, <1>2, Zenon

(* What holds of a user while the page is connected, on its way, or cut    *)
(* off.                                                                    *)
SettledFor(p, n, u) ==
    /\ TileOk(p, u)
    /\ n # "lost" => RowOk(p, u)
    /\ n = "joined" => ShownOk(p, u)

Alone(p) == p.users = {} /\ \A i \in U!Offers : ~p.down[i].open

(* The invariant of the page.                                              *)
PageInv(p, n) ==
    /\ n \in {"lost", "joining", "joined"}
    /\ Sound(p) /\ TilesOpen(p)
    /\ \A u \in Members : SettledFor(p, n, u)
    /\ n # "joined" => Alone(p)

(* A step on one user has to be looked at for this user only.              *)
LEMMA OneUser ==
  ASSUME NEW p, NEW n, PageInv(p, n), NEW q, NEW u \in Members,
         Sound(q), TilesOpen(q), OnlyOf(p, q, u), SettledFor(q, n, u),
         n # "joined" => Alone(q)
  PROVE  PageInv(q, n)
<1>1. ASSUME NEW v \in Members, v # u PROVE SettledFor(q, n, v)
  <2>1. SettledFor(p, n, v)
    BY DEF PageInv
  <2>2. v \in Members \ {u}
    BY <1>1
  <2>3. QED
    BY <2>1, <2>2, OthersStay DEF SettledFor
<1>2. QED
  BY <1>1 DEF PageInv

LEMMA TilesOpenSame ==
  ASSUME NEW p, NEW q, TilesOpen(p), q.down = p.down, q.tiles \subseteq p.tiles
  PROVE  TilesOpen(q)
  BY DEF TilesOpen, U!OpenAs

LEMMA TileOkFrom ==
  ASSUME NEW p, NEW q, NEW u, TileOk(p, u), q.down = p.down,
         p.tiles \subseteq q.tiles, q.recentlyDeleted \subseteq p.recentlyDeleted,
         u \in q.users => u \notin q.recentlyDeleted
  PROVE  TileOk(q, u)
  BY DEF TileOk, U!getUserStreams, U!hasVideoTrack, U!Live

LEMMA ShownOkFrom ==
  ASSUME NEW p, NEW q, NEW u, ShownOk(p, u), p.due => q.due, q.down = p.down,
         q.users = p.users, q.shown = p.shown,
         q.recentlyDeleted \subseteq p.recentlyDeleted
  PROVE  ShownOk(q, u)
  BY DEF ShownOk, U!getUserStreams, U!hasVideoTrack, U!Live

LEMMA OpenMeansJoined ==
  ASSUME NEW p, NEW n, PageInv(p, n), NEW i \in U!Offers, p.down[i].open
  PROVE  /\ n = "joined"
         /\ p \in PageState /\ Ids(p)
         /\ p.down[i].owner \in Members
         /\ p.down[i].localId # 0
         /\ RowThere(p, p.down[i].owner)
         /\ U!getUserStreams(p, p.down[i].owner) = {i}
         /\ SettledFor(p, n, p.down[i].owner)
<1>1. p \in PageState /\ Ids(p)
  BY DEF PageInv, Sound
<1>2. p.down[i].owner \in Members
  BY <1>1, PageFields DEF Stream
<1>3. n = "joined"
  BY DEF PageInv, Alone
<1>4. U!getUserStreams(p, p.down[i].owner) = {i}
  BY <1>1 DEF Ids, U!getUserStreams
<1>5. SettledFor(p, n, p.down[i].owner)
  BY <1>2 DEF PageInv
<1>6. p.down[i].localId # 0
  BY <1>1 DEF Ids
<1>7. QED
  BY <1>1, <1>2, <1>3, <1>4, <1>5, <1>6 DEF SettledFor, RowOk

(* The handlers of the page, one by one, keep the invariant.               *)
LEMMA RenegotiatePage ==
  ASSUME U!ParticipantsAssumption, NEW p, NEW n, PageInv(p, n),
         NEW i \in U!Offers, p.down[i].open, NEW q, q = U!setMedia(p, i, FALSE)
  PROVE  PageInv(q, n)
<1> DEFINE u == p.down[i].owner
<1>1. /\ n = "joined" /\ p \in PageState /\ Ids(p) /\ u \in Members
      /\ RowThere(p, u) /\ SettledFor(p, n, u)
  BY OpenMeansJoined
<1>2. Sound(p) /\ TilesOpen(p)
  BY DEF PageInv
<1>3. /\ Redrawn(p, q, u)
      /\ q.recentlyDeleted = p.recentlyDeleted /\ q.shown = p.shown
      /\ q.tiles = p.tiles \cup {p.down[i].localId}
      /\ p.due => q.due
  BY ZenonT(80), <1>2, SetMediaTo DEF MediaSet
<1>4. q.down = p.down /\ q.users = p.users /\ Sound(q) /\ OnlyOf(p, q, u)
  BY <1>3 DEF Redrawn, SameStreams
<1>5. TilesOpen(q)
  <2>1. i \in U!OpenAs(q, p.down[i].localId)
    BY <1>4 DEF U!OpenAs
  <2>2. \A l : U!OpenAs(q, l) = U!OpenAs(p, l)
    BY <1>4 DEF U!OpenAs
  <2>3. QED
    BY <2>1, <2>2, <1>2, <1>3 DEF TilesOpen
<1>6. RowOk(q, u)
  BY <1>1, <1>3, <1>4, RowOkFrom DEF Redrawn
<1>7. TileOk(q, u)
  <2>1. TileOk(p, u) /\ (u \in q.users => u \notin q.recentlyDeleted)
    BY <1>1, <1>3, <1>4 DEF SettledFor, TileOk
  <2>2. /\ q.down = p.down /\ p.tiles \subseteq q.tiles
        /\ q.recentlyDeleted \subseteq p.recentlyDeleted
    BY <1>3, <1>4
  <2> HIDE DEF u
  <2>3. QED
    BY ONLY <2>1, <2>2, TileOkFrom
<1>8. ShownOk(q, u)
  <2>1. ShownOk(p, u)
    BY <1>1 DEF SettledFor
  <2>2. QED
    BY ZenonT(80), <2>1, <1>3, <1>4, ShownOkFrom
<1>9. SettledFor(q, n, u)
  BY <1>6, <1>7, <1>8 DEF SettledFor
<1> HIDE DEF u
<1>10. QED
  BY <1>1, <1>4, <1>5, <1>9, OneUser

LEMMA ClosePage ==
  ASSUME U!ParticipantsAssumption, NEW p, NEW n, PageInv(p, n),
         NEW i \in U!Offers, p.down[i].open, NEW q, q = U!closeStream(p, i, FALSE)
  PROVE  PageInv(q, n)
<1> DEFINE u == p.down[i].owner
<1>1. /\ n = "joined" /\ p \in PageState /\ Ids(p) /\ u \in Members
      /\ RowThere(p, u) /\ SettledFor(p, n, u) /\ U!getUserStreams(p, u) = {i}
  BY OpenMeansJoined
<1>2. Sound(p) /\ TilesOpen(p)
  BY DEF PageInv
<1>3. /\ Sound(q) /\ TilesOpen(q) /\ OnlyOf(p, q, p.down[i].owner)
      /\ q.users = p.users
      /\ q.down[i] = U!Closed(p.down[i])
      /\ \A j \in U!Offers \ {i} : q.down[j] = p.down[j]
      /\ q.due \/ q.shown = p.shown
      /\ q.recentlyDeleted \subseteq p.recentlyDeleted
      /\ RowThere(p, p.down[i].owner) => RowOk(q, p.down[i].owner)
  <2>1. ClosedIn(p, q, i, FALSE)
    BY <1>2, CloseStreamTo
  <2>2. QED
    BY <2>1 DEF ClosedIn
<1>4. p.down[i] \in Stream
  BY <1>1, PageFields
<1>5. ~q.down[i].open
  BY <1>3, <1>4, ClosedLike
<1>6. U!getUserStreams(q, u) = {}
  BY ZenonT(80), <1>1, <1>3, <1>5 DEF U!getUserStreams
<1>7. TileOk(q, u)
  BY <1>1, <1>3, <1>6 DEF TileOk, SettledFor
<1>8. ShownOk(q, u)
  BY <1>1, <1>3, <1>6 DEF ShownOk, SettledFor, OnlyOf
<1>9. SettledFor(q, n, u)
  BY <1>1, <1>3, <1>7, <1>8 DEF SettledFor
<1>10. OnlyOf(p, q, u)
  BY <1>3
<1> HIDE DEF u
<1>11. QED
  BY <1>1, <1>3, <1>9, <1>10, OneUser

Changed(p, u) ==
    [p EXCEPT !.users = @ \cup {u},
              !.streamsOf[u] = IF u \in p.users THEN @ ELSE {}]

LEMMA ChangeUserPage ==
  ASSUME U!ParticipantsAssumption, NEW p, PageInv(p, "joined"), NEW u \in Members,
         NEW y, y = Changed(p, u), NEW q, q = U!gotUserChange(y, u)
  PROVE  PageInv(q, "joined")
<1>1. p \in PageState /\ Ids(p) /\ TimersOk(p) /\ TilesOpen(p)
        /\ SettledFor(p, "joined", u)
  BY DEF PageInv, Sound
<1> DEFINE e == [p.streamsOf EXCEPT ![u] = IF u \in p.users THEN p.streamsOf[u] ELSE {}]
<1>2. e \in [Members -> Summaries] /\ \A v \in Members \ {u} : e[v] = p.streamsOf[v]
  BY <1>1, PageFields DEF Summaries
<1> DEFINE g == p.users \cup {u}
<1>3. y = [p EXCEPT !.users = g, !.streamsOf = e]
  BY <1>1 DEF PageState, Changed
<1>30. g \subseteq Members
  BY <1>1, PageFields
<1> HIDE DEF e, g
<1>4. y \in PageState /\ y.users = g /\ y.streamsOf = e /\ y.down = p.down
  BY <1>1, <1>2, <1>3, <1>30 DEF PageState
<1>5. y.health = p.health /\ y.presence = p.presence /\ y.rows = p.rows
      /\ y.recentlyDeleted = p.recentlyDeleted /\ y.tiles = p.tiles
      /\ y.shown = p.shown /\ y.due = p.due
  BY <1>1, <1>3 DEF PageState
<1>6. Sound(y)
  BY <1>1, <1>4, <1>5, SameHealthFrom, IdsSame DEF Sound
<1>7. OnlyOf(p, y, u)
  <2>1. g = p.users \cup {u}
    BY DEF g
  <2>2. ASSUME NEW v
        PROVE  U!getUserStreams(y, v) = U!getUserStreams(p, v)
                 /\ U!PresenceOf(y, v) = U!PresenceOf(p, v)
    BY <1>4, <1>5 DEF U!getUserStreams, U!PresenceOf
  <2>3. ASSUME NEW j
        PROVE  U!getStreamConnectionHealth(y, j) = U!getStreamConnectionHealth(p, j)
    BY <1>4, <1>5 DEF U!getStreamConnectionHealth, U!HealthOf, U!iceConnectionState
  <2>4. QED
    BY <1>2, <1>4, <1>5, <2>1, <2>2, <2>3 DEF OnlyOf
<1>8. /\ Redrawn(y, q, u)
      /\ q.recentlyDeleted = y.recentlyDeleted \ {u}
      /\ q.shown = y.shown /\ q.tiles = y.tiles /\ q.due
  BY <1>6, UserChangeDoes
<1>9. OnlyOf(p, q, u)
  BY <1>7, <1>8, OnlyOfTrans DEF Redrawn
<1>10. q.down = p.down /\ u \in q.users /\ Sound(q) /\ q.tiles = p.tiles
  BY <1>4, <1>5, <1>8 DEF Redrawn, SameStreams, g
<1>11. RowOk(q, u)
  BY <1>4, <1>8, <1>10 DEF Redrawn, LookedAt, RowOk, RowThere, g
<1>12. TileOk(q, u)
  BY <1>1, <1>5, <1>8, <1>10, TileOkFrom DEF SettledFor
<1>13. SettledFor(q, "joined", u)
  BY <1>8, <1>11, <1>12 DEF SettledFor, ShownOk
<1>14. TilesOpen(q)
  BY <1>1, <1>10, TilesOpenSame
<1>15. QED
  BY <1>9, <1>10, <1>13, <1>14, OneUser

Announced(p, u) ==
    [p EXCEPT !.users = @ \cup {u}, !.streamsOf[u] = {},
              !.recentlyDeleted = @ \ {u},
              !.presence = U!Put(@, u, [U!PresenceOf(p, u) EXCEPT
                 !.transient = FALSE, !.waits = "no", !.snap = {}])]

LEMMA AddUserPage ==
  ASSUME U!ParticipantsAssumption, NEW p, PageInv(p, "joined"), NEW u \in Members,
         NEW y, y = Announced(p, u),
         NEW q, q = [U!refreshParticipantPresence(y, u) EXCEPT !.due = TRUE]
  PROVE  PageInv(q, "joined")
<1>1. p \in PageState /\ Ids(p) /\ TimersOk(p) /\ TilesOpen(p)
        /\ SettledFor(p, "joined", u)
  BY DEF PageInv, Sound
<1> DEFINE e == [p.streamsOf EXCEPT ![u] = {}]
           x == [U!PresenceOf(p, u) EXCEPT !.transient = FALSE, !.waits = "no", !.snap = {}]
           w == WithPresence(p, u, x)
           z == U!refreshParticipantPresence(y, u)
<1>2. e \in [Members -> Summaries] /\ \A v \in Members \ {u} : e[v] = p.streamsOf[v]
  BY <1>1, PageFields DEF Summaries
<1>3. x \in Presence
  <2>1. U!PresenceOf(p, u) \in Presence
    BY <1>1, PresenceTyped
  <2>2. {} \in Summaries
    BY DEF Summaries
  <2>3. QED
    BY <2>1, <2>2 DEF Presence
<1> DEFINE g == w.users \cup {u}
           d == w.recentlyDeleted \ {u}
<1>4. y = [w EXCEPT !.users = g, !.streamsOf = e, !.recentlyDeleted = d]
  BY <1>1 DEF PageState, WithPresence, Announced
<1> HIDE DEF e, x
<1>5. /\ w \in PageState
      /\ w.users = p.users /\ w.streamsOf = p.streamsOf /\ w.down = p.down
      /\ w.recentlyDeleted = p.recentlyDeleted /\ w.tiles = p.tiles
      /\ w.shown = p.shown /\ w.due = p.due /\ w.rows = p.rows
      /\ w.health = p.health
      /\ \A v \in Members \ {u} :
           /\ v \in DOMAIN w.presence <=> v \in DOMAIN p.presence
           /\ U!PresenceOf(w, v) = U!PresenceOf(p, v)
  <2>1. PresencePut(p, w, u, x)
    BY <1>1, <1>3, PutPresence
  <2>2. QED
    BY <2>1 DEF PresencePut
<1>50. g = p.users \cup {u} /\ d = p.recentlyDeleted \ {u}
  BY <1>5
<1>51. g \subseteq Members /\ d \subseteq Members
  BY <1>1, <1>50, PageFields
<1> HIDE DEF w, g, d
<1>52. /\ y \in PageState /\ y.users = g /\ y.streamsOf = e
       /\ y.down = w.down /\ y.recentlyDeleted = d
       /\ y.tiles = w.tiles /\ y.shown = w.shown /\ y.due = w.due
       /\ y.rows = w.rows /\ y.health = w.health /\ y.presence = w.presence
  BY ZenonT(80), <1>2, <1>4, <1>5, <1>51 DEF PageState
<1>6. /\ y \in PageState /\ y.users = p.users \cup {u} /\ y.streamsOf = e
      /\ y.down = p.down /\ y.recentlyDeleted = p.recentlyDeleted \ {u}
      /\ y.tiles = p.tiles /\ y.shown = p.shown /\ y.due = p.due
      /\ y.rows = p.rows /\ y.health = p.health /\ y.presence = w.presence
  BY <1>5, <1>50, <1>52
<1>7. Sound(y)
  BY <1>1, <1>6, SameHealthFrom, IdsSame DEF Sound
<1>8. OnlyOf(p, y, u)
  <2>1. ASSUME NEW v
        PROVE  U!getUserStreams(y, v) = U!getUserStreams(p, v)
                 /\ U!PresenceOf(y, v) = U!PresenceOf(w, v)
    BY <1>6 DEF U!getUserStreams, U!PresenceOf
  <2>2. ASSUME NEW j
        PROVE  U!getStreamConnectionHealth(y, j) = U!getStreamConnectionHealth(p, j)
    BY <1>6 DEF U!getStreamConnectionHealth, U!HealthOf, U!iceConnectionState
  <2>3. QED
    BY <1>2, <1>5, <1>6, <2>1, <2>2 DEF OnlyOf
<1>9. Redrawn(y, z, u) /\ SameView(y, z)
  BY <1>7, RefreshRedraws
<1> HIDE DEF z
<1>10. /\ q \in PageState /\ SameStreams(z, q) /\ SameKnown(z, q)
       /\ q.recentlyDeleted = z.recentlyDeleted /\ q.shown = z.shown
       /\ q.tiles = z.tiles /\ q.due
  <2>1. q = [z EXCEPT !.due = TRUE] /\ z \in PageState
    BY <1>9 DEF z, Redrawn, Sound
  <2>2. QED
    BY <2>1 DEF PageState, SameStreams, SameKnown
<1>11. Sound(q) /\ SameHealth(z, q)
  BY <1>9, <1>10, SoundSame DEF Redrawn
<1>12. OnlyOf(z, q, u)
  BY <1>10, OnlyOfView
<1>13. OnlyOf(p, q, u)
  BY <1>8, <1>9, <1>12, OnlyOfTrans DEF Redrawn
<1>14. LookedAt(y, q, u)
  BY <1>9, <1>10, <1>11, SeenBefore DEF Redrawn
<1>15. q.down = p.down /\ u \in q.users /\ q.tiles = p.tiles
       /\ q.recentlyDeleted = p.recentlyDeleted \ {u}
  BY <1>6, <1>9, <1>10 DEF Redrawn, SameStreams, SameView
<1>16. RowOk(q, u)
  BY <1>6, <1>14, <1>15 DEF LookedAt, RowOk, RowThere
<1>17. TileOk(q, u)
  BY <1>1, <1>15, TileOkFrom DEF SettledFor
<1>18. SettledFor(q, "joined", u)
  BY <1>10, <1>16, <1>17 DEF SettledFor, ShownOk
<1>19. TilesOpen(q)
  BY <1>1, <1>15, TilesOpenSame
<1>20. QED
  BY <1>11, <1>13, <1>18, <1>19, OneUser

LEMMA ForgetPage ==
  ASSUME NEW p, NEW n, PageInv(p, n), NEW u \in Members,
         NEW q, q = [p EXCEPT !.recentlyDeleted = @ \ {u}]
  PROVE  PageInv(q, n)
<1>1. p \in PageState /\ TilesOpen(p) /\ SettledFor(p, n, u) /\ Sound(p)
  BY DEF PageInv, Sound
<1>2. /\ q \in PageState /\ SameStreams(p, q) /\ SameKnown(p, q)
      /\ q.recentlyDeleted = p.recentlyDeleted \ {u} /\ q.shown = p.shown
      /\ q.tiles = p.tiles /\ q.due = p.due
  BY <1>1 DEF PageState, SameStreams, SameKnown
<1>3. Sound(q) /\ SameHealth(p, q)
  BY <1>1, <1>2, SoundSame
<1>4. OnlyOf(p, q, u)
  BY <1>2, OnlyOfView
<1>5. q.down = p.down /\ q.users = p.users
  BY <1>2 DEF SameStreams
<1>6. TilesOpen(q)
  BY <1>1, <1>2, <1>5, TilesOpenSame
<1>7. TileOk(q, u)
  BY <1>1, <1>2, <1>5, TileOkFrom DEF SettledFor
<1>8. n = "joined" => ShownOk(q, u)
  BY <1>1, <1>2, <1>5, ShownOkFrom DEF SettledFor
<1>9. n # "lost" => RowOk(q, u)
  <2>1. SUFFICES ASSUME RowOk(p, u) PROVE RowOk(q, u)
    BY <1>1 DEF SettledFor
  <2>2. RowIsCurrent(p, u) => RowIsCurrent(q, u)
    BY <1>2, <1>3, CurrentStays DEF SameKnown
  <2>3. q.rows = p.rows /\ U!PresenceOf(q, u) = U!PresenceOf(p, u)
    BY <1>2 DEF SameKnown, U!PresenceOf
  <2>4. QED
    BY <2>1, <2>2, <2>3, <1>5 DEF RowOk, RowThere
<1>10. SettledFor(q, n, u)
  BY <1>7, <1>8, <1>9 DEF SettledFor
<1>11. n # "joined" => Alone(q)
  BY <1>5 DEF PageInv, Alone
<1>12. QED
  BY <1>3, <1>4, <1>6, <1>10, <1>11, OneUser

(* A stream that changes but for its place: what is kept of it stays right.*)
LEMMA SoundLike ==
  ASSUME U!ParticipantsAssumption, NEW p, Sound(p), NEW q \in PageState,
         q.health = p.health,
         \A j \in U!Offers :
           /\ q.down[j].localId = p.down[j].localId
           /\ q.down[j].owner = p.down[j].owner
           /\ q.down[j].open <=> p.down[j].open
           /\ q.down[j].ice = p.down[j].ice
  PROVE  Sound(q) /\ \A l : U!OpenAs(q, l) = U!OpenAs(p, l)
<1>1. p \in PageState /\ Ids(p) /\ TimersOk(p)
  BY DEF Sound
<1>2. Ids(q)
  BY <1>1 DEF Ids
<1>3. TimerOf(q)
  <2>1. SUFFICES ASSUME NEW z \in DOMAIN p.health, p.health[z].timer # 0
                 PROVE  q.down[p.health[z].timer].localId = z
    BY DEF TimerOf
  <2>2. p.down[p.health[z].timer].localId = z
    BY <2>1, <1>1 DEF TimersOk, TimerOf
  <2>3. p.health[z].timer \in U!Offers
    <3>1. p.health[z] \in Health
      BY <1>1, PageFields
    <3>2. QED
      BY <3>1, <2>1 DEF Health, U!Offers, U!ParticipantsAssumption
  <2>4. QED
    BY <2>2, <2>3
<1>4. ASSUME NEW z \in U!Offers PROVE TimerSet(q, z)
  <2>1. TimerSet(p, z)
    BY <1>1 DEF TimersOk
  <2>2. QED
    BY <2>1 DEF TimerSet
<1>5. QED
  BY <1>2, <1>3, <1>4 DEF Sound, TimersOk, U!OpenAs

(* A user leaves: the tiles of the streams that are still open are taken   *)
(* away, one after the other (removeConferenceArtifactsForUser).           *)
Cleared(p, q, u) ==
    /\ Sound(q) /\ SameStreams(p, q) /\ OnlyOf(p, q, u)
    /\ q.recentlyDeleted = p.recentlyDeleted
    /\ q.tiles \subseteq p.tiles

LEMMA ClearedTrans ==
  ASSUME NEW p, NEW q, NEW r, NEW u, Cleared(p, q, u), Cleared(q, r, u)
  PROVE  Cleared(p, r, u)
<1>1. OnlyOf(p, r, u)
  BY OnlyOfTrans DEF Cleared
<1>2. QED
  BY <1>1 DEF Cleared, SameStreams

LEMMA ArtifactsDo ==
  ASSUME U!ParticipantsAssumption, NEW p, Sound(p), NEW u \in Members
  PROVE  Cleared(p, U!removeConferenceArtifactsForUser(p, u), u)
<1> DEFINE Values == {x \in PageState : Cleared(p, x, u)}
           start == [p EXCEPT !.shown[u] = IF @ = "placeholder" THEN "none" ELSE @]
           q[n \in 0..MaxOffers] ==
             IF n = 0
             THEN [p EXCEPT !.shown[u] = IF @ = "placeholder" THEN "none" ELSE @]
             ELSE IF n \in U!getUserStreams(p, u)
             THEN U!delMedia(q[n - 1], p.down[n].localId, u)
             ELSE q[n - 1]
           steps == [n \in 1..MaxOffers |-> [x \in Values |->
                       IF n \in U!getUserStreams(p, u)
                       THEN U!delMedia(x, p.down[n].localId, u) ELSE x]]
<1>1. U!removeConferenceArtifactsForUser(p, u) = q[MaxOffers]
  BY DEF U!removeConferenceArtifactsForUser
<1>2. ASSUME NEW n \in 1..MaxOffers, NEW x \in Values, n \in U!getUserStreams(p, u)
      PROVE  U!delMedia(x, p.down[n].localId, u) \in Values
  <2>1. /\ Cleared(p, x, u) /\ n \in U!Offers /\ p.down[n].open /\ p.down[n].owner = u
        /\ x.down = p.down /\ Sound(x)
    BY <1>2 DEF U!getUserStreams, Cleared, SameStreams
  <2>2. U!delMedia(x, p.down[n].localId, u)
          = U!delMedia(x, x.down[n].localId, x.down[n].owner)
    BY <2>1
  <2> DEFINE y == U!delMedia(x, x.down[n].localId, x.down[n].owner)
  <2>3. /\ Sound(y) /\ SameStreams(x, y) /\ OnlyOf(x, y, u)
        /\ y.recentlyDeleted = x.recentlyDeleted
        /\ y.tiles = x.tiles \ {x.down[n].localId}
    <3>1. x.down[n].open /\ x.down[n].owner = u
      BY <2>1
    <3>2. /\ Sound(y) /\ SameStreams(x, y) /\ OnlyOf(x, y, x.down[n].owner)
          /\ y.recentlyDeleted = x.recentlyDeleted
          /\ y.tiles = x.tiles \ {x.down[n].localId}
      BY <2>1, <3>1, DelOpenDoes
    <3>3. QED
      BY <3>1, <3>2
  <2> HIDE DEF y
  <2>4. Cleared(x, y, u)
    BY <2>3 DEF Cleared
  <2>5. Cleared(p, y, u) /\ y \in PageState
    BY <2>1, <2>3, <2>4, ClearedTrans DEF Sound
  <2>6. QED
    BY <2>2, <2>5 DEF y
<1>3. start \in Values
  <2>1. p \in PageState
    BY DEF Sound
  <2> DEFINE g == [p.shown EXCEPT ![u] = IF p.shown[u] = "placeholder" THEN "none"
                                         ELSE p.shown[u]]
  <2>2. /\ g \in [Members -> {"none", "tile", "placeholder"}]
        /\ \A v \in Members \ {u} : g[v] = p.shown[v]
    BY <2>1, PageFields
  <2>3. start = [p EXCEPT !.shown = g]
    BY <2>1 DEF PageState
  <2> HIDE DEF g, start
  <2>4. /\ start \in PageState /\ SameStreams(p, start) /\ SameKnown(p, start)
        /\ start.recentlyDeleted = p.recentlyDeleted /\ start.tiles = p.tiles
        /\ start.due = p.due /\ start.shown = g
    BY <2>1, <2>2, <2>3 DEF PageState, SameStreams, SameKnown
  <2>5. Sound(start)
    BY <2>4, SoundSame
  <2>6. OnlyOf(p, start, u)
    BY <2>2, <2>4, OnlyOfView
  <2>7. QED
    BY <2>4, <2>5, <2>6 DEF Cleared
<1>4. steps \in [1..MaxOffers -> [Values -> Values]]
  <2> HIDE DEF Values
  <2>1. QED
    BY <1>2
<1>5. \E g \in [0..MaxOffers -> Values] : IsRun(g, start, steps, MaxOffers)
  <2> HIDE DEF steps, Values, q, start
  <2>1. MaxOffers \in Nat
    BY DEF U!ParticipantsAssumption
  <2>2. QED
    BY <1>3, <1>4, <2>1, RunsOn
<1>6. PICK g \in [0..MaxOffers -> Values] :
         g[0] = start /\ \A n \in 1..MaxOffers : g[n] = steps[n][g[n - 1]]
  BY <1>5 DEF IsRun
<1>7. g = [n \in 0..MaxOffers |->
             IF n = 0
             THEN [p EXCEPT !.shown[u] = IF @ = "placeholder" THEN "none" ELSE @]
             ELSE IF n \in U!getUserStreams(p, u)
             THEN U!delMedia(g[n - 1], p.down[n].localId, u)
             ELSE g[n - 1]]
  <2> HIDE DEF Values
  <2>1. ASSUME NEW n \in 0..MaxOffers, n # 0
        PROVE  g[n] = IF n \in U!getUserStreams(p, u)
                      THEN U!delMedia(g[n - 1], p.down[n].localId, u) ELSE g[n - 1]
    <3>1. n \in 1..MaxOffers /\ g[n - 1] \in Values
      BY <2>1 DEF U!ParticipantsAssumption
    <3>2. QED
      BY <3>1, <1>6
  <2>2. QED
    BY <2>1, <1>6
<1>8. q = [n \in 0..MaxOffers |->
             IF n = 0
             THEN [p EXCEPT !.shown[u] = IF @ = "placeholder" THEN "none" ELSE @]
             ELSE IF n \in U!getUserStreams(p, u)
             THEN U!delMedia(q[n - 1], p.down[n].localId, u)
             ELSE q[n - 1]]
  BY <1>7
<1>9. \A n \in 0..MaxOffers : q[n] \in Values
  <2>1. 0 \in 0..MaxOffers /\ MaxOffers \in Nat
    BY DEF U!ParticipantsAssumption
  <2> HIDE DEF q, Values
  <2>10. q = [n \in 0..MaxOffers |->
                IF n = 0 THEN start
                ELSE IF n \in U!getUserStreams(p, u)
                THEN U!delMedia(q[n - 1], p.down[n].localId, u)
                ELSE q[n - 1]]
    BY <1>8
  <2> HIDE DEF start
  <2>2. q[0] \in Values
    BY <1>3, <2>1, <2>10
  <2>3. ASSUME NEW n \in 1..MaxOffers, q[n - 1] \in Values PROVE q[n] \in Values
    <3>1. q[n] = IF n \in U!getUserStreams(p, u)
                 THEN U!delMedia(q[n - 1], p.down[n].localId, u) ELSE q[n - 1]
      BY <2>1, <2>10
    <3>2. QED
      BY <3>1, <2>3, <1>2
  <2>4. QED
    BY <2>1, <2>2, <2>3, StaysIn
<1>10. q[MaxOffers] \in Values
  <2> HIDE DEF q, Values
  <2>1. QED
    BY <1>9 DEF U!ParticipantsAssumption
<1>11. QED
  BY <1>1, <1>10

(* A user leaves: the row, the presence and the tiles go.                  *)
Departed(p, u) ==
    [p EXCEPT !.users = @ \ {u}, !.streamsOf[u] = {},
              !.down = [i \in U!Offers |->
                 [p.down[i] EXCEPT !.orphan = @ \/ i \in U!getUserStreams(p, u)]]]

LEMMA DepartedDoes ==
  ASSUME U!ParticipantsAssumption, NEW p, Sound(p), NEW u \in Members,
         NEW q, q = Departed(p, u)
  PROVE  /\ Sound(q) /\ OnlyOf(p, q, u)
         /\ q.users = p.users \ {u}
         /\ q.tiles = p.tiles
         /\ \A l : U!OpenAs(q, l) = U!OpenAs(p, l)
         /\ \A i \in U!getUserStreams(q, u) : q.down[i].orphan
<1>1. p \in PageState
  BY DEF Sound
<1> DEFINE e == [p.streamsOf EXCEPT ![u] = {}]
           d == [i \in U!Offers |->
                  [p.down[i] EXCEPT !.orphan = p.down[i].orphan \/ i \in U!getUserStreams(p, u)]]
           g == p.users \ {u}
<1>2. e \in [Members -> Summaries] /\ \A v \in Members \ {u} : e[v] = p.streamsOf[v]
  BY <1>1, PageFields DEF Summaries
<1>3. ASSUME NEW i \in U!Offers
      PROVE  /\ d[i] \in Stream
             /\ d[i].localId = p.down[i].localId /\ d[i].owner = p.down[i].owner
             /\ d[i].open = p.down[i].open /\ d[i].ice = p.down[i].ice
             /\ i \in U!getUserStreams(p, u) => d[i].orphan
             /\ i \notin U!getUserStreams(p, u) => d[i] = p.down[i]
  <2>1. p.down[i] \in Stream
    BY <1>1, PageFields
  <2>2. CASE i \in U!getUserStreams(p, u)
    <3>1. d[i] = [p.down[i] EXCEPT !.orphan = TRUE]
      BY <2>2
    <3>2. QED
      BY <2>1, <2>2, <3>1 DEF Stream
  <2>3. CASE i \notin U!getUserStreams(p, u)
    <3>1. d[i] = [p.down[i] EXCEPT !.orphan = p.down[i].orphan]
      BY <2>1, <2>3 DEF Stream
    <3>2. d[i] = p.down[i]
      BY <2>1, <3>1 DEF Stream
    <3>3. QED
      BY <2>1, <2>3, <3>2
  <2>4. QED
    BY <2>2, <2>3
<1>4. g \subseteq Members
  BY <1>1, PageFields
<1>5. q = [p EXCEPT !.users = g, !.streamsOf = e, !.down = d]
  BY <1>1 DEF Departed, PageState
<1>6. d \in [U!Offers -> Stream]
  BY <1>3
<1>7. g = p.users \ {u}
  OBVIOUS
<1> HIDE DEF e, d, g
<1>8. /\ q \in PageState /\ q.users = g /\ q.streamsOf = e /\ q.down = d
      /\ q.presence = p.presence /\ q.rows = p.rows /\ q.health = p.health
      /\ q.recentlyDeleted = p.recentlyDeleted /\ q.tiles = p.tiles
      /\ q.shown = p.shown /\ q.due = p.due
  BY <1>1, <1>2, <1>4, <1>5, <1>6 DEF PageState
<1>9. Sound(q) /\ \A l : U!OpenAs(q, l) = U!OpenAs(p, l)
  BY <1>3, <1>8, SoundLike
<1>10. ASSUME NEW v PROVE U!getUserStreams(q, v) = U!getUserStreams(p, v)
  BY <1>3, <1>8 DEF U!getUserStreams
<1>11. ASSUME NEW v \in Members \ {u}, NEW j \in U!getUserStreams(p, v)
       PROVE  j \in U!Offers /\ q.down[j] = p.down[j]
  BY <1>3, <1>8, <1>11 DEF U!getUserStreams
<1>12. ASSUME NEW v \in Members \ {u}, NEW j \in U!getUserStreams(p, v)
       PROVE  U!getStreamConnectionHealth(q, j) = U!getStreamConnectionHealth(p, j)
  BY <1>8, <1>11, <1>12 DEF U!getStreamConnectionHealth, U!HealthOf, U!iceConnectionState
<1>13. OnlyOf(p, q, u)
  BY <1>2, <1>7, <1>8, <1>10, <1>11, <1>12 DEF OnlyOf, U!PresenceOf
<1>14. \A i \in U!getUserStreams(q, u) : q.down[i].orphan
  BY <1>3, <1>8, <1>10 DEF U!getUserStreams
<1>15. QED
  BY <1>7, <1>8, <1>9, <1>13, <1>14

LEMMA DelUserPage ==
  ASSUME U!ParticipantsAssumption, NEW p, PageInv(p, "joined"), NEW u \in Members,
         NEW y, y = Departed(p, u), NEW q, q = U!removeUser(y, u)
  PROVE  PageInv(q, "joined")
<1>1. Sound(p) /\ TilesOpen(p) /\ p \in PageState
  BY DEF PageInv, Sound
<1>2. /\ Sound(y) /\ OnlyOf(p, y, u)
      /\ y.users = p.users \ {u} /\ y.tiles = p.tiles
      /\ \A l : U!OpenAs(y, l) = U!OpenAs(p, l)
      /\ \A i \in U!getUserStreams(y, u) : y.down[i].orphan
  BY <1>1, DepartedDoes
<1> DEFINE z == U!removeConferenceArtifactsForUser(y, u)
           e == U!Without(z.presence, u)
           d == z.recentlyDeleted \cup {u}
           w == z.rows \ {u}
<1>3. Cleared(y, z, u)
  BY <1>2, ArtifactsDo
<1> HIDE DEF z
<1>4. Sound(z) /\ SameStreams(y, z) /\ OnlyOf(y, z, u) /\ z.tiles \subseteq y.tiles
        /\ z \in PageState
  BY <1>3 DEF Cleared, Sound
<1>5. q = [z EXCEPT !.recentlyDeleted = d, !.rows = w, !.presence = e, !.due = TRUE]
  BY <1>4 DEF U!removeUser, z, PageState
<1>6. e \in Presences
  <2>1. z.presence \in UNION {[Y -> Presence] : Y \in SUBSET Members}
    BY <1>4 DEF PageState, Presences
  <2>2. QED
    BY <2>1, WithoutTyped DEF Presences
<1>7. DOMAIN e = DOMAIN z.presence \ {u}
        /\ \A v \in DOMAIN z.presence \ {u} : e[v] = z.presence[v]
  BY DEF U!Without
<1>8. d \subseteq Members /\ w \subseteq Members
  BY <1>4, PageFields
<1>9. d = z.recentlyDeleted \cup {u} /\ w = z.rows \ {u}
  OBVIOUS
<1> HIDE DEF e, d, w
<1>10. /\ q \in PageState /\ q.users = z.users /\ q.streamsOf = z.streamsOf
            /\ q.down = z.down
       /\ q.presence = e /\ q.rows = w /\ q.health = z.health
       /\ q.recentlyDeleted = d /\ q.tiles = z.tiles
       /\ q.shown = z.shown /\ q.due
  BY ZenonT(80), <1>4, <1>5, <1>6, <1>8 DEF PageState
<1>11. Sound(q)
  BY <1>4, <1>10, SameHealthFrom, IdsSame DEF Sound
<1>12. /\ U!PresenceOf(q, u).snap = U!Unset
       /\ \A v \in Members \ {u} :
            /\ v \in DOMAIN q.presence <=> v \in DOMAIN z.presence
            /\ U!PresenceOf(q, v) = U!PresenceOf(z, v)
  BY <1>7, <1>10 DEF U!PresenceOf, U!NewPresence
<1>13. OnlyOf(z, q, u)
  <2>1. ASSUME NEW v PROVE U!getUserStreams(q, v) = U!getUserStreams(z, v)
    BY <1>10 DEF U!getUserStreams
  <2>2. ASSUME NEW j
        PROVE  U!getStreamConnectionHealth(q, j) = U!getStreamConnectionHealth(z, j)
    BY <1>10 DEF U!getStreamConnectionHealth, U!HealthOf, U!iceConnectionState
  <2>3. QED
    BY <1>9, <1>10, <1>12, <2>1, <2>2 DEF OnlyOf
<1>14. OnlyOf(p, q, u)
  <2>1. OnlyOf(p, z, u)
    BY <1>2, <1>4, OnlyOfTrans
  <2>2. QED
    BY <2>1, <1>13, OnlyOfTrans
<1>15. q.down = y.down /\ u \notin q.users /\ q.tiles \subseteq p.tiles
  BY <1>2, <1>4, <1>10 DEF SameStreams
<1>16. TilesOpen(q)
  BY <1>1, <1>2, <1>15 DEF TilesOpen, U!OpenAs
<1>17. TileOk(q, u)
  BY <1>2, <1>15 DEF TileOk, U!getUserStreams
<1>18. RowOk(q, u)
  BY <1>9, <1>10, <1>12, <1>15 DEF RowOk, RowThere
<1>19. SettledFor(q, "joined", u)
  BY <1>10, <1>17, <1>18 DEF SettledFor, ShownOk
<1>20. QED
  BY <1>11, <1>14, <1>16, <1>19, OneUser

LEMMA RecomputeOnly ==
  ASSUME NEW p, Sound(p), NEW u \in Members, NEW q, q = U!recomputeUserStreams(p, u)
  PROVE  /\ Sound(q) /\ OnlyOf(p, q, u)
         /\ q.users = p.users /\ q.down = p.down
         /\ SameKnown(p, q) /\ SameView(p, q)
<1>1. /\ q \in PageState
      /\ q.users = p.users /\ q.down = p.down
      /\ \A v \in Members \ {u} : q.streamsOf[v] = p.streamsOf[v]
      /\ SameKnown(p, q) /\ SameView(p, q)
  BY RecomputeDoes DEF Sound
<1>2. q.health = p.health /\ q.presence = p.presence /\ q.rows = p.rows
      /\ q.recentlyDeleted = p.recentlyDeleted /\ q.tiles = p.tiles
      /\ q.shown = p.shown /\ q.due = p.due
  BY <1>1 DEF SameKnown, SameView
<1>3. Sound(q)
  BY <1>1, <1>2, SameHealthFrom, IdsSame DEF Sound
<1>4. ASSUME NEW v
      PROVE  U!getUserStreams(q, v) = U!getUserStreams(p, v)
               /\ U!PresenceOf(q, v) = U!PresenceOf(p, v)
  BY <1>1, <1>2 DEF U!getUserStreams, U!PresenceOf
<1>5. ASSUME NEW j
      PROVE  U!getStreamConnectionHealth(q, j) = U!getStreamConnectionHealth(p, j)
  BY <1>1, <1>2 DEF U!getStreamConnectionHealth, U!HealthOf, U!iceConnectionState
<1>6. OnlyOf(p, q, u)
  BY <1>1, <1>2, <1>4, <1>5 DEF OnlyOf
<1>7. QED
  BY <1>1, <1>3, <1>6

(* Looking at a user once more leaves a page that is right as it was.      *)
LEMMA RefreshPage ==
  ASSUME U!ParticipantsAssumption, NEW p, NEW n, PageInv(p, n), NEW u \in Members,
         NEW q, q = U!refreshParticipantPresence(p, u)
  PROVE  PageInv(q, n)
<1>1. Sound(p) /\ TilesOpen(p) /\ SettledFor(p, n, u) /\ (n # "joined" => Alone(p))
  BY DEF PageInv
<1>2. Redrawn(p, q, u) /\ SameView(p, q)
  BY <1>1, RefreshRedraws
<1>3. /\ Sound(q) /\ OnlyOf(p, q, u) /\ LookedAt(p, q, u)
      /\ q.users = p.users /\ q.down = p.down /\ q.tiles = p.tiles
      /\ q.recentlyDeleted = p.recentlyDeleted /\ q.shown = p.shown /\ q.due = p.due
  BY <1>2 DEF Redrawn, SameStreams, SameView
<1>4. TilesOpen(q)
  BY <1>1, <1>3, TilesOpenSame
<1>5. n # "lost" => RowOk(q, u)
  BY <1>1, <1>3, RowOkFrom DEF SettledFor, RowOk
<1>6. TileOk(q, u)
  <2>1. TileOk(p, u) /\ (u \in q.users => u \notin q.recentlyDeleted)
    BY <1>1, <1>3 DEF SettledFor, TileOk
  <2>2. QED
    BY <2>1, <1>3, TileOkFrom
<1>7. n = "joined" => ShownOk(q, u)
  BY <1>1, <1>3, ShownOkFrom DEF SettledFor
<1>8. n # "joined" => Alone(q)
  BY <1>1, <1>3 DEF Alone
<1>9. QED
  BY <1>3, <1>4, <1>5, <1>6, <1>7, <1>8, OneUser DEF SettledFor

LEMMA UserChangePage ==
  ASSUME U!ParticipantsAssumption, NEW p, NEW n, PageInv(p, n), NEW u \in Members,
         NEW q, q = U!gotUserChange(p, u)
  PROVE  PageInv(q, n)
<1>1. Sound(p) /\ TilesOpen(p) /\ SettledFor(p, n, u) /\ (n # "joined" => Alone(p))
  BY DEF PageInv
<1>2. /\ Redrawn(p, q, u)
      /\ q.recentlyDeleted = p.recentlyDeleted \ {u}
      /\ q.tiles = p.tiles /\ q.due
  BY <1>1, UserChangeDoes
<1>3. /\ Sound(q) /\ OnlyOf(p, q, u) /\ LookedAt(p, q, u)
      /\ q.users = p.users /\ q.down = p.down
  BY <1>2 DEF Redrawn, SameStreams
<1>4. TilesOpen(q)
  BY <1>1, <1>2, <1>3, TilesOpenSame
<1>5. n # "lost" => RowOk(q, u)
  BY <1>1, <1>3, RowOkFrom DEF SettledFor, RowOk
<1>6. TileOk(q, u)
  <2>1. TileOk(p, u) /\ u \notin q.recentlyDeleted
    BY <1>1, <1>2 DEF SettledFor
  <2>2. QED
    BY <2>1, <1>2, <1>3, TileOkFrom
<1>7. n = "joined" => ShownOk(q, u)
  BY <1>2 DEF ShownOk
<1>8. n # "joined" => Alone(q)
  BY <1>1, <1>3 DEF Alone
<1>9. QED
  BY <1>3, <1>4, <1>5, <1>6, <1>7, <1>8, OneUser DEF SettledFor

LikeStreams(p, z) ==
    \A j \in U!Offers : /\ z.down[j].localId = p.down[j].localId
                        /\ z.down[j].owner = p.down[j].owner
                        /\ z.down[j].open = p.down[j].open
                        /\ z.down[j].orphan = p.down[j].orphan

(* The tracks of a stream have changed, and its owner is looked at.        *)
LEMMA TrackPage ==
  ASSUME U!ParticipantsAssumption, NEW p, NEW n, PageInv(p, n),
         NEW i \in U!Offers, p.down[i].open, NEW z, Sound(z),
         OnlyOf(p, z, p.down[i].owner),
         z.users = p.users, SameView(p, z), SameKnown(p, z),
         LikeStreams(p, z),
         NEW q, q = U!setMedia(z, i, TRUE)
  PROVE  PageInv(q, n)
<1> DEFINE u == p.down[i].owner
<1>1. /\ n = "joined" /\ p \in PageState /\ Ids(p) /\ u \in Members
      /\ RowThere(p, u) /\ SettledFor(p, n, u) /\ U!getUserStreams(p, u) = {i}
  BY OpenMeansJoined
<1>2. TilesOpen(p)
  BY DEF PageInv
<1>20. z.down[i].open
  BY DEF LikeStreams
<1>3. MediaSet(z, q, i, TRUE)
  BY <1>20, SetMediaTo
<1>4. z.down[i].owner = u /\ z.down[i].localId = p.down[i].localId
  BY DEF LikeStreams
<1>5. /\ Sound(q) /\ OnlyOf(z, q, u) /\ LookedAt(z, q, u)
      /\ q.users = z.users /\ q.down = z.down
      /\ q.recentlyDeleted = z.recentlyDeleted
      /\ q.tiles = z.tiles \cup {p.down[i].localId}
      /\ q.due
  BY <1>3, <1>4 DEF MediaSet, Redrawn, SameStreams
<1>6. z.recentlyDeleted = p.recentlyDeleted /\ z.tiles = p.tiles
      /\ z.rows = p.rows /\ z.presence = p.presence
  BY DEF SameView, SameKnown
<1>7. OnlyOf(p, q, u)
  BY <1>5, OnlyOfTrans
<1>8. RowOk(q, u)
  <2>1. RowThere(z, u)
    BY <1>1, <1>6 DEF RowThere, U!PresenceOf
  <2>2. QED
    BY <2>1, <1>5, RowOkFrom
<1>9. U!getUserStreams(q, u) = {i}
  <2>1. \A j \in U!Offers : /\ q.down[j].owner = p.down[j].owner
                           /\ q.down[j].open = p.down[j].open
    BY <1>5 DEF LikeStreams
  <2>2. U!getUserStreams(q, u) = U!getUserStreams(p, u)
    BY <2>1 DEF U!getUserStreams
  <2>3. QED
    BY <2>2, <1>1
<1>10. TileOk(q, u)
  <2>1. TileOk(p, u) /\ i \in U!getUserStreams(p, u)
    BY <1>1 DEF SettledFor
  <2>2. q.down[i].orphan = p.down[i].orphan /\ q.down[i].localId \in q.tiles
    BY <1>5 DEF LikeStreams
  <2>3. (u \in q.users <=> u \in p.users) /\ q.recentlyDeleted = p.recentlyDeleted
    BY <1>5, <1>6
  <2>4. QED
    BY <2>1, <2>2, <2>3, <1>9 DEF TileOk
<1>11. TilesOpen(q)
  <2>0. \A j \in U!Offers : /\ q.down[j].localId = p.down[j].localId
                           /\ q.down[j].open = p.down[j].open
    BY <1>5 DEF LikeStreams
  <2>1. \A l : U!OpenAs(q, l) = U!OpenAs(p, l)
    BY <2>0 DEF U!OpenAs
  <2>2. i \in U!OpenAs(q, p.down[i].localId)
    BY <2>1 DEF U!OpenAs
  <2>3. QED
    BY <2>1, <2>2, <1>2, <1>5, <1>6 DEF TilesOpen
<1>12. SettledFor(q, n, u)
  BY <1>5, <1>8, <1>10 DEF SettledFor, ShownOk
<1> HIDE DEF u
<1>13. QED
  BY <1>1, <1>5, <1>7, <1>11, <1>12, OneUser

(* A change of a stream that leaves it that of its owner.                  *)
LikeStream(c, x) ==
    /\ x \in Stream
    /\ x.open = c.open /\ x.owner = c.owner /\ x.localId = c.localId
    /\ x.orphan = c.orphan

LEMMA OnTrackPage ==
  ASSUME U!ParticipantsAssumption, NEW p, NEW n, PageInv(p, n),
         NEW i \in U!Offers, p.down[i].open,
         NEW x, LikeStream(p.down[i], x), x.ice = p.down[i].ice,
         NEW y, y = WithStream(p, i, x),
         NEW z, z = U!recomputeUserStreams(y, p.down[i].owner),
         NEW r, r = U!setMedia(z, i, TRUE)
  PROVE  PageInv(r, n) /\ PageInv(U!gotUserChange(r, p.down[i].owner), n)
<1> DEFINE u == p.down[i].owner
<1>1. u \in Members /\ Sound(p) /\ p \in PageState
  BY OpenMeansJoined DEF PageInv
<1>3. /\ x \in Stream /\ x.localId = p.down[i].localId /\ x.owner = u
      /\ x.open = p.down[i].open /\ x.ice = p.down[i].ice
      /\ x.orphan = p.down[i].orphan
  BY DEF LikeStream
<1>4. /\ y \in PageState /\ y.users = p.users
      /\ SameView(p, y) /\ SameKnown(p, y)
      /\ y.down[i] = x /\ \A j \in U!Offers \ {i} : y.down[j] = p.down[j]
      /\ OnlyOf(p, y, u)
  <2>1. StreamPut(p, y, i, x, u)
    BY <1>1, <1>3, WithStreamDoes
  <2>2. QED
    BY <2>1 DEF StreamPut
<1>5. \A j \in U!Offers : /\ y.down[j].localId = p.down[j].localId
                          /\ y.down[j].owner = p.down[j].owner
                          /\ y.down[j].open = p.down[j].open
                          /\ y.down[j].ice = p.down[j].ice
                          /\ y.down[j].orphan = p.down[j].orphan
  BY <1>3, <1>4
<1>6. Sound(y)
  BY <1>1, <1>4, <1>5, SoundLike DEF SameKnown
<1>7. /\ Sound(z) /\ OnlyOf(y, z, u)
      /\ z.users = y.users /\ z.down = y.down
      /\ SameKnown(y, z) /\ SameView(y, z)
  BY <1>1, <1>6, RecomputeOnly
<1>8. OnlyOf(p, z, u)
  BY <1>4, <1>7, OnlyOfTrans
<1>9. SameKnown(p, z) /\ SameView(p, z) /\ z.users = p.users
  BY <1>4, <1>7 DEF SameKnown, SameView
<1>10. LikeStreams(p, z)
  BY <1>5, <1>7 DEF LikeStreams
<1>11. PageInv(r, n)
  BY <1>7, <1>8, <1>9, <1>10, TrackPage
<1>12. PageInv(U!gotUserChange(r, u), n)
  BY <1>1, <1>11, UserChangePage
<1>13. QED
  BY <1>11, <1>12

LEMMA TrackLostPage ==
  ASSUME U!ParticipantsAssumption, NEW p, NEW n, PageInv(p, n),
         NEW i \in U!Offers, p.down[i].open,
         NEW x, LikeStream(p.down[i], x), x.ice = p.down[i].ice,
         NEW y, y = WithStream(p, i, x),
         NEW r, r = U!setMedia(y, i, TRUE)
  PROVE  PageInv(U!refreshParticipantPresence(r, p.down[i].owner), n)
<1> DEFINE u == p.down[i].owner
<1>1. u \in Members /\ Sound(p) /\ p \in PageState
  BY OpenMeansJoined DEF PageInv
<1>3. /\ x \in Stream /\ x.localId = p.down[i].localId /\ x.owner = u
      /\ x.open = p.down[i].open /\ x.ice = p.down[i].ice
      /\ x.orphan = p.down[i].orphan
  BY DEF LikeStream
<1>4. /\ y \in PageState /\ y.users = p.users
      /\ SameView(p, y) /\ SameKnown(p, y)
      /\ y.down[i] = x /\ \A j \in U!Offers \ {i} : y.down[j] = p.down[j]
      /\ OnlyOf(p, y, u)
  <2>1. StreamPut(p, y, i, x, u)
    BY <1>1, <1>3, WithStreamDoes
  <2>2. QED
    BY <2>1 DEF StreamPut
<1>5. \A j \in U!Offers : /\ y.down[j].localId = p.down[j].localId
                          /\ y.down[j].owner = p.down[j].owner
                          /\ y.down[j].open = p.down[j].open
                          /\ y.down[j].ice = p.down[j].ice
                          /\ y.down[j].orphan = p.down[j].orphan
  BY <1>3, <1>4
<1>6. Sound(y)
  BY <1>1, <1>4, <1>5, SoundLike DEF SameKnown
<1>70. LikeStreams(p, y)
  BY <1>5 DEF LikeStreams
<1>7. PageInv(r, n)
  BY <1>4, <1>6, <1>70, TrackPage
<1>8. QED
  BY <1>1, <1>7, RefreshPage

LEMMA IcePage ==
  ASSUME U!ParticipantsAssumption, NEW p, NEW n, PageInv(p, n),
         NEW i \in U!Offers, p.down[i].open,
         NEW x, LikeStream(p.down[i], x), x.stream = p.down[i].stream,
         x.tracks = p.down[i].tracks,
         NEW y, y = WithStream(p, i, x),
         NEW q, q = U!setMediaStatus(y, i)
  PROVE  PageInv(q, n)
<1> DEFINE u == p.down[i].owner
           l == p.down[i].localId
<1>1. /\ n = "joined" /\ p \in PageState /\ Ids(p) /\ u \in Members
      /\ RowThere(p, u) /\ SettledFor(p, n, u) /\ U!getUserStreams(p, u) = {i}
  BY OpenMeansJoined
<1>2. TilesOpen(p) /\ TimersOk(p)
  BY DEF PageInv, Sound
<1>4. /\ x \in Stream /\ x.localId = l /\ x.owner = u
      /\ x.open = p.down[i].open /\ x.orphan = p.down[i].orphan
      /\ x.stream = p.down[i].stream /\ x.tracks = p.down[i].tracks
  BY DEF LikeStream
<1>5. /\ y \in PageState /\ y.users = p.users /\ SameView(p, y) /\ SameKnown(p, y)
      /\ y.down[i] = x /\ \A j \in U!Offers \ {i} : y.down[j] = p.down[j]
      /\ OnlyOf(p, y, u)
  <2>1. StreamPut(p, y, i, x, u)
    BY <1>1, <1>4, WithStreamDoes
  <2>2. QED
    BY <2>1 DEF StreamPut
<1>6. \A j \in U!Offers : /\ y.down[j].localId = p.down[j].localId
                          /\ y.down[j].owner = p.down[j].owner
                          /\ y.down[j].open = p.down[j].open
                          /\ y.down[j].orphan = p.down[j].orphan
                          /\ y.down[j].stream = p.down[j].stream
                          /\ y.down[j].tracks = p.down[j].tracks
  BY <1>4, <1>5
<1>7. y.health = p.health /\ y.rows = p.rows /\ y.presence = p.presence
      /\ y.recentlyDeleted = p.recentlyDeleted /\ y.tiles = p.tiles
      /\ y.shown = p.shown /\ y.due = p.due
  BY <1>5 DEF SameKnown, SameView
<1>8. Ids(y)
  BY <1>1, <1>6 DEF Ids
<1>9. TimerOf(y)
  <2>1. SUFFICES ASSUME NEW z \in DOMAIN p.health, p.health[z].timer # 0
                 PROVE  y.down[p.health[z].timer].localId = z
    BY <1>7 DEF TimerOf
  <2>2. p.down[p.health[z].timer].localId = z
    BY <2>1, <1>2 DEF TimersOk, TimerOf
  <2>3. p.health[z].timer \in U!Offers
    <3>1. p.health[z] \in Health
      BY <1>1, PageFields
    <3>2. QED
      BY <3>1, <2>1 DEF Health, U!Offers, U!ParticipantsAssumption
  <2>4. QED
    BY <2>2, <2>3, <1>6
<1>10. ASSUME NEW z \in U!Offers, z # y.down[i].localId PROVE TimerSet(y, z)
  <2>1. TimerSet(p, z)
    BY <1>2 DEF TimersOk
  <2>2. QED
    BY <2>1, <1>5, <1>6, <1>7, <1>10 DEF TimerSet
<1>11. Redrawn(y, q, u) /\ SameView(y, q)
  <2>1. y.down[i].open /\ y.down[i].owner = u
    BY <1>6
  <2>2. Redrawn(y, q, y.down[i].owner) /\ SameView(y, q)
    BY <2>1, <1>5, <1>8, <1>9, <1>10, SetStatusDoes
  <2>3. QED
    BY <2>1, <2>2
<1>12. /\ Sound(q) /\ OnlyOf(y, q, u) /\ LookedAt(y, q, u)
       /\ q.users = p.users /\ q.down = y.down /\ q.tiles = p.tiles
       /\ q.recentlyDeleted = p.recentlyDeleted /\ q.shown = p.shown /\ q.due = p.due
  BY <1>5, <1>7, <1>11 DEF Redrawn, SameStreams, SameView
<1>13. OnlyOf(p, q, u)
  BY <1>5, <1>12, OnlyOfTrans
<1>14. RowOk(q, u)
  <2>1. RowThere(y, u) /\ q.users = y.users
    BY <1>1, <1>5, <1>7, <1>12 DEF RowThere, U!PresenceOf
  <2>2. QED
    BY <2>1, <1>12, RowOkFrom
<1>15. TilesOpen(q)
  BY <1>2, <1>6, <1>12 DEF TilesOpen, U!OpenAs
<1>16. ASSUME NEW j \in U!Offers
       PROVE  U!hasVideoTrack(q, j) <=> U!hasVideoTrack(p, j)
  BY <1>6, <1>12 DEF U!hasVideoTrack, U!Live
<1>17. U!getUserStreams(q, u) = U!getUserStreams(p, u)
  BY <1>6, <1>12 DEF U!getUserStreams
<1>18. TileOk(q, u)
  <2>1. TileOk(p, u)
    BY <1>1 DEF SettledFor
  <2>2. QED
    BY <2>1, <1>6, <1>12, <1>16, <1>17 DEF TileOk, U!getUserStreams
<1>19. ShownOk(q, u)
  <2>1. ShownOk(p, u)
    BY <1>1 DEF SettledFor
  <2>2. QED
    BY <2>1, <1>6, <1>12, <1>16, <1>17 DEF ShownOk, U!getUserStreams
<1>20. SettledFor(q, n, u)
  BY <1>14, <1>18, <1>19 DEF SettledFor
<1> HIDE DEF u, l
<1>21. QED
  BY <1>1, <1>12, <1>13, <1>15, <1>20, OneUser

(* Only how long a placeholder has been waiting is not what it was.        *)
WaitsLike(p, q) ==
    /\ SameStreams(p, q)
    /\ q.rows = p.rows /\ q.health = p.health
    /\ DOMAIN p.presence \subseteq DOMAIN q.presence
    /\ \A u \in Members : /\ U!PresenceOf(q, u).snap = U!PresenceOf(p, u).snap
                          /\ U!PresenceOf(q, u).transient = U!PresenceOf(p, u).transient
                          /\ U!PresenceOf(q, u).status = U!PresenceOf(p, u).status
                          /\ U!PresenceOf(q, u).audio = U!PresenceOf(p, u).audio

(* A placeholder depends on little of what is known.                       *)
LEMMA WaitsStay ==
  ASSUME NEW p, NEW q \in PageState, WaitsLike(p, q), Sound(p)
  PROVE  Sound(q) /\ \A u \in Members : RowOk(p, u) => RowOk(q, u)
<1>1. q.down = p.down /\ q.users = p.users /\ q.rows = p.rows /\ q.health = p.health
      /\ SameStreams(p, q)
  BY DEF WaitsLike, SameStreams
<1>2. SameHealth(p, q) /\ Sound(q)
  BY <1>1, SameHealthFrom, IdsSame DEF Sound
<1>3. ASSUME NEW u \in Members, RowOk(p, u) PROVE RowOk(q, u)
  <2>1. RowThere(q, u)
    BY <1>1, <1>3 DEF RowOk, RowThere, WaitsLike
  <2>2. ASSUME u \in q.users PROVE u \in q.rows /\ RowIsCurrent(q, u)
    <3>1. u \in p.rows /\ RowIsCurrent(p, u)
      BY <1>1, <1>3, <2>2 DEF RowOk
    <3>2. u \in DOMAIN p.presence /\ u \in DOMAIN q.presence
      BY <3>1 DEF RowIsCurrent, WaitsLike
    <3>3. /\ q.presence[u].snap = p.presence[u].snap
          /\ q.presence[u].transient = p.presence[u].transient
          /\ q.presence[u].status = p.presence[u].status
          /\ q.presence[u].audio = p.presence[u].audio
      BY <3>2 DEF U!PresenceOf, WaitsLike
    <3>4. /\ p.presence[u].status = U!getParticipantConnectionStatus(p, u)
          /\ p.presence[u].audio = U!participantHasAudio(p, u, p.presence[u].snap)
          /\ ~p.presence[u].transient
      BY <3>1 DEF RowIsCurrent
    <3>5. U!getParticipantConnectionStatus(q, u)
            = U!getParticipantConnectionStatus(p, u)
      BY <1>1, <1>2, SaysTheSame
    <3>6. U!participantHasAudio(q, u, p.presence[u].snap)
            = U!participantHasAudio(p, u, p.presence[u].snap)
      <4>1. U!participantHasAudio(q, u, p.presence[u].snap)
              <=> U!participantHasAudio(p, u, p.presence[u].snap)
        BY <1>1, <1>2, SaysTheSame
      <4>2. QED
        BY <4>1 DEF U!participantHasAudio
    <3>7. QED
      BY <3>1, <3>2, <3>3, <3>4, <3>5, <3>6, <1>1 DEF RowIsCurrent
  <2>3. QED
    BY <2>1, <2>2 DEF RowOk
<1>4. QED
  BY <1>2, <1>3

(* A page whose streams, tiles and roster are as they were, with the same  *)
(* said of every user: it is right in the same state of the connection.    *)
LEMMA SamePage ==
  ASSUME NEW p, NEW n, PageInv(p, n), NEW q, Sound(q), SameStreams(p, q),
         SameView(p, q),
         \A u \in Members : RowOk(p, u) => RowOk(q, u)
  PROVE  PageInv(q, n)
<1>1. /\ q.down = p.down /\ q.users = p.users /\ q.tiles = p.tiles
      /\ q.recentlyDeleted = p.recentlyDeleted /\ q.shown = p.shown /\ q.due = p.due
  BY DEF SameStreams, SameView
<1>2. TilesOpen(q)
  BY <1>1, TilesOpenSame DEF PageInv
<1>3. n # "joined" => Alone(q)
  BY <1>1 DEF PageInv, Alone
<1>4. ASSUME NEW u \in Members PROVE SettledFor(q, n, u)
  <2>1. SettledFor(p, n, u)
    BY DEF PageInv
  <2>2. TileOk(q, u)
    <3>1. TileOk(p, u) /\ (u \in q.users => u \notin q.recentlyDeleted)
      BY <2>1, <1>1 DEF SettledFor, TileOk
    <3>2. QED
      BY <3>1, <1>1, TileOkFrom
  <2>3. n = "joined" => ShownOk(q, u)
    BY <2>1, <1>1, ShownOkFrom DEF SettledFor
  <2>4. QED
    BY <2>1, <2>2, <2>3 DEF SettledFor
<1>5. QED
  BY <1>2, <1>3, <1>4 DEF PageInv

WaitedLong(p, u) == [p EXCEPT !.presence[u].waits = "long"]

LEMMA LongPage ==
  ASSUME NEW p, NEW n, PageInv(p, n), NEW u \in Members,
         U!PresenceOf(p, u).waits = "recent",
         NEW q, q = WaitedLong(p, u)
  PROVE  PageInv(q, n)
<1>1. p \in PageState /\ Sound(p)
  BY DEF PageInv, Sound
<1>2. u \in DOMAIN p.presence
  BY DEF U!PresenceOf, U!NewPresence
<1> DEFINE x == [p.presence[u] EXCEPT !.waits = "long"]
           g == [p.presence EXCEPT ![u] = x]
<1>3. p.presence[u] \in Presence
  BY <1>1, <1>2, PageFields
<1>4. /\ x \in Presence /\ x.snap = p.presence[u].snap
      /\ x.transient = p.presence[u].transient /\ x.status = p.presence[u].status
      /\ x.audio = p.presence[u].audio
  BY <1>3 DEF Presence
<1> HIDE DEF x
<1>5. /\ g \in Presences /\ DOMAIN g = DOMAIN p.presence /\ g[u] = x
      /\ \A v \in DOMAIN p.presence \ {u} : g[v] = p.presence[v]
  <2>1. p.presence \in [DOMAIN p.presence -> Presence]
          /\ DOMAIN p.presence \in SUBSET Members
    BY <1>1 DEF PageState, Presences
  <2>2. g \in [DOMAIN p.presence -> Presence]
    BY <2>1, <1>2, <1>4
  <2>3. g \in Presences
    BY <2>1, <2>2 DEF Presences
  <2>4. QED
    BY <2>1, <2>3, <1>2
<1>6. q = [p EXCEPT !.presence = g]
  BY <1>1 DEF WaitedLong, x, PageState
<1> HIDE DEF g
<1>7. /\ q \in PageState /\ SameStreams(p, q) /\ SameView(p, q)
      /\ q.rows = p.rows /\ q.health = p.health /\ q.presence = g
  BY <1>1, <1>5, <1>6 DEF PageState, SameStreams, SameView
<1>8. WaitsLike(p, q)
  BY <1>2, <1>4, <1>5, <1>7 DEF WaitsLike, U!PresenceOf
<1>9. Sound(q) /\ \A v \in Members : RowOk(p, v) => RowOk(q, v)
  BY <1>1, <1>7, <1>8, WaitsStay
<1>10. QED
  BY <1>7, <1>9, SamePage

MayJoin(p, u) ==
    \/ u \in p.users
    \/ u \notin p.recentlyDeleted /\ U!WithMedia(p, u) # {}

LEMMA JoinsIn ==
  ASSUME NEW p, NEW u \in Members
  PROVE  /\ MayJoin(p, u) => u \in U!getConferenceParticipants(p)
         /\ u \in p.recentlyDeleted /\ u \notin p.users
              => u \notin U!getConferenceParticipants(p)
  BY DEF MayJoin, U!getConferenceParticipants

LEMMA FramePage ==
  ASSUME NEW p, NEW n, PageInv(p, n), NEW q, q = U!runConferenceLayout(p)
  PROVE  PageInv(q, n)
<1> DEFINE in == U!getConferenceParticipants(p)
           kept == DOMAIN p.presence \cup {u \in in : U!CameraTile(p, u) = {}}
           g == [u \in kept |->
                  IF u \in in THEN [U!PresenceOf(p, u) EXCEPT !.waits = U!Waits(p, u)]
                  ELSE p.presence[u]]
           s == U!getConferenceLayoutPeers(p)
           z == UNION {U!CameraTile(p, u) : u \in in}
<1>1. p \in PageState /\ Sound(p) /\ TilesOpen(p)
  BY DEF PageInv, Sound
<1>2. in \subseteq Members
  BY DEF U!getConferenceParticipants
<1>3. ASSUME NEW u PROVE U!PresenceOf(p, u) \in Presence
  BY <1>1, PresenceTyped
<1>4. ASSUME NEW u PROVE U!Waits(p, u) \in {"no", "recent", "long"}
  <2>1. U!PresenceOf(p, u).waits \in {"no", "recent", "long"}
    BY <1>3 DEF Presence
  <2>2. QED
    BY <2>1 DEF U!Waits
<1>5. ASSUME NEW u
      PROVE  LET x == [U!PresenceOf(p, u) EXCEPT !.waits = U!Waits(p, u)]
             IN  /\ x \in Presence /\ x.snap = U!PresenceOf(p, u).snap
                 /\ x.transient = U!PresenceOf(p, u).transient
                 /\ x.status = U!PresenceOf(p, u).status
                 /\ x.audio = U!PresenceOf(p, u).audio
  BY <1>3, <1>4 DEF Presence
<1>6. kept \in SUBSET Members /\ DOMAIN p.presence \subseteq kept
  BY <1>1, <1>2, PageFields
<1>7. g \in Presences
  <2>1. ASSUME NEW u \in kept PROVE g[u] \in Presence
    BY <1>1, <1>5, PageFields
  <2> HIDE DEF kept
  <2>2. g \in [kept -> Presence]
    BY <2>1
  <2> HIDE DEF g
  <2>3. QED
    BY <2>2, <1>6 DEF Presences
<1>8. s \in [Members -> {"none", "tile", "placeholder"}]
  BY DEF U!getConferenceLayoutPeers
<1>9. z \subseteq p.tiles
  BY DEF U!CameraTile
<1>10. q = [p EXCEPT !.due = FALSE, !.shown = s, !.tiles = z, !.presence = g]
  BY DEF U!runConferenceLayout
<1>11. DOMAIN g = kept
  OBVIOUS
<1>12. \A u \in kept :
         /\ g[u].snap = U!PresenceOf(p, u).snap
         /\ g[u].transient = U!PresenceOf(p, u).transient
         /\ g[u].status = U!PresenceOf(p, u).status
         /\ g[u].audio = U!PresenceOf(p, u).audio
  <2>1. ASSUME NEW u \in kept, u \in in
        PROVE  g[u] = [U!PresenceOf(p, u) EXCEPT !.waits = U!Waits(p, u)]
    BY <2>1
  <2>2. ASSUME NEW u \in kept, u \notin in PROVE g[u] = U!PresenceOf(p, u)
    BY <2>2 DEF U!PresenceOf
  <2> HIDE DEF g, kept, in
  <2>3. QED
    BY <2>1, <2>2, <1>5
<1>13. \A u \in Members \ kept : u \notin DOMAIN p.presence
  OBVIOUS
<1> HIDE DEF g, kept, s, z
<1>14. z \subseteq U!Offers
  BY <1>1, <1>9, PageFields
<1>15. /\ q \in PageState /\ SameStreams(p, q)
       /\ q.rows = p.rows /\ q.health = p.health /\ q.presence = g
       /\ q.recentlyDeleted = p.recentlyDeleted /\ q.tiles = z /\ q.shown = s
       /\ ~q.due
  BY ZenonT(80), <1>1, <1>7, <1>8, <1>10, <1>14 DEF PageState, SameStreams
<1>16. WaitsLike(p, q)
  <2>1. \A u \in Members :
          /\ U!PresenceOf(q, u).snap = U!PresenceOf(p, u).snap
          /\ U!PresenceOf(q, u).transient = U!PresenceOf(p, u).transient
          /\ U!PresenceOf(q, u).status = U!PresenceOf(p, u).status
          /\ U!PresenceOf(q, u).audio = U!PresenceOf(p, u).audio
    BY <1>11, <1>12, <1>13, <1>15 DEF U!PresenceOf
  <2>2. QED
    BY <2>1, <1>6, <1>11, <1>15 DEF WaitsLike
<1>17. Sound(q) /\ \A u \in Members : RowOk(p, u) => RowOk(q, u)
  BY <1>1, <1>15, <1>16, WaitsStay
<1>18. q.down = p.down /\ q.users = p.users
  BY <1>15 DEF SameStreams
<1>19. TilesOpen(q)
  BY <1>1, <1>9, <1>15, <1>18, TilesOpenSame
<1>20. ASSUME NEW u \in Members, NEW i \in U!getUserStreams(p, u), TileOk(p, u),
              ~p.down[i].orphan, U!hasVideoTrack(p, i)
       PROVE  u \in in /\ p.down[i].localId \in U!CameraTile(p, u)
  <2>1. u \notin p.recentlyDeleted /\ p.down[i].localId \in p.tiles
    BY <1>20 DEF TileOk
  <2>2. i \in U!WithMedia(p, u)
    BY <1>20 DEF U!WithMedia, U!hasVideoTrack
  <2>3. u \in in
    BY <2>1, <2>2, JoinsIn DEF MayJoin
  <2>4. QED
    BY <2>1, <2>3, <1>20 DEF U!CameraTile
<1>21. ASSUME NEW u \in Members PROVE SettledFor(q, n, u)
  <2>1. SettledFor(p, n, u)
    BY DEF PageInv
  <2>2. TileOk(p, u)
    BY <2>1 DEF SettledFor
  <2>3. TileOk(q, u)
    <3>1. ASSUME NEW i \in U!getUserStreams(p, u), ~p.down[i].orphan
          PROVE  /\ u \notin p.recentlyDeleted
                 /\ U!hasVideoTrack(p, i) => p.down[i].localId \in z
      BY <3>1, <2>2, <1>20 DEF TileOk, z
    <3>2. U!getUserStreams(q, u) = U!getUserStreams(p, u)
      BY <1>18 DEF U!getUserStreams
    <3>3. \A i : U!hasVideoTrack(q, i) <=> U!hasVideoTrack(p, i)
      BY <1>18 DEF U!hasVideoTrack, U!Live
    <3>4. u \in q.users => u \notin q.recentlyDeleted
      BY <2>2, <1>15, <1>18 DEF TileOk
    <3>5. QED
      BY <3>1, <3>2, <3>3, <3>4, <1>15, <1>18 DEF TileOk
  <2>4. ShownOk(q, u)
    <3>1. ASSUME NEW i \in U!getUserStreams(p, u), ~p.down[i].orphan,
                 U!hasVideoTrack(p, i)
          PROVE  s[u] = "tile"
      BY <3>1, <2>2, <1>20 DEF s, U!getConferenceLayoutPeers
    <3>2. U!getUserStreams(q, u) = U!getUserStreams(p, u)
      BY <1>18 DEF U!getUserStreams
    <3>3. \A i : U!hasVideoTrack(q, i) <=> U!hasVideoTrack(p, i)
      BY <1>18 DEF U!hasVideoTrack, U!Live
    <3>4. u \in p.recentlyDeleted => s[u] = "none"
      <4>1. u \in p.recentlyDeleted => u \notin p.users
        BY <2>2 DEF TileOk
      <4>2. QED
        BY <4>1, JoinsIn DEF s, U!getConferenceLayoutPeers
    <3>5. QED
      BY <3>1, <3>2, <3>3, <3>4, <1>15, <1>18 DEF ShownOk
  <2>5. QED
    BY <2>1, <2>3, <2>4, <1>17 DEF SettledFor
<1>22. n # "joined" => Alone(q)
  BY <1>18 DEF PageInv, Alone
<1>23. QED
  BY <1>17, <1>19, <1>21, <1>22 DEF PageInv

(* The timer of a disconnected stream fires.                               *)
Graced(p, l) ==
    [p EXCEPT !.health = [p.health EXCEPT
       ![l] = [p.health[l] EXCEPT !.since = "over", !.timer = 0]]]

LEMMA GracedDoes ==
  ASSUME U!ParticipantsAssumption, NEW p, Sound(p), NEW l \in DOMAIN p.health,
         NEW y, y = Graced(p, l)
  PROVE  /\ Sound(y) /\ SameStreams(p, y) /\ SameView(p, y)
         /\ y.presence = p.presence /\ y.rows = p.rows
         /\ \A j \in U!Offers : p.down[j].localId # l
              \/ p.down[j].ice # "disconnected" =>
              U!getStreamConnectionHealth(y, j) = U!getStreamConnectionHealth(p, j)
<1> DEFINE x == [p.health[l] EXCEPT !.since = "over", !.timer = 0]
           g == [p.health EXCEPT ![l] = x]
<1>1. p \in PageState /\ Ids(p) /\ TimersOk(p)
  BY DEF Sound
<1>2. p.health[l] \in Health /\ p.health \in [DOMAIN p.health -> Health]
      /\ DOMAIN p.health \in SUBSET U!Offers
  BY <1>1, PageFields DEF PageState, Healths
<1>3. x \in Health /\ x.last = p.health[l].last /\ x.since = "over" /\ x.timer = 0
  <2>1. 0 \in 0..MaxOffers
    BY DEF U!ParticipantsAssumption
  <2>2. QED
    BY <1>2, <2>1 DEF Health
<1> HIDE DEF x
<1>4. /\ g \in Healths /\ DOMAIN g = DOMAIN p.health /\ g[l] = x
      /\ \A z \in DOMAIN p.health \ {l} : g[z] = p.health[z]
  <2>1. g \in [DOMAIN p.health -> Health]
    BY <1>2, <1>3
  <2>2. QED
    BY <1>2, <2>1 DEF Healths
<1>5. y = [p EXCEPT !.health = g]
  BY DEF Graced, x
<1> HIDE DEF g
<1>6. /\ y \in PageState /\ y.health = g /\ y.down = p.down
      /\ y.presence = p.presence /\ y.rows = p.rows
      /\ SameStreams(p, y) /\ SameView(p, y)
  BY <1>1, <1>4, <1>5 DEF PageState, SameStreams, SameView
<1>7. TimersOk(y)
  <2>1. TimerOf(y)
    BY <1>1, <1>3, <1>4, <1>6 DEF TimersOk, TimerOf
  <2>2. ASSUME NEW z \in U!Offers PROVE TimerSet(y, z)
    <3>1. TimerSet(p, z)
      BY <1>1 DEF TimersOk
    <3>2. CASE z = l
      BY <3>2, <1>3, <1>4, <1>6 DEF TimerSet
    <3>3. CASE z # l
      BY <3>1, <3>3, <1>4, <1>6 DEF TimerSet
    <3>4. QED
      BY <3>2, <3>3
  <2>3. QED
    BY <2>1, <2>2 DEF TimersOk
<1>8. Sound(y)
  BY <1>1, <1>6, <1>7, IdsSame DEF Sound
<1>9. ASSUME NEW j \in U!Offers, p.down[j].localId # l \/ p.down[j].ice # "disconnected"
      PROVE  U!getStreamConnectionHealth(y, j) = U!getStreamConnectionHealth(p, j)
  <2>1. U!iceConnectionState(y, j) = U!iceConnectionState(p, j)
    BY <1>6 DEF U!iceConnectionState
  <2>2. CASE p.down[j].localId # l
    <3>1. U!HealthOf(y, j) = U!HealthOf(p, j)
      BY <2>2, <1>4, <1>6 DEF U!HealthOf
    <3>2. QED
      BY <2>1, <3>1 DEF U!getStreamConnectionHealth
  <2>3. CASE p.down[j].localId = l /\ p.down[j].ice # "disconnected"
    <3>1. U!HealthOf(y, j).last = U!HealthOf(p, j).last
      BY <2>3, <1>3, <1>4, <1>6 DEF U!HealthOf
    <3>2. U!iceConnectionState(p, j) # "disconnected"
      BY <2>3 DEF U!iceConnectionState
    <3>3. QED
      BY <2>1, <3>1, <3>2 DEF U!getStreamConnectionHealth
  <2>4. QED
    BY <1>9, <2>2, <2>3
<1>10. QED
  BY <1>6, <1>8, <1>9

(* What a user's row says stays so while the streams say the same.         *)
LEMMA RowStays ==
  ASSUME NEW p, NEW q, SameStreams(p, q), SameHealth(p, q),
         q.presence = p.presence, q.rows = p.rows, NEW u, RowOk(p, u)
  PROVE  RowOk(q, u)
<1>1. q.users = p.users /\ U!PresenceOf(q, u) = U!PresenceOf(p, u)
  BY DEF SameStreams, U!PresenceOf
<1>2. RowIsCurrent(p, u) => RowIsCurrent(q, u)
  BY CurrentStays
<1>3. QED
  BY <1>1, <1>2 DEF RowOk, RowThere

LEMMA GracePage ==
  ASSUME U!ParticipantsAssumption, NEW p, NEW n, PageInv(p, n),
         NEW l \in DOMAIN p.health, p.health[l].since = "fresh",
         NEW y, y = Graced(p, l)
  PROVE  /\ p.health[l].timer = 0 => PageInv(y, n)
         /\ p.health[l].timer # 0 => PageInv(U!setMediaStatus(y, p.health[l].timer), n)
<1>1. p \in PageState /\ Ids(p) /\ TimersOk(p) /\ Sound(p) /\ TilesOpen(p)
  BY DEF PageInv, Sound
<1>2. /\ Sound(y) /\ SameStreams(p, y) /\ SameView(p, y)
      /\ y.presence = p.presence /\ y.rows = p.rows
      /\ \A j \in U!Offers : p.down[j].localId # l \/ p.down[j].ice # "disconnected" =>
           U!getStreamConnectionHealth(y, j) = U!getStreamConnectionHealth(p, j)
  BY <1>1, GracedDoes
<1>3. y.down = p.down /\ y.users = p.users /\ y.streamsOf = p.streamsOf
  BY <1>2 DEF SameStreams
<1>4. l \in U!Offers /\ p.health[l] \in Health
  BY <1>1, PageFields
<1>5. CASE p.health[l].timer = 0
  <2>1. ASSUME NEW j \in U!Offers, p.down[j].open
        PROVE  U!getStreamConnectionHealth(y, j) = U!getStreamConnectionHealth(p, j)
    <3>1. TimerSet(p, l)
      BY <1>1, <1>4 DEF TimersOk
    <3>2. p.down[j].localId # l \/ p.down[j].ice # "disconnected"
      BY <3>1, <2>1, <1>5 DEF TimerSet
    <3>3. QED
      BY <3>2, <1>2
  <2>2. SameHealth(p, y)
    BY <2>1 DEF SameHealth
  <2>3. \A u \in Members : RowOk(p, u) => RowOk(y, u)
    BY <2>2, <1>2, RowStays
  <2>4. PageInv(y, n)
    BY <2>3, <1>2, SamePage
  <2>5. QED
    BY <2>4, <1>5
<1>6. CASE p.health[l].timer # 0
  <2> DEFINE i == p.health[l].timer
             u == p.down[i].owner
             z == U!Asked(y, i)
             q == U!refreshParticipantPresence(z, u)
  <2>1. i \in U!Offers /\ p.down[i].localId = l
    <3>1. p.down[i].localId = l
      BY <1>1, <1>6 DEF TimersOk, TimerOf
    <3>2. i \in U!Offers
      BY <1>4, <1>6 DEF Health, U!Offers, U!ParticipantsAssumption
    <3>3. QED
      BY <3>1, <3>2
  <2>2. u \in Members /\ l # 0 /\ l \in U!Offers
    BY <2>1, <1>1, <1>4, PageFields DEF Stream, U!Offers, U!ParticipantsAssumption
  <2>3. ASSUME NEW v \in Members \ {u}, NEW j \in U!getUserStreams(p, v)
        PROVE  p.down[j].localId # l
    <3>1. j \in U!Offers /\ p.down[j].owner # u
      BY <2>3 DEF U!getUserStreams
    <3>2. QED
      BY <3>1, <2>1, <2>2, <1>1 DEF Ids
  <2> HIDE DEF i, u
  <2>4. /\ y \in PageState /\ Ids(y) /\ y.down[i].localId = l
    BY <1>2, <1>3, <2>1 DEF Sound
  <2>5. /\ OnlyHealth(y, z)
        /\ \A j \in U!Offers : y.down[j].localId # l =>
             U!getStreamConnectionHealth(z, j) = U!getStreamConnectionHealth(y, j)
        /\ TimerOf(y) => TimerOf(z)
        /\ \A k \in U!Offers : k # l /\ TimerSet(y, k) => TimerSet(z, k)
        /\ TimerSet(z, l)
    <3>1. y.down[i].localId # 0
      BY <2>2, <2>4
    <3> HIDE DEF z
    <3>2. z = U!Asked(y, i)
      BY DEF z
    <3>3. QED
      BY <3>1, <3>2, <2>1, <2>4, AskedDoes
  <2>6. U!setMediaStatus(y, i) = q
    BY <1>3 DEF U!setMediaStatus, u
  <2> HIDE DEF q
  <2>7. /\ z \in PageState /\ SameStreams(y, z) /\ SameView(y, z)
        /\ z.presence = y.presence /\ z.rows = y.rows
        /\ z.down = p.down /\ z.users = p.users /\ z.streamsOf = p.streamsOf
    BY <2>5, <1>3 DEF OnlyHealth, SameStreams
  <2> HIDE DEF z
  <2>8. Sound(z)
    <3>1. Ids(z)
      BY <2>7, <1>1, IdsSame
    <3>2. TimerOf(y) /\ \A k \in U!Offers : TimerSet(y, k)
      BY <1>2 DEF Sound, TimersOk
    <3>3. QED
      BY <3>1, <3>2, <2>5, <2>7 DEF Sound, TimersOk
  <2>9. /\ z.recentlyDeleted = p.recentlyDeleted /\ z.tiles = p.tiles
        /\ z.shown = p.shown /\ z.due = p.due
        /\ z.presence = p.presence /\ z.rows = p.rows
    BY <2>7, <1>2 DEF SameView
  <2>10. OnlyOf(p, z, u)
    <3>1. ASSUME NEW v
          PROVE  U!getUserStreams(z, v) = U!getUserStreams(p, v)
                   /\ U!PresenceOf(z, v) = U!PresenceOf(p, v)
      BY <2>7, <2>9 DEF U!getUserStreams, U!PresenceOf
    <3>2. ASSUME NEW v \in Members \ {u}, NEW j \in U!getUserStreams(p, v)
          PROVE  U!getStreamConnectionHealth(z, j) = U!getStreamConnectionHealth(p, j)
      <4>1. p.down[j].localId # l /\ j \in U!Offers
        BY <2>3, <3>2 DEF U!getUserStreams
      <4>2. U!getStreamConnectionHealth(y, j) = U!getStreamConnectionHealth(p, j)
        BY <4>1, <1>2
      <4>3. U!getStreamConnectionHealth(z, j) = U!getStreamConnectionHealth(y, j)
        BY <4>1, <1>3, <2>5
      <4>4. QED
        BY <4>2, <4>3
    <3>3. QED
      BY <3>1, <3>2, <2>7, <2>9 DEF OnlyOf
  <2>11. Redrawn(z, q, u) /\ SameView(z, q)
    BY <2>2, <2>8, RefreshRedraws DEF q
  <2>12. /\ Sound(q) /\ OnlyOf(z, q, u) /\ LookedAt(z, q, u)
         /\ q.users = z.users /\ q.down = p.down
         /\ q.recentlyDeleted = p.recentlyDeleted /\ q.tiles = p.tiles
         /\ q.shown = p.shown /\ q.due = p.due
    BY <2>7, <2>9, <2>11 DEF Redrawn, SameStreams, SameView
  <2>13. OnlyOf(p, q, u)
    BY <2>10, <2>12, OnlyOfTrans
  <2>14. SettledFor(p, n, u)
    BY <2>2 DEF PageInv
  <2>15. n # "lost" => RowOk(q, u)
    <3>1. SUFFICES ASSUME RowThere(p, u) PROVE RowOk(q, u)
      BY <2>14 DEF SettledFor, RowOk
    <3>2. RowThere(z, u)
      BY <3>1, <2>7, <2>9 DEF RowThere, U!PresenceOf
    <3>3. QED
      BY <3>2, <2>12, RowOkFrom
  <2>16. TileOk(q, u)
    <3>1. TileOk(p, u) /\ (u \in q.users => u \notin q.recentlyDeleted)
      BY <2>7, <2>12, <2>14 DEF SettledFor, TileOk
    <3>2. QED
      BY <3>1, <2>12, TileOkFrom
  <2>17. n = "joined" => ShownOk(q, u)
    <3>1. q.users = p.users
      BY <2>7, <2>12
    <3>2. QED
      BY <3>1, <2>12, <2>14, ShownOkFrom DEF SettledFor
  <2>18. SettledFor(q, n, u)
    BY <2>15, <2>16, <2>17 DEF SettledFor
  <2>19. TilesOpen(q)
    BY <2>12, <1>1, TilesOpenSame
  <2>20. n # "joined" => Alone(q)
    BY <2>7, <2>12 DEF PageInv, Alone
  <2>21. PageInv(q, n)
    BY <2>2, <2>12, <2>13, <2>18, <2>19, <2>20, OneUser
  <2>22. QED
    BY <2>6, <2>21, <1>6 DEF i
<1>7. QED
  BY <1>5, <1>6

(* A page that may take an offer of a user: the user's stream, if there    *)
(* was one, is closed, and its local id is free.                           *)
(* An offer is taken up by a record that was free, under the local id of   *)
(* the stream that it replaces or one of its own.                          *)
Taking(p, y, i, u, l) ==
    /\ Sound(y) /\ TilesOpen(y) /\ OnlyOf(p, y, u)
    /\ y.users = p.users
    /\ y.recentlyDeleted \subseteq p.recentlyDeleted
    /\ RowThere(y, u)
    /\ U!getUserStreams(y, u) = {} /\ U!OpenAs(y, l) = {}
    /\ l \in 1..i
    /\ \A j \in U!Offers : y.down[j].localId = l => y.down[j].owner = u
    /\ y.down[i].localId = 0
    /\ \A j \in 1..(i - 1) : y.down[j].localId # 0

Offered(u, l, orphan) ==
    [U!NoStream EXCEPT !.open = TRUE, !.owner = u, !.localId = l, !.orphan = orphan]

LEMMA TakingOld ==
  ASSUME U!ParticipantsAssumption, NEW p, PageInv(p, "joined"), NEW u \in Members,
         NEW i \in U!Offers, p.down[i].localId = 0,
         \A j \in 1..(i - 1) : p.down[j].localId # 0,
         NEW k \in U!Offers, p.down[k].open, p.down[k].owner = u,
         NEW y, ClosedIn(p, y, k, TRUE)
  PROVE  Taking(p, y, i, u, p.down[k].localId)
<1>2. /\ p \in PageState /\ Ids(p) /\ RowThere(p, u) /\ U!getUserStreams(p, u) = {k}
      /\ Sound(p) /\ TilesOpen(p)
  BY OpenMeansJoined DEF PageInv
<1>4. /\ Sound(y) /\ TilesOpen(y) /\ OnlyOf(p, y, p.down[k].owner)
      /\ y.users = p.users
      /\ y.down[k] = U!Closed(p.down[k])
      /\ \A j \in U!Offers \ {k} : y.down[j] = p.down[j]
      /\ y.recentlyDeleted \subseteq p.recentlyDeleted
      /\ RowThere(p, p.down[k].owner) => RowThere(y, p.down[k].owner)
  BY DEF ClosedIn
<1>5. OnlyOf(p, y, u) /\ RowThere(y, u)
  BY <1>2, <1>4
<1>6. /\ ~y.down[k].open /\ y.down[k].owner = p.down[k].owner
      /\ y.down[k].localId = p.down[k].localId
  <2>1. p.down[k] \in Stream
    BY <1>2, PageFields
  <2>2. QED
    BY <2>1, <1>4, ClosedLike
<1>7. U!getUserStreams(y, u) = {}
  <2>1. ASSUME NEW j \in U!Offers, y.down[j].open, y.down[j].owner = u PROVE FALSE
    <3>1. j # k
      BY <2>1, <1>6
    <3>2. p.down[j].open /\ p.down[j].owner = u
      BY <3>1, <2>1, <1>4
    <3>3. QED
      BY <3>1, <3>2, <1>2 DEF Ids
  <2>2. QED
    BY <2>1 DEF U!getUserStreams
<1>8. ASSUME NEW j \in U!Offers
      PROVE  /\ y.down[j].localId = p.down[j].localId
             /\ y.down[j].owner = p.down[j].owner
             /\ y.down[j].open => p.down[j].open /\ j # k
  <2>1. CASE j = k
    BY <2>1, <1>6
  <2>2. CASE j # k
    BY <2>2, <1>4
  <2>3. QED
    BY <2>1, <2>2
<1>9. U!OpenAs(y, p.down[k].localId) = {}
  BY <1>2, <1>8 DEF U!OpenAs, Ids
<1>10. p.down[k].localId \in 1..i
  <2>1. p.down[k].localId \in 0..k /\ p.down[k].localId # 0
    BY <1>2 DEF Ids
  <2>2. ~(i < k)
    BY <2>1, <1>2 DEF Ids
  <2>3. i \in Nat /\ k \in Nat
    BY DEF U!Offers
  <2>4. QED
    BY <2>1, <2>2, <2>3
<1>11. ASSUME NEW j \in U!Offers, y.down[j].localId = p.down[k].localId
       PROVE  y.down[j].owner = u
  <2>1. p.down[j].localId = p.down[k].localId /\ p.down[k].localId # 0
    BY <1>8, <1>10, <1>11
  <2>2. p.down[j].owner = p.down[k].owner
    BY <2>1, <1>2 DEF Ids
  <2>3. QED
    BY <2>2, <1>8
<1>12. y.down[i].localId = 0 /\ \A j \in 1..(i - 1) : y.down[j].localId # 0
  <2>1. \A j \in 1..(i - 1) : j \in U!Offers
    BY DEF U!Offers, U!ParticipantsAssumption
  <2>2. QED
    BY <2>1, <1>8
<1>13. QED
  BY <1>4, <1>5, <1>7, <1>9, <1>10, <1>11, <1>12 DEF Taking

LEMMA TakingNew ==
  ASSUME U!ParticipantsAssumption, NEW p, PageInv(p, "joined"), NEW u \in Members,
         NEW i \in U!Offers, p.down[i].localId = 0,
         \A j \in 1..(i - 1) : p.down[j].localId # 0, U!getUserStreams(p, u) = {}
  PROVE  Taking(p, p, i, u, i)
<1>1. p \in PageState /\ Ids(p) /\ Sound(p) /\ TilesOpen(p) /\ RowThere(p, u)
  BY DEF PageInv, Sound, SettledFor, RowOk
<1>2. OnlyOf(p, p, u)
  BY DEF OnlyOf
<1>3. ASSUME NEW j \in U!Offers, p.down[j].localId = i PROVE FALSE
  <2>1. p.down[j].localId \in 0..j /\ i \in Nat /\ j \in Nat /\ i # 0
    BY <1>1 DEF Ids, U!Offers
  <2>2. i < j \/ i = j
    BY <2>1, <1>3
  <2>3. p.down[i].localId # 0
    BY <2>1, <2>2, <1>1, <1>3 DEF Ids
  <2>4. QED
    BY <2>3
<1>4. U!OpenAs(p, i) = {}
  BY <1>3 DEF U!OpenAs
<1>5. i \in 1..i
  BY DEF U!Offers
<1>6. QED
  BY <1>1, <1>2, <1>3, <1>4, <1>5 DEF Taking

LEMMA OfferPage ==
  ASSUME U!ParticipantsAssumption, NEW p, PageInv(p, "joined"), NEW u \in Members,
         NEW i \in U!Offers, NEW l, NEW y, Taking(p, y, i, u, l),
         NEW x, x = Offered(u, l, u \in p.recentlyDeleted),
         NEW z, z = WithStream(y, i, x), NEW q, q = U!setMedia(z, i, FALSE)
  PROVE  PageInv(q, "joined")
<1>1. /\ y \in PageState /\ Ids(y) /\ TimersOk(y) /\ TilesOpen(y) /\ OnlyOf(p, y, u)
      /\ y.users = p.users
      /\ y.recentlyDeleted \subseteq p.recentlyDeleted
      /\ RowThere(y, u)
      /\ U!getUserStreams(y, u) = {} /\ U!OpenAs(y, l) = {}
      /\ l \in 1..i
      /\ \A j \in U!Offers : y.down[j].localId = l => y.down[j].owner = u
      /\ y.down[i].localId = 0
      /\ \A j \in 1..(i - 1) : y.down[j].localId # 0
  BY DEF Taking, Sound
<1>2. /\ x \in Stream /\ x.open /\ x.owner = u /\ x.localId = l
      /\ ~x.stream /\ x.ice = "new" /\ (x.orphan <=> u \in p.recentlyDeleted)
  <2>1. l \in 0..MaxOffers
    BY <1>1 DEF U!Offers, U!ParticipantsAssumption
  <2>2. U!NoStream \in Stream
    BY NoStreamTyped
  <2>3. ~U!NoStream.stream /\ U!NoStream.ice = "new"
    BY DEF U!NoStream
  <2> HIDE DEF U!NoStream
  <2>4. x \in Stream /\ x.open /\ x.owner = u /\ x.localId = l
    <3>1. (u \in p.recentlyDeleted) \in BOOLEAN
      OBVIOUS
    <3>2. QED
      BY <2>1, <2>2, <3>1 DEF Offered, Stream
  <2>5. ~x.stream /\ x.ice = "new"
    BY <2>2, <2>3 DEF Offered, Stream
  <2>6. x.orphan <=> u \in p.recentlyDeleted
    BY <2>2 DEF Offered, Stream
  <2>7. QED
    BY <2>4, <2>5, <2>6
<1>3. ~y.down[i].open
  BY <1>1 DEF Ids
<1> HIDE DEF Offered
<1>4. /\ z \in PageState /\ z.users = y.users /\ z.streamsOf = y.streamsOf
      /\ SameView(y, z) /\ SameKnown(y, z)
      /\ z.down[i] = x /\ \A j \in U!Offers \ {i} : z.down[j] = y.down[j]
      /\ OnlyOf(y, z, u)
  <2>1. StreamPut(y, z, i, x, u)
    BY <1>1, <1>2, <1>3, WithStreamDoes
  <2>2. QED
    BY <2>1 DEF StreamPut
<1>40. /\ z.down[i].open /\ z.down[i].owner = u /\ z.down[i].localId = l
       /\ z.down[i].ice = "new" /\ ~z.down[i].stream
       /\ z.down[i].orphan <=> u \in p.recentlyDeleted
  BY <1>2, <1>4
<1>41. l # 0 /\ i \in Nat /\ i # 0
  BY <1>1 DEF U!Offers
<1>5. /\ z.presence = y.presence /\ z.rows = y.rows /\ z.health = y.health
      /\ z.recentlyDeleted = y.recentlyDeleted /\ z.tiles = y.tiles
      /\ z.shown = y.shown /\ z.due = y.due
  BY <1>4 DEF SameKnown, SameView
<1>6. Ids(z)
  <2>1. i \in Nat /\ i # 0 /\ \A j \in U!Offers : j \in Nat
    BY DEF U!Offers
  <2>2. \A j \in U!Offers : z.down[j].localId \in 0..j
    BY <2>1, <1>1, <1>2, <1>4 DEF Ids
  <2>3. ASSUME NEW j \in U!Offers, NEW k \in U!Offers, j < k, z.down[k].localId # 0
        PROVE  z.down[j].localId # 0
    <3>1. CASE j = i
      BY <3>1, <1>40, <1>41
    <3>2. CASE j # i /\ k = i
      <4>1. j \in 1..(i - 1)
        BY <3>2, <2>3 DEF U!Offers, U!ParticipantsAssumption
      <4>2. QED
        BY <4>1, <3>2, <1>1, <1>4
    <3>3. CASE j # i /\ k # i
      BY <3>3, <2>3, <1>1, <1>4 DEF Ids
    <3>4. QED
      BY <3>1, <3>2, <3>3
  <2>4. \A j \in U!Offers : z.down[j].open => z.down[j].localId # 0
    BY <2>1, <1>1, <1>2, <1>4 DEF Ids
  <2>5. ASSUME NEW j \in U!Offers \ {i}, z.down[j].open
        PROVE  z.down[j].localId # l /\ z.down[j].owner # u
    BY <2>5, <1>1, <1>4 DEF U!OpenAs, U!getUserStreams
  <2>6. ASSUME NEW j \in U!Offers, NEW k \in U!Offers, z.down[j].open, z.down[k].open,
               j # k
        PROVE  z.down[j].localId # z.down[k].localId
                 /\ z.down[j].owner # z.down[k].owner
    <3>1. CASE j = i
      BY <3>1, <2>5, <2>6, <1>2, <1>4
    <3>2. CASE k = i
      BY <3>2, <2>5, <2>6, <1>2, <1>4
    <3>3. CASE j # i /\ k # i
      BY <3>3, <2>6, <1>1, <1>4 DEF Ids
    <3>4. QED
      BY <3>1, <3>2, <3>3
  <2>7. ASSUME NEW j \in U!Offers, NEW k \in U!Offers, z.down[j].localId # 0,
               z.down[j].localId = z.down[k].localId
        PROVE  z.down[j].owner = z.down[k].owner
    <3>1. CASE j = i
      BY <3>1, <2>7, <1>1, <1>2, <1>4
    <3>2. CASE k = i
      BY <3>2, <2>7, <1>1, <1>2, <1>4
    <3>3. CASE j # i /\ k # i
      BY <3>3, <2>7, <1>1, <1>4 DEF Ids
    <3>4. QED
      BY <3>1, <3>2, <3>3
  <2>8. QED
    BY <2>2, <2>3, <2>4, <2>6, <2>7 DEF Ids
<1>7. TimerOf(z)
  <2>1. SUFFICES ASSUME NEW k \in DOMAIN y.health, y.health[k].timer # 0
                 PROVE  z.down[y.health[k].timer].localId = k
    BY <1>5 DEF TimerOf
  <2>2. y.down[y.health[k].timer].localId = k
    BY <2>1, <1>1 DEF TimersOk, TimerOf
  <2>3. y.health[k].timer \in U!Offers /\ k # 0
    <3>1. y.health[k] \in Health /\ k \in U!Offers
      BY <2>1, <1>1, PageFields
    <3>2. QED
      BY <3>1, <2>1 DEF Health, U!Offers, U!ParticipantsAssumption
  <2>4. y.health[k].timer # i
    BY <2>2, <2>3, <1>1
  <2>5. QED
    BY <2>2, <2>3, <2>4, <1>4
<1>8. ASSUME NEW k \in U!Offers PROVE TimerSet(z, k)
  <2>1. TimerSet(y, k)
    BY <1>1 DEF TimersOk
  <2>2. QED
    BY <2>1, <1>2, <1>4, <1>5 DEF TimerSet
<1>9. Sound(z)
  BY <1>4, <1>6, <1>7, <1>8 DEF Sound, TimersOk
<1>10. z.down[i].open /\ z.down[i].owner = u /\ z.down[i].localId = l
  BY <1>2, <1>4
<1>11. l \notin z.tiles
  BY <1>1, <1>5 DEF TilesOpen
<1>12. MediaSet(z, q, i, FALSE)
  BY <1>9, <1>10, SetMediaTo
<1> HIDE DEF U!setMedia, WithStream
<1>13. /\ Redrawn(z, q, z.down[i].owner)
       /\ q.recentlyDeleted = z.recentlyDeleted
       /\ q.tiles = z.tiles \cup {z.down[i].localId}
       /\ q.due
  BY <1>10, <1>11, <1>12 DEF MediaSet
<1>14. /\ Sound(q) /\ OnlyOf(z, q, u) /\ LookedAt(z, q, u)
       /\ q.users = z.users /\ q.down = z.down
       /\ q.tiles = y.tiles \cup {l}
  BY <1>5, <1>10, <1>13 DEF Redrawn, SameStreams
<1>15. OnlyOf(p, q, u)
  <2>1. OnlyOf(p, z, u)
    BY <1>1, <1>4, OnlyOfTrans
  <2>2. QED
    BY <2>1, <1>14, OnlyOfTrans
<1>16. RowOk(q, u)
  <2>1. RowThere(z, u)
    BY <1>1, <1>4, <1>5 DEF RowThere, U!PresenceOf
  <2>2. QED
    BY <2>1, <1>14, RowOkFrom
<1>17. U!getUserStreams(q, u) = {i}
  <2>1. ASSUME NEW j \in U!Offers, j # i, q.down[j].open, q.down[j].owner = u
        PROVE  FALSE
    <3>1. q.down[j] = y.down[j]
      BY <2>1, <1>4, <1>14
    <3>2. j \in U!getUserStreams(y, u)
      BY <2>1, <3>1 DEF U!getUserStreams
    <3>3. QED
      BY <3>2, <1>1
  <2>2. q.down[i].open /\ q.down[i].owner = u
    BY <1>40, <1>14
  <2>3. QED
    BY <2>1, <2>2 DEF U!getUserStreams
<1>18. TileOk(q, u)
  <2>1. TileOk(p, u)
    BY DEF PageInv, SettledFor
  <2>2. q.recentlyDeleted \subseteq p.recentlyDeleted /\ q.users = p.users
    BY ZenonT(80), <1>1, <1>4, <1>5, <1>13, <1>14
  <2>3. (q.down[i].orphan <=> u \in p.recentlyDeleted) /\ ~q.down[i].stream
    BY <1>2, <1>4, <1>14, ZenonT(40)
  <2>4. u \in q.users => u \notin q.recentlyDeleted
    BY <2>1, <2>2 DEF TileOk
  <2>5. QED
    BY <2>2, <2>3, <2>4, <1>17 DEF TileOk, U!hasVideoTrack
<1>19. TilesOpen(q)
  <2>1. i \in U!OpenAs(q, l)
    BY <1>10, <1>14 DEF U!OpenAs
  <2>2. ASSUME NEW t \in y.tiles PROVE U!OpenAs(q, t) # {}
    <3>1. PICK j \in U!Offers : y.down[j].open /\ y.down[j].localId = t
      BY <2>2, <1>1 DEF TilesOpen, U!OpenAs
    <3>2. q.down[j].open /\ q.down[j].localId = t
      BY ZenonT(80), <3>1, <1>3, <1>4, <1>14
    <3>3. QED
      BY <3>1, <3>2 DEF U!OpenAs
  <2>3. QED
    BY <2>1, <2>2, <1>14 DEF TilesOpen
<1>20. SettledFor(q, "joined", u)
  BY <1>13, <1>16, <1>18 DEF SettledFor, ShownOk
<1>21. QED
  BY <1>14, <1>15, <1>19, <1>20, OneUser

(* A page whose roster is empty, while its streams are being closed.       *)
(* The socket is closed: every stream is closed, then the page forgets who *)
(* was there (gotClose).                                                   *)
Leaving(p) == Sound(p) /\ TilesOpen(p) /\ p.users = {}

LEMMA CloseOneOf ==
  ASSUME U!ParticipantsAssumption, NEW p, Leaving(p), NEW n \in U!Offers, p.down[n].open
  PROVE  /\ Leaving(U!closeStream(p, n, FALSE))
         /\ \A j \in U!Offers : U!closeStream(p, n, FALSE).down[j].open
              => j # n /\ p.down[j].open
<1> DEFINE q == U!closeStream(p, n, FALSE)
<1>1. ClosedIn(p, q, n, FALSE)
  BY CloseStreamTo DEF Leaving
<1> HIDE DEF q
<1>2. Leaving(q)
  BY <1>1 DEF ClosedIn, Leaving
<1>3. p.down[n] \in Stream
  BY PageFields DEF Leaving, Sound
<1>4. ~q.down[n].open
  BY <1>1, <1>3, ClosedLike DEF ClosedIn
<1>5. \A j \in U!Offers : q.down[j].open => j # n /\ p.down[j].open
  BY <1>1, <1>4 DEF ClosedIn
<1>6. QED
  BY <1>2, <1>5 DEF q

LEMMA CloseAll ==
  ASSUME U!ParticipantsAssumption, NEW p, Leaving(p)
  PROVE  Leaving(U!closeStreams(p)) /\ Alone(U!closeStreams(p))
<1> DEFINE Values == {x \in PageState : Leaving(x)}
           q[n \in 0..MaxOffers] ==
             IF n = 0 THEN p
             ELSE IF q[n - 1].down[n].open THEN U!closeStream(q[n - 1], n, FALSE)
             ELSE q[n - 1]
           steps == [n \in 1..MaxOffers |-> [x \in Values |->
                       IF x.down[n].open THEN U!closeStream(x, n, FALSE) ELSE x]]
<1>1. U!closeStreams(p) = q[MaxOffers]
  BY DEF U!closeStreams
<1>2. ASSUME NEW n \in 1..MaxOffers, NEW x \in Values, x.down[n].open
      PROVE  /\ U!closeStream(x, n, FALSE) \in Values
             /\ \A j \in U!Offers : U!closeStream(x, n, FALSE).down[j].open
                  => j # n /\ x.down[j].open
  <2>1. Leaving(x) /\ n \in U!Offers
    BY DEF U!Offers
  <2>2. /\ Leaving(U!closeStream(x, n, FALSE))
        /\ \A j \in U!Offers : U!closeStream(x, n, FALSE).down[j].open
             => j # n /\ x.down[j].open
    BY <2>1, <1>2, CloseOneOf
  <2>3. QED
    BY <2>2 DEF Leaving, Sound
<1>3. p \in Values
  BY DEF Leaving, Sound
<1>4. steps \in [1..MaxOffers -> [Values -> Values]]
  <2> HIDE DEF Values
  <2>1. QED
    BY <1>2
<1>5. \E g \in [0..MaxOffers -> Values] : IsRun(g, p, steps, MaxOffers)
  <2> HIDE DEF steps, Values, q
  <2>1. MaxOffers \in Nat
    BY DEF U!ParticipantsAssumption
  <2>2. QED
    BY <1>3, <1>4, <2>1, RunsOn
<1>6. PICK g \in [0..MaxOffers -> Values] :
         g[0] = p /\ \A n \in 1..MaxOffers : g[n] = steps[n][g[n - 1]]
  BY <1>5 DEF IsRun
<1>7. g = [n \in 0..MaxOffers |->
             IF n = 0 THEN p
             ELSE IF g[n - 1].down[n].open THEN U!closeStream(g[n - 1], n, FALSE)
             ELSE g[n - 1]]
  <2> HIDE DEF Values
  <2>1. ASSUME NEW n \in 0..MaxOffers, n # 0
        PROVE  g[n] = IF g[n - 1].down[n].open THEN U!closeStream(g[n - 1], n, FALSE)
                                               ELSE g[n - 1]
    <3>1. n \in 1..MaxOffers /\ g[n - 1] \in Values
      BY <2>1 DEF U!ParticipantsAssumption
    <3>2. QED
      BY <3>1, <1>6
  <2>2. QED
    BY <2>1, <1>6
<1>8. q = [n \in 0..MaxOffers |->
             IF n = 0 THEN p
             ELSE IF q[n - 1].down[n].open THEN U!closeStream(q[n - 1], n, FALSE)
             ELSE q[n - 1]]
  BY <1>7
<1> HIDE DEF q, Values, steps
<1> DEFINE T == {n \in Nat : n <= MaxOffers =>
                   q[n] \in Values /\ \A j \in 1..n : ~q[n].down[j].open}
<1>9. 0 \in T
  <2>1. 0 \in 0..MaxOffers /\ MaxOffers \in Nat
    BY DEF U!ParticipantsAssumption
  <2>2. q[0] = p
    BY <1>8, <2>1
  <2>3. QED
    BY <1>3, <2>2
<1>10. ASSUME NEW k \in Nat, k \in T PROVE k + 1 \in T
  <2>1. SUFFICES ASSUME k + 1 <= MaxOffers
                 PROVE  q[k + 1] \in Values
                          /\ \A j \in 1..(k + 1) : ~q[k + 1].down[j].open
    OBVIOUS
  <2>2. q[k] \in Values /\ \A j \in 1..k : ~q[k].down[j].open
    BY <1>10, <2>1 DEF U!ParticipantsAssumption
  <2>3. k + 1 \in 0..MaxOffers /\ k + 1 # 0 /\ (k + 1) - 1 = k /\ k + 1 \in 1..MaxOffers
        /\ \A j \in 1..(k + 1) : j \in U!Offers /\ (j \in 1..k \/ j = k + 1)
    BY <2>1 DEF U!Offers, U!ParticipantsAssumption
  <2>4. q[k + 1] = IF q[k].down[k + 1].open THEN U!closeStream(q[k], k + 1, FALSE)
                                            ELSE q[k]
    BY <1>8, <2>3
  <2>5. CASE q[k].down[k + 1].open
    <3>1. /\ U!closeStream(q[k], k + 1, FALSE) \in Values
          /\ \A j \in U!Offers : U!closeStream(q[k], k + 1, FALSE).down[j].open
               => j # k + 1 /\ q[k].down[j].open
      BY <1>2, <2>2, <2>3, <2>5
    <3>2. QED
      BY <3>1, <2>2, <2>3, <2>4, <2>5
  <2>6. CASE ~q[k].down[k + 1].open
    BY <2>2, <2>3, <2>4, <2>6
  <2>7. QED
    BY <2>5, <2>6
<1>11. Nat \subseteq T
  <2> HIDE DEF T
  <2>1. QED
    BY <1>9, <1>10, SetInduction
<1>12. q[MaxOffers] \in Values /\ \A j \in 1..MaxOffers : ~q[MaxOffers].down[j].open
  BY <1>11 DEF U!ParticipantsAssumption
<1>13. Leaving(q[MaxOffers])
  BY <1>12 DEF Values
<1>14. Alone(q[MaxOffers])
  BY <1>12, <1>13 DEF Alone, Leaving, U!Offers
<1>15. QED
  BY <1>1, <1>13, <1>14

LEMMA AlonePage ==
  ASSUME NEW p, Sound(p), TilesOpen(p), Alone(p)
  PROVE  PageInv(p, "lost")
<1>1. ASSUME NEW u \in Members PROVE SettledFor(p, "lost", u)
  BY DEF SettledFor, TileOk, Alone, U!getUserStreams
<1>2. QED
  BY <1>1 DEF PageInv

Emptied(p) == [p EXCEPT !.users = {}, !.streamsOf = [u \in Members |-> {}]]

LEMMA EmptiedLeaves ==
  ASSUME NEW p, NEW n, PageInv(p, n)
  PROVE  Leaving(Emptied(p))
<1> DEFINE q == Emptied(p)
           e == [u \in Members |-> {}]
<1>1. p \in PageState /\ Sound(p) /\ TilesOpen(p)
  BY DEF PageInv, Sound
<1>2. e \in [Members -> Summaries]
  BY DEF Summaries
<1>3. q = [p EXCEPT !.users = {}, !.streamsOf = e]
  BY DEF Emptied
<1> HIDE DEF q, e
<1>4. /\ q \in PageState /\ q.users = {} /\ q.down = p.down /\ q.health = p.health
      /\ q.tiles = p.tiles
  BY <1>1, <1>2, <1>3 DEF PageState
<1>5. Sound(q)
  BY <1>1, <1>4, SameHealthFrom, IdsSame DEF Sound
<1>6. TilesOpen(q)
  BY <1>1, <1>4, TilesOpenSame
<1>7. QED
  BY <1>4, <1>5, <1>6 DEF Leaving, q

LEMMA ClearedPresence ==
  ASSUME NEW p, Sound(p), TilesOpen(p), Alone(p), NEW q,
         q = U!clearParticipantPresence(p)
  PROVE  /\ Sound(q) /\ TilesOpen(q) /\ Alone(q)
         /\ q.rows = {} /\ DOMAIN q.presence = {}
<1>1. p \in PageState /\ Ids(p)
  BY DEF Sound
<1> DEFINE g == <<>>
<1>2. g \in Presences /\ g \in Healths /\ DOMAIN g = {}
  <2>1. g \in [{} -> Presence] /\ g \in [{} -> Health]
    OBVIOUS
  <2>2. QED
    BY <2>1 DEF Presences, Healths
<1>3. q = [p EXCEPT !.presence = g, !.rows = {}, !.health = g, !.recentlyDeleted = {}]
  BY DEF U!clearParticipantPresence
<1> HIDE DEF g
<1>4. /\ q \in PageState /\ q.presence = g /\ q.rows = {} /\ q.health = g
      /\ q.users = p.users /\ q.down = p.down /\ q.tiles = p.tiles
  BY <1>1, <1>2, <1>3 DEF PageState
<1>5. TimersOk(q)
  BY <1>2, <1>4 DEF TimersOk, TimerOf, TimerSet
<1>6. Sound(q)
  BY <1>1, <1>4, <1>5, IdsSame DEF Sound
<1>7. TilesOpen(q) /\ Alone(q)
  BY <1>4, TilesOpenSame DEF Alone
<1>8. QED
  BY <1>2, <1>4, <1>6, <1>7

LEMMA ClosedPage ==
  ASSUME U!ParticipantsAssumption, NEW p, NEW n, PageInv(p, n),
         NEW q, q = U!closeStreams(Emptied(p))
  PROVE  /\ PageInv(q, "lost")
         /\ PageInv(U!clearConferenceUi(U!clearParticipantPresence(q)), "lost")
<1>1. Leaving(q) /\ Alone(q)
  BY EmptiedLeaves, CloseAll
<1> DEFINE z == U!clearParticipantPresence(q)
           r == U!clearConferenceUi(z)
           e == [u \in Members |-> "none"]
<1> HIDE DEF U!closeStreams
<1>2. Sound(z) /\ TilesOpen(z) /\ Alone(z)
  BY <1>1, ClearedPresence DEF Leaving
<1> HIDE DEF z
<1>3. r = [z EXCEPT !.tiles = {}, !.shown = e]
  BY DEF U!clearConferenceUi
<1>4. e \in [Members -> {"none", "tile", "placeholder"}]
  OBVIOUS
<1> HIDE DEF e, r
<1>5. /\ r \in PageState /\ r.users = z.users /\ r.down = z.down /\ r.tiles = {}
      /\ r.health = z.health
  BY <1>2, <1>3, <1>4 DEF PageState, Sound
<1>6. Sound(r)
  BY <1>2, <1>5, SameHealthFrom, IdsSame DEF Sound
<1>7. TilesOpen(r) /\ Alone(r)
  BY <1>2, <1>5 DEF TilesOpen, Alone
<1>8. PageInv(r, "lost") /\ PageInv(q, "lost")
  BY <1>1, <1>6, <1>7, AlonePage DEF Leaving
<1>9. QED
  BY <1>8 DEF r, z

LEMMA ConnectedPage ==
  ASSUME NEW p, PageInv(p, "lost"), NEW q, q = U!clearParticipantPresence(p)
  PROVE  PageInv(q, "joining")
<1>1. Sound(p) /\ TilesOpen(p) /\ Alone(p)
  BY DEF PageInv
<1>2. /\ Sound(q) /\ TilesOpen(q) /\ Alone(q)
      /\ q.rows = {} /\ DOMAIN q.presence = {}
  BY <1>1, ClearedPresence
<1>3. ASSUME NEW u \in Members PROVE SettledFor(q, "joining", u)
  <2>1. TileOk(q, u)
    BY <1>2 DEF TileOk, Alone, U!getUserStreams
  <2>2. RowOk(q, u)
    BY <1>2 DEF RowOk, RowThere, Alone, U!PresenceOf, U!NewPresence
  <2>3. QED
    BY <2>1, <2>2 DEF SettledFor
<1>4. QED
  BY <1>2, <1>3 DEF PageInv

LEMMA OwnPage ==
  ASSUME NEW p, PageInv(p, "joining"), NEW q, q = [p EXCEPT !.due = TRUE]
  PROVE  PageInv(q, "joined")
<1>1. p \in PageState /\ Sound(p) /\ TilesOpen(p)
  BY DEF PageInv, Sound
<1>2. /\ q \in PageState /\ SameStreams(p, q) /\ SameKnown(p, q)
      /\ q.recentlyDeleted = p.recentlyDeleted /\ q.tiles = p.tiles
      /\ q.presence = p.presence /\ q.rows = p.rows /\ q.due
  BY <1>1 DEF PageState, SameStreams, SameKnown
<1>3. Sound(q) /\ SameHealth(p, q)
  BY <1>1, <1>2, SoundSame
<1>4. q.down = p.down /\ q.users = p.users
  BY <1>2 DEF SameStreams
<1>5. TilesOpen(q)
  BY <1>1, <1>2, <1>4, TilesOpenSame
<1>6. ASSUME NEW u \in Members PROVE SettledFor(q, "joined", u)
  <2>1. TileOk(p, u) /\ RowOk(p, u)
    BY DEF PageInv, SettledFor
  <2>2. TileOk(q, u)
    <3>1. u \in q.users => u \notin q.recentlyDeleted
      BY <2>1, <1>2, <1>4 DEF TileOk
    <3>2. QED
      BY <3>1, <2>1, <1>2, <1>4, TileOkFrom
  <2>3. RowOk(q, u)
    BY <2>1, <1>2, <1>3, RowStays
  <2>4. QED
    BY <2>2, <2>3, <1>2 DEF SettledFor, ShownOk
<1>7. QED
  BY <1>3, <1>5, <1>6 DEF PageInv

(* The first page, and the steps of the specification.                     *)
LEMMA FirstPage ==
  ASSUME U!ParticipantsAssumption, U!Init
  PROVE  PageInv(pg, "joined")
<1> DEFINE g == <<>>
           e == [u \in Members |-> "none"]
           s == [u \in Members |-> {}]
           d == [i \in U!Offers |-> U!NoStream]
<1>1. g \in Presences /\ g \in Healths /\ DOMAIN g = {}
  <2>1. g \in [{} -> Presence] /\ g \in [{} -> Health]
    OBVIOUS
  <2>2. QED
    BY <2>1 DEF Presences, Healths
<1>2. e \in [Members -> {"none", "tile", "placeholder"}] /\ s \in [Members -> Summaries]
  BY DEF Summaries
<1>3. d \in [U!Offers -> Stream] /\ \A i \in U!Offers : ~d[i].open /\ d[i].localId = 0
  <2>1. U!NoStream \in Stream
    BY NoStreamTyped
  <2>2. ~U!NoStream.open /\ U!NoStream.localId = 0
    BY DEF U!NoStream
  <2> HIDE DEF U!NoStream
  <2>3. QED
    BY <2>1, <2>2
<1>4. pg = [users |-> {}, streamsOf |-> s, down |-> d, presence |-> g, rows |-> {},
            recentlyDeleted |-> {}, tiles |-> {}, shown |-> e, health |-> g, due |-> TRUE]
  BY DEF U!Init
<1> HIDE DEF g, e, s, d
<1>5. /\ pg \in PageState /\ pg.users = {} /\ pg.down = d /\ pg.presence = g
           /\ pg.rows = {}
      /\ pg.tiles = {} /\ pg.health = g /\ pg.due
  BY <1>1, <1>2, <1>3, <1>4 DEF PageState
<1>6. Ids(pg)
  BY <1>3, <1>5 DEF Ids, U!Offers
<1>7. Sound(pg)
  BY <1>1, <1>5, <1>6 DEF Sound, TimersOk, TimerOf, TimerSet
<1>8. TilesOpen(pg)
  BY <1>5 DEF TilesOpen
<1>9. ASSUME NEW u \in Members PROVE SettledFor(pg, "joined", u)
  <2>1. TileOk(pg, u)
    BY <1>3, <1>5 DEF TileOk, U!getUserStreams
  <2>2. RowOk(pg, u)
    BY <1>1, <1>5 DEF RowOk, RowThere, U!PresenceOf, U!NewPresence
  <2>3. QED
    BY <2>1, <2>2, <1>5 DEF SettledFor, ShownOk
<1>10. QED
  BY <1>7, <1>8, <1>9 DEF PageInv

LEMMA GotOfferPage ==
  ASSUME U!ParticipantsAssumption, PageInv(pg, net), NEW u \in Members,
         NEW i \in U!Offers,
         U!gotOffer(u, i)
  PROVE  PageInv(pg', net')
<1>1. /\ net = "joined" /\ net' = net /\ PageInv(pg, "joined")
      /\ pg.down[i].localId = 0
      /\ \A j \in 1..(i - 1) : pg.down[j].localId # 0
  BY DEF U!gotOffer
<1> DEFINE old == U!getUserStreams(pg, u)
           k == CHOOSE j \in old : TRUE
           y == IF old = {} THEN pg ELSE U!closeStream(pg, k, TRUE)
           l == IF old = {} THEN i ELSE pg.down[k].localId
           x == Offered(u, l, u \in pg.recentlyDeleted)
           z == WithStream(y, i, x)
<1>2. pg' = U!setMedia([y EXCEPT !.down[i] = x], i, FALSE)
  BY DEF U!gotOffer, Offered
<1>3. Taking(pg, y, i, u, l)
  <2>1. CASE old = {}
    <3>1. y = pg /\ l = i
      BY <2>1
    <3>2. Taking(pg, pg, i, u, i)
      BY <1>1, <2>1, TakingNew
    <3>3. QED
      BY <3>1, <3>2
  <2>2. CASE old # {}
    <3>1. k \in old /\ k \in U!Offers /\ pg.down[k].open /\ pg.down[k].owner = u
      BY <2>2 DEF U!getUserStreams
    <3> HIDE DEF k
    <3>2. y = U!closeStream(pg, k, TRUE) /\ l = pg.down[k].localId
      BY <2>2
    <3>3. ClosedIn(pg, U!closeStream(pg, k, TRUE), k, TRUE)
      BY <3>1, <1>1, CloseStreamTo DEF PageInv
    <3> HIDE DEF old, y, l
    <3>4. ClosedIn(pg, y, k, TRUE)
      BY <3>2, <3>3
    <3>5. Taking(pg, y, i, u, pg.down[k].localId)
      BY <3>1, <3>4, <1>1, TakingOld
    <3>6. QED
      BY <3>2, <3>5
  <2>3. QED
    BY <2>1, <2>2
<1> HIDE DEF y, l, x
<1>4. [y EXCEPT !.down[i] = x] = z
  BY DEF WithStream
<1>5. pg' = U!setMedia(z, i, FALSE)
  BY <1>2, <1>4
<1>6. x = Offered(u, l, u \in pg.recentlyDeleted) /\ z = WithStream(y, i, x)
  BY DEF x
<1> HIDE DEF z
<1>7. PageInv(pg', "joined")
  BY <1>1, <1>3, <1>5, <1>6, OfferPage
<1>8. QED
  BY <1>1, <1>7

LEMMA RosterPages ==
  ASSUME U!ParticipantsAssumption, PageInv(pg, net), NEW u \in Members,
         U!addUser(u) \/ U!changeUser(u) \/ U!delUser(u) \/ U!ForgetDeleted(u)
           \/ U!PlaceholderGraceOver(u)
  PROVE  PageInv(pg', net')
<1>1. CASE U!addUser(u)
  <2>1. net = "joined" /\ net' = net /\ PageInv(pg, "joined")
    BY <1>1 DEF U!addUser
  <2>2. pg' = [U!refreshParticipantPresence(Announced(pg, u), u) EXCEPT !.due = TRUE]
    BY <1>1 DEF U!addUser, Announced
  <2>3. QED
    BY <2>1, <2>2, AddUserPage
<1>2. CASE U!changeUser(u)
  <2>1. net = "joined" /\ net' = net /\ PageInv(pg, "joined")
    BY <1>2 DEF U!changeUser
  <2>2. pg' = U!gotUserChange(Changed(pg, u), u)
    BY <1>2 DEF U!changeUser, Changed
  <2>3. QED
    BY <2>1, <2>2, ChangeUserPage
<1>3. CASE U!delUser(u)
  <2>1. net = "joined" /\ net' = net /\ PageInv(pg, "joined") /\ u \in pg.users
    BY <1>3 DEF U!delUser
  <2>2. pg' = U!removeUser(Departed(pg, u), u)
    BY <1>3 DEF U!delUser, Departed
  <2>3. QED
    BY <2>1, <2>2, DelUserPage
<1>4. CASE U!ForgetDeleted(u)
  <2>1. net' = net /\ pg' = [pg EXCEPT !.recentlyDeleted = @ \ {u}]
    BY <1>4 DEF U!ForgetDeleted
  <2>2. QED
    BY <2>1, ForgetPage
<1>5. CASE U!PlaceholderGraceOver(u)
  <2>1. net' = net /\ U!PresenceOf(pg, u).waits = "recent" /\ pg' = WaitedLong(pg, u)
    BY <1>5 DEF U!PlaceholderGraceOver, WaitedLong
  <2>2. QED
    BY <2>1, LongPage
<1>6. QED
  BY <1>1, <1>2, <1>3, <1>4, <1>5

TrackOn(c, k) == [c EXCEPT !.stream = TRUE, !.tracks = [c.tracks EXCEPT ![k] = "live"]]
TrackOff(c, k, to) == [c EXCEPT !.tracks = [c.tracks EXCEPT ![k] = to]]

LEMMA StreamPages ==
  ASSUME U!ParticipantsAssumption, PageInv(pg, net), NEW i \in U!Offers,
         \/ U!Renegotiate(i) \/ U!gotClose(i) \/ U!GraceOver(i)
         \/ \E k \in Kinds : U!ontrack(i, k)
         \/ \E k \in Kinds : \E to \in {"none", "ended"} : U!TrackLost(i, k, to)
         \/ \E s \in IceChanges : U!oniceconnectionstatechange(i, s)
  PROVE  PageInv(pg', net')
<1>0. pg \in PageState /\ pg.down[i] \in Stream
        /\ pg.down[i].tracks \in [Kinds -> U!TrackStates]
  BY PageFields DEF PageInv, Sound, Stream
<1>1. CASE U!Renegotiate(i)
  <2>1. net' = net /\ pg.down[i].open /\ pg' = U!setMedia(pg, i, FALSE)
    BY <1>1 DEF U!Renegotiate
  <2>2. QED
    BY <2>1, RenegotiatePage
<1>2. CASE U!gotClose(i)
  <2>1. net' = net /\ pg.down[i].open /\ pg' = U!closeStream(pg, i, FALSE)
    BY <1>2 DEF U!gotClose
  <2>2. QED
    BY <2>1, ClosePage
<1>3. CASE U!GraceOver(i)
  <2> DEFINE t == pg.health[i].timer
             y == [pg EXCEPT !.health[i].since = "over", !.health[i].timer = 0]
  <2>1. /\ net' = net /\ i \in DOMAIN pg.health /\ pg.health[i].since = "fresh"
        /\ pg' = IF t = 0 THEN y ELSE U!setMediaStatus(y, t)
    BY <1>3 DEF U!GraceOver
  <2>2. y = Graced(pg, i)
    <3>1. pg.health[i] \in Health /\ pg.health \in [DOMAIN pg.health -> Health]
      BY <1>0, <2>1, PageFields DEF PageState, Healths
    <3> DEFINE h == pg.health
               d == [h[i] EXCEPT !.since = "over", !.timer = 0]
               c == [h[i] EXCEPT !.since = "over"]
               w == [h EXCEPT ![i] = c]
               v == [w EXCEPT ![i] = [w[i] EXCEPT !.timer = 0]]
    <3>2. [c EXCEPT !.timer = 0] = d
      OBVIOUS
    <3>3. w[i] = c
      BY <2>1, <3>1
    <3> HIDE DEF d, c
    <3>4. v = [h EXCEPT ![i] = d]
      BY <3>1, <3>2, <3>3
    <3>5. y = [[pg EXCEPT !.health = w] EXCEPT !.health = v]
      BY <1>0 DEF PageState, c
    <3> HIDE DEF v, w, y
    <3>6. y = [pg EXCEPT !.health = v]
      BY <3>5, <1>0 DEF PageState
    <3>7. QED
      BY <3>4, <3>6 DEF Graced, d
  <2> HIDE DEF y
  <2>3. /\ t = 0 => PageInv(y, net)
        /\ t # 0 => PageInv(U!setMediaStatus(y, t), net)
    BY <2>1, <2>2, GracePage
  <2>4. QED
    BY <2>1, <2>3
<1>4. ASSUME NEW k \in Kinds, U!ontrack(i, k) PROVE PageInv(pg', net')
  <2> DEFINE u == pg.down[i].owner
             p == [pg EXCEPT !.down[i].stream = TRUE, !.down[i].tracks[k] = "live"]
             x == TrackOn(pg.down[i], k)
             y == WithStream(pg, i, x)
             z == U!recomputeUserStreams(y, u)
             r == U!setMedia(z, i, TRUE)
  <2>1. p = y
    BY <1>0 DEF WithStream, TrackOn, PageState, Stream
  <2>2. pg.down[i].open /\ net' = net
        /\ pg' = IF z.streamsOf # y.streamsOf THEN U!gotUserChange(r, u) ELSE r
    <3>1. pg' = IF U!recomputeUserStreams(p, u).streamsOf # p.streamsOf
                THEN U!gotUserChange(U!setMedia(U!recomputeUserStreams(p, u), i, TRUE), u)
                ELSE U!setMedia(U!recomputeUserStreams(p, u), i, TRUE)
      BY <1>4 DEF U!ontrack
    <3> HIDE DEF p, y
    <3>2. QED
      BY <1>4, <2>1, <3>1 DEF U!ontrack
  <2>3. LikeStream(pg.down[i], x) /\ x.ice = pg.down[i].ice
    BY <1>0 DEF LikeStream, TrackOn, Stream, U!TrackStates
  <2> HIDE DEF x, u
  <2>4. /\ PageInv(U!setMedia(U!recomputeUserStreams(y, pg.down[i].owner), i, TRUE), net)
        /\ PageInv(U!gotUserChange(U!setMedia(U!recomputeUserStreams(y, pg.down[i].owner), i, TRUE),
                                 pg.down[i].owner), net)
    BY <2>2, <2>3, OnTrackPage
  <2> HIDE DEF y
  <2>5. QED
    BY <2>2, <2>4 DEF u
<1>5. ASSUME NEW k \in Kinds, NEW to \in {"none", "ended"}, U!TrackLost(i, k, to)
      PROVE  PageInv(pg', net')
  <2> DEFINE p == [pg EXCEPT !.down[i].tracks[k] = to]
             x == TrackOff(pg.down[i], k, to)
             y == WithStream(pg, i, x)
  <2>1. p = y
    BY <1>0 DEF WithStream, TrackOff, PageState, Stream
  <2>2. pg.down[i].open /\ net' = net
        /\ pg' = U!refreshParticipantPresence(U!setMedia(y, i, TRUE), pg.down[i].owner)
    <3>1. pg' = U!refreshParticipantPresence(U!setMedia(p, i, TRUE), pg.down[i].owner)
      BY <1>5 DEF U!TrackLost
    <3> HIDE DEF p, y
    <3>2. QED
      BY <1>5, <2>1, <3>1 DEF U!TrackLost
  <2>3. LikeStream(pg.down[i], x) /\ x.ice = pg.down[i].ice
    BY <1>0 DEF LikeStream, TrackOff, Stream, U!TrackStates
  <2> HIDE DEF x
  <2>4. PageInv(U!refreshParticipantPresence(U!setMedia(y, i, TRUE), pg.down[i].owner), net)
    BY <2>2, <2>3, TrackLostPage
  <2> HIDE DEF y
  <2>5. QED
    BY <2>2, <2>4
<1>6. ASSUME NEW s \in IceChanges, U!oniceconnectionstatechange(i, s)
      PROVE  PageInv(pg', net')
  <2> DEFINE p == [pg EXCEPT !.down[i].ice = s]
             x == [pg.down[i] EXCEPT !.ice = s]
             y == WithStream(pg, i, x)
  <2>1. p = y
    BY <1>0 DEF WithStream, PageState, Stream
  <2>2. pg.down[i].open /\ net' = net /\ pg' = U!setMediaStatus(y, i)
    <3>1. pg' = U!setMediaStatus(p, i)
      BY <1>6 DEF U!oniceconnectionstatechange
    <3> HIDE DEF p, y
    <3>2. QED
      BY <1>6, <2>1, <3>1 DEF U!oniceconnectionstatechange
  <2>3. s \in U!IceStates
    BY <1>6 DEF U!ParticipantsAssumption
  <2>4. LikeStream(pg.down[i], x) /\ x.stream = pg.down[i].stream
          /\ x.tracks = pg.down[i].tracks
    BY <1>0, <2>3 DEF LikeStream, Stream
  <2> HIDE DEF x
  <2>5. PageInv(U!setMediaStatus(y, i), net)
    BY <2>2, <2>4, IcePage
  <2> HIDE DEF y
  <2>6. QED
    BY <2>2, <2>5
<1>7. QED
  BY <1>1, <1>2, <1>3, <1>4, <1>5, <1>6

LEMMA SocketPages ==
  ASSUME U!ParticipantsAssumption, PageInv(pg, net),
         \/ \E again \in BOOLEAN : U!handleSocketClose(again)
         \/ U!setConnected \/ U!OwnUser \/ U!Frame
  PROVE  PageInv(pg', net')
<1>1. ASSUME NEW again \in BOOLEAN, U!handleSocketClose(again) PROVE PageInv(pg', net')
  <2>1. /\ net' = "lost"
        /\ pg' = IF again THEN U!closeStreams(Emptied(pg))
                 ELSE U!clearConferenceUi(U!clearParticipantPresence(U!closeStreams(Emptied(pg))))
    BY <1>1 DEF U!handleSocketClose, Emptied
  <2>2. /\ PageInv(U!closeStreams(Emptied(pg)), "lost")
        /\ PageInv(U!clearConferenceUi(U!clearParticipantPresence(U!closeStreams(Emptied(pg)))), "lost")
    BY ClosedPage
  <2>3. QED
    BY <2>1, <2>2
<1>2. CASE U!setConnected
  <2>1. net = "lost" /\ pg' = U!clearParticipantPresence(pg) /\ net' = "joining"
          /\ PageInv(pg, "lost")
    BY <1>2 DEF U!setConnected
  <2>2. QED
    BY <2>1, ConnectedPage
<1>3. CASE U!OwnUser
  <2>1. net = "joining" /\ pg' = [pg EXCEPT !.due = TRUE] /\ net' = "joined"
          /\ PageInv(pg, "joining")
    BY <1>3 DEF U!OwnUser
  <2>2. QED
    BY <2>1, OwnPage
<1>4. CASE U!Frame
  <2>1. net' = net /\ pg' = U!runConferenceLayout(pg)
    BY <1>4 DEF U!Frame
  <2>2. QED
    BY <2>1, FramePage
<1>5. QED
  BY <1>1, <1>2, <1>3, <1>4

(* Every step of the page leaves it right.                                 *)
LEMMA PageStep ==
  ASSUME U!ParticipantsAssumption, PageInv(pg, net), [U!Next]_(U!peopleVars)
  PROVE  PageInv(pg', net')
<1>1. CASE UNCHANGED U!peopleVars
  BY <1>1 DEF U!peopleVars
<1>2. ASSUME NEW u \in Members,
             U!addUser(u) \/ U!changeUser(u) \/ U!delUser(u) \/ U!ForgetDeleted(u)
               \/ U!PlaceholderGraceOver(u)
      PROVE  PageInv(pg', net')
  BY <1>2, RosterPages
<1>3. ASSUME NEW u \in Members, NEW i \in U!Offers, U!gotOffer(u, i)
      PROVE  PageInv(pg', net')
  BY <1>3, GotOfferPage
<1>4. ASSUME NEW i \in U!Offers,
             \/ U!Renegotiate(i) \/ U!gotClose(i) \/ U!GraceOver(i)
             \/ \E k \in Kinds : U!ontrack(i, k)
             \/ \E k \in Kinds : \E to \in {"none", "ended"} : U!TrackLost(i, k, to)
             \/ \E s \in IceChanges : U!oniceconnectionstatechange(i, s)
      PROVE  PageInv(pg', net')
  BY <1>4, StreamPages
<1>5. ASSUME \/ \E again \in BOOLEAN : U!handleSocketClose(again)
             \/ U!setConnected \/ U!OwnUser \/ U!Frame
      PROVE  PageInv(pg', net')
  BY <1>5, SocketPages
<1>6. QED
  BY <1>1, <1>2, <1>3, <1>4, <1>5 DEF U!Next

(* The invariant says what the user list, the tiles and the layout show.   *)
LEMMA PageShows ==
  ASSUME PageInv(pg, net)
  PROVE  U!RowsCurrent /\ U!TilesHaveStreams /\ U!LayoutCurrent
<1>1. U!TilesHaveStreams
  BY DEF PageInv, TilesOpen, U!TilesHaveStreams
<1>2. pg.users \subseteq Members /\ pg.rows \subseteq Members
  BY PageFields DEF PageInv, Sound
<1>3. ASSUME net = "joined", NEW u \in Members PROVE RowOk(pg, u) /\ ShownOk(pg, u)
  BY <1>3 DEF PageInv, SettledFor
<1>4. U!RowsCurrent
  <2>1. SUFFICES ASSUME net = "joined"
                 PROVE  pg.rows = pg.users /\ \A u \in pg.users : RowIsCurrent(pg, u)
    BY DEF U!RowsCurrent, RowIsCurrent
  <2>2. \A u \in Members : (u \in pg.rows <=> u \in pg.users)
          /\ (u \in pg.users => RowIsCurrent(pg, u))
    BY <1>3, <2>1 DEF RowOk, RowThere
  <2>3. QED
    BY <2>2, <1>2
<1>5. U!LayoutCurrent
  BY <1>3 DEF U!LayoutCurrent, ShownOk
<1>6. QED
  BY <1>1, <1>4, <1>5

=============================================================================
