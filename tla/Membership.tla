----------------------------- MODULE Membership ------------------------------
(***************************************************************************)
(* Who is in a group, and who thinks so: group.AddClient, group.DelClient  *)
(* and autoLockKick (group/group.go), the part of clientLoop that joins,   *)
(* leaves and drains the action queue (rtpconn/webclient.go), and the      *)
(* table of users every browser keeps (static/protocol.js).                *)
(*                                                                         *)
(* A session is one websocket connection, a *webClient of the server.  Its *)
(* goroutine handles one client message or one queued action at a time.    *)
(* The group's map of clients changes under g.mu, but everybody is told    *)
(* AFTER g.mu is released, by appending to the other sessions' action      *)
(* queues one by one, and some of the telling is left to goroutines of its *)
(* own.  Between any two of these steps every other session may take its   *)
(* own.                                                                    *)
(***************************************************************************)
EXTENDS Naturals, Sequences, FiniteSets

CONSTANTS
  Sessions,     \* websocket connections
  Ids,          \* the client ids browsers choose (protocol.js: sc.id)
  Users,        \* usernames
  IdOf,         \* the id a session announces in its handshake
  UserOf,       \* the username a session joins with
  OpUsers,      \* the users the group's description gives "op"
  Autolock,     \* Description.Autolock
  Autokick,     \* Description.Autokick
  Redirected,   \* the description was edited to have a redirect
  MaxClients,   \* Description.MaxClients, 0 for no limit
  MaxJoins,     \* bound on the join messages of a session
  Messages,     \* what happens besides joins and broken connections
  MaxActs,      \* bound on the messages of operators and on Updates
  None

ASSUME ConstantsAssumption ==
  /\ IdOf \in [Sessions -> Ids]
  /\ UserOf \in [Sessions -> Users]
  /\ OpUsers \subseteq Users
  /\ {Autolock, Autokick, Redirected} \subseteq BOOLEAN
  /\ {MaxClients, MaxJoins, MaxActs} \subseteq Nat
  /\ Messages \subseteq {"leave", "lock", "op", "unop", "kick", "update"}
  /\ None \notin Sessions /\ None \notin Ids
  /\ IsFiniteSet(Sessions) /\ IsFiniteSet(Ids)

VARIABLES
  members,    \* g.clients
  locked,     \* g.locked # nil
  pc,         \* where the session's goroutine stands
  inGroup,    \* c.group # nil
  op,         \* "op" is in c.permissions
  token,      \* c.resumeToken, 0 for the empty string
  offered,    \* creds.ResumeToken of the join being handled
  victim,     \* `existing` of the AddClient being executed
  shown,      \* "op" is in p, the permissions AddClient announces
  other, pp,  \* cc of the loop over the others, and whether "op" is in its pp
  todo,       \* the clients a loop over pushes has not reached yet
  after,      \* where leaveGroup returns to: the loop, or the end of the session
  actions,    \* c.actions, the unbounded channel of module Unbounded
  closing,    \* Close() has queued the close frame
  async,      \* goroutines started by permission changes and by autoLockKick
  stored,     \* the browser's persistent storage: its last resume token
  roster,     \* sc.users
  view,       \* what joined messages told: sc.group # null, locked, own op
  joins, acts,  \* counters: join messages of a session, messages of operators
  panicked    \* a nil pointer was dereferenced: the process is dead

adding == <<offered, victim, shown, other, pp>>    \* the local variables of AddClient
leaving == <<todo, after>>
browser == <<stored, roster, view>>
counters == <<joins, acts>>

vars == <<members, locked, pc, inGroup, op, token, adding, leaving, actions,
          closing, async, browser, counters, panicked>>

-----------------------------------------------------------------------------
(* Queued actions, and the goroutines that queue them.                     *)

Action == [type : {"joined", "user", "perms", "kick"},
           kind : {"join", "change", "leave", "add", "delete", "-"},
           id : Ids \cup {None}, op : BOOLEAN]

JoinedSwapped(s, k) ==    \* mutant: the fields of joinedAction swapped
  [type |-> k, kind |-> "joined", id |-> IdOf[s], op |-> FALSE]

JoinedAction(s, k) == [type |-> "joined", kind |-> k, id |-> IdOf[s], op |-> FALSE]
UserAction(k, s, o) == [type |-> "user", kind |-> k, id |-> IdOf[s], op |-> o]
PermsAction == [type |-> "perms", kind |-> "-", id |-> None, op |-> FALSE]
KickAction == [type |-> "kick", kind |-> "-", id |-> None, op |-> FALSE]

(* A goroutine that puts action `put` for each session still in `todo`.    *)
Goroutine == [n : Nat, put : Action, todo : SUBSET Sessions]

Member == {members[i] : i \in Ids} \ {None}

(* c.action for every c in T; a session that is gone has no reader.        *)
Put(q, T, a) ==
  [t \in Sessions |-> IF t \in T /\ pc[t] # "gone" THEN Append(q[t], a) ELSE q[t]]

PutJoinedOnce(q, T, k) ==  \* mutant: a busy session is not told
  [t \in Sessions |->
     IF t \in T /\ q[t] = <<>> THEN Append(q[t], JoinedAction(t, k)) ELSE q[t]]

(* c.Joined(kind) for every c in T.                                        *)
PutJoined(q, T, k) ==
  [t \in Sessions |->
     IF t \in T /\ pc[t] # "gone" THEN Append(q[t], JoinedAction(t, k)) ELSE q[t]]

Spawn(a, T) ==
  LET n == CHOOSE k \in 1..Cardinality(async) + 1 : \A r \in async : r.n # k
  IN  async \cup {[n |-> n, put |-> a, todo |-> T]}

-----------------------------------------------------------------------------

(* The group exists: Update loads it at startup, and add ran autoLockKick,  *)
(* which found no operator.                                                *)
Init ==
  /\ members = [i \in Ids |-> None]
  /\ locked = Autolock
  /\ pc = [s \in Sessions |-> "idle"]
  /\ inGroup = [s \in Sessions |-> FALSE]
  /\ op = [s \in Sessions |-> FALSE]
  /\ token = [s \in Sessions |-> 0]
  /\ offered = [s \in Sessions |-> 0]
  /\ victim = [s \in Sessions |-> None]
  /\ shown = [s \in Sessions |-> FALSE]
  /\ other = [s \in Sessions |-> None]
  /\ pp = [s \in Sessions |-> FALSE]
  /\ todo = [s \in Sessions |-> {}]
  /\ after = [s \in Sessions |-> "idle"]
  /\ actions = [s \in Sessions |-> <<>>]
  /\ closing = [s \in Sessions |-> FALSE]
  /\ async = {}
  /\ stored = [i \in Ids |-> 0]
  /\ roster = [s \in Sessions |-> [i \in Ids |-> "absent"]]
  /\ view = [s \in Sessions |-> [group |-> FALSE, locked |-> FALSE, op |-> FALSE]]
  /\ joins = [s \in Sessions |-> 0]
  /\ acts = 0
  /\ panicked = FALSE

-----------------------------------------------------------------------------
(* autoLockKick, called with g.mu held.                                    *)

NoOperator == \A s \in Member : ~op[s]

MustLock == Autolock /\ ~locked /\ NoOperator

MustKick == Autokick /\ NoOperator

AutoLockKick(q) ==
  /\ locked' = (locked \/ MustLock)
  /\ actions' = IF MustLock THEN PutJoined(q, Member, "change") ELSE q
  /\ async' = IF MustKick /\ Member # {}
              THEN Spawn(KickAction, Member)
              ELSE async

-----------------------------------------------------------------------------
(* Joining.                                                                *)

(* A join message is read; AddClient calls Add, which runs autoLockKick    *)
(* and releases g.mu before AddClient takes it again.                      *)
Join(s) ==
  /\ pc[s] = "idle" /\ ~inGroup[s]
  /\ joins[s] < MaxJoins
  /\ joins' = [joins EXCEPT ![s] = @ + 1]
  /\ offered' = [offered EXCEPT ![s] = stored[IdOf[s]]]
  /\ pc' = [pc EXCEPT ![s] = "adding"]
  /\ AutoLockKick(actions)
  /\ UNCHANGED <<members, inGroup, op, token, victim, shown, other, pp, leaving,
                 closing, browser, acts, panicked>>

IsOp(s) == UserOf[s] \in OpUsers

CanReplace(e, s) ==
  /\ UserOf[e] = UserOf[s]
  /\ token[e] # 0
  /\ offered[s] = token[e]

Count == Cardinality({i \in Ids : members[i] # None})

FullBeyond(s) == MaxClients > 0 /\ Count > MaxClients    \* mutant: > for >=

Full(s) == MaxClients > 0 /\ Count >= MaxClients

(* AddClient gives up with g.mu held, once credentials are accepted.       *)
Barred(s) ==
  \/ ~IsOp(s) /\ locked
  \/ ~IsOp(s) /\ Autokick /\ NoOperator
  \/ /\ members[IdOf[s]] # None
     /\ ~CanReplace(members[IdOf[s]], s)

(* Bad credentials, a group not open yet or closed, an error: the joined   *)
(* message of kind "fail" has no effect in this module.                    *)
Refuse(s) ==
  /\ pc[s] = "adding"
  /\ pc' = [pc EXCEPT ![s] = "idle"]
  /\ UNCHANGED <<members, locked, inGroup, op, token, adding, leaving, actions,
                 closing, async, browser, counters, panicked>>

Bar(s) ==
  /\ pc[s] = "adding"
  /\ Barred(s)
  /\ op' = [op EXCEPT ![s] = IsOp(s)]
  /\ pc' = [pc EXCEPT ![s] = "idle"]
  /\ UNCHANGED <<members, locked, inGroup, token, adding, leaving, actions,
                 closing, async, browser, counters, panicked>>

(* newResumeToken: 16 random bytes, a value that nobody holds.             *)
Held == {token[s] : s \in Sessions} \cup {offered[s] : s \in Sessions}
          \cup {stored[i] : i \in Ids}

Fresh == CHOOSE n \in 1..Cardinality(Held) + 1 : n \notin Held

(* "too many users" is decided after SetResumeToken.                       *)
TurnAway(s) ==
  /\ pc[s] = "adding"
  /\ ~Barred(s) /\ ~IsOp(s) /\ members[IdOf[s]] = None /\ Full(s)
  /\ op' = [op EXCEPT ![s] = FALSE]
  /\ token' = [token EXCEPT ![s] = Fresh]
  /\ pc' = [pc EXCEPT ![s] = "idle"]
  /\ UNCHANGED <<members, locked, inGroup, adding, leaving, actions, closing,
                 async, browser, counters, panicked>>

OtherOps(e, s) == {t \in Member \ {e, s} : op[t]}   \* mutant: only operators are told

Others(e, s) == Member \ {e, s}

Insert(s) ==
  LET i == IdOf[s]
      e == members[i]
  IN
  /\ pc[s] = "adding"
  /\ ~Barred(s)
  /\ IsOp(s) \/ e # None \/ ~Full(s)
  /\ op' = [op EXCEPT ![s] = IsOp(s)]
  /\ token' = [token EXCEPT ![s] = IF e = None THEN Fresh ELSE token[e]]
  /\ victim' = [victim EXCEPT ![s] = e]
  /\ members' = [members EXCEPT ![i] = s]
  /\ todo' = [todo EXCEPT ![s] = Others(e, s)]
  /\ pc' = [pc EXCEPT ![s] = "greeting"]
  /\ UNCHANGED <<locked, inGroup, offered, shown, other, pp, after, actions,
                 closing, async, browser, counters, panicked>>

(* Joined("join"), then PushClient of the session to itself.               *)
Greet(s) ==
  /\ pc[s] = "greeting"
  /\ actions' = Put(PutJoined(actions, {s}, "join"), {s}, UserAction("add", s, op[s]))
  /\ shown' = [shown EXCEPT ![s] = op[s]]
  /\ pc' = [pc EXCEPT ![s] = "announcing"]
  /\ UNCHANGED <<members, locked, inGroup, op, token, offered, victim, other, pp,
                 leaving, closing, async, browser, counters, panicked>>

(* One turn of the loop over `others`: the permissions of the other are    *)
(* read, and may change before they are announced.                         *)
Look(s, t) ==
  /\ pc[s] = "announcing"
  /\ t \in todo[s] /\ other[s] = None
  /\ other' = [other EXCEPT ![s] = t]
  /\ pp' = [pp EXCEPT ![s] = op[t]]
  /\ UNCHANGED <<members, locked, pc, inGroup, op, token, offered, victim, shown,
                 leaving, actions, closing, async, browser, counters, panicked>>

(* Each is told of the other.                                              *)
Announce(s, t) ==
  LET kind == IF victim[s] = None THEN "add" ELSE "change" IN
  /\ pc[s] = "announcing"
  /\ t \in todo[s] /\ other[s] = t
  /\ other' = [other EXCEPT ![s] = None]
  /\ pp' = [pp EXCEPT ![s] = FALSE]
  /\ todo' = [todo EXCEPT ![s] = @ \ {t}]
  /\ actions' = Put(Put(actions, {s}, UserAction("add", t, pp[s])),
                    {t}, UserAction(kind, s, shown[s]))
  /\ UNCHANGED <<members, locked, pc, inGroup, op, token, offered, victim, shown,
                 after, closing, async, browser, counters, panicked>>

KeepVictim(s) == closing             \* mutant: the replaced session is not closed

CloseVictim(s) ==
  IF victim[s] = None THEN closing ELSE [closing EXCEPT ![victim[s]] = TRUE]

EntersNoGroup == FALSE               \* mutant: c.group = g is forgotten

EntersGroup == ~Redirected

(* existing.Close(), and the rest of the handler: with a redirect in the   *)
(* description it returns before c.group = g.                              *)
Enter(s) ==
  /\ pc[s] = "announcing"
  /\ todo[s] = {}
  /\ closing' = CloseVictim(s)
  /\ victim' = [victim EXCEPT ![s] = None]
  /\ shown' = [shown EXCEPT ![s] = FALSE]
  /\ inGroup' = [inGroup EXCEPT ![s] = EntersGroup]
  /\ pc' = [pc EXCEPT ![s] = "idle"]
  /\ UNCHANGED <<members, locked, op, token, offered, other, pp, leaving, actions,
                 async, browser, counters, panicked>>

-----------------------------------------------------------------------------
(* Leaving.                                                                *)

SameToken(s) ==       \* mutant: recognised by the token it came with
  members[IdOf[s]] = s /\ offered[s] = token[s]

Current(s) == members[IdOf[s]] = s

(* leaveGroup up to the end of DelClient's first critical section, then    *)
(* Joined("leave").  A session that has been replaced only resets itself.  *)
LeaveGroup(s, end, q) ==
  IF inGroup[s] /\ Current(s)
  THEN /\ members' = [members EXCEPT ![IdOf[s]] = None]
       /\ todo' = [todo EXCEPT ![s] = Member \ {s}]
       /\ after' = [after EXCEPT ![s] = end]
       /\ pc' = [pc EXCEPT ![s] = "leaving"]
       /\ actions' = PutJoined(q, {s}, "leave")
       /\ UNCHANGED <<inGroup, op>>
  ELSE /\ inGroup' = [inGroup EXCEPT ![s] = FALSE]
       /\ op' = [op EXCEPT ![s] = @ /\ ~inGroup[s]]
       /\ pc' = [pc EXCEPT ![s] = end]
       /\ actions' = IF end = "gone" THEN [q EXCEPT ![s] = <<>>] ELSE q
       /\ UNCHANGED <<members, leaving>>

(* A join message of kind "leave".  The frontend of the repository never   *)
(* sends it: it closes the connection.                                     *)
Leave(s) ==
  /\ "leave" \in Messages
  /\ pc[s] = "idle" /\ inGroup[s]
  /\ LeaveGroup(s, "idle", actions)
  /\ UNCHANGED <<locked, token, adding, closing, async, browser, counters,
                 panicked>>

(* The browser's handleSocketClose.                                        *)
SocketClosed(s) ==
  /\ roster' = [roster EXCEPT ![s] = [i \in Ids |-> "absent"]]
  /\ view' = [view EXCEPT ![s] = [group |-> FALSE, locked |-> FALSE, op |-> FALSE]]

(* The reader fails (the peer went away, the connection was closed), or    *)
(* nothing was received for deadClientTimeout: clientLoop returns.         *)
Disconnect(s) ==
  /\ pc[s] = "idle"
  /\ LeaveGroup(s, "gone", actions)
  /\ SocketClosed(s)
  /\ UNCHANGED <<locked, token, adding, closing, async, stored, counters,
                 panicked>>

(* One turn of DelClient's loop.                                           *)
TellLeft(s, t) ==
  /\ pc[s] = "leaving"
  /\ t \in todo[s]
  /\ todo' = [todo EXCEPT ![s] = @ \ {t}]
  /\ actions' = Put(actions, {t}, UserAction("delete", s, FALSE))
  /\ UNCHANGED <<members, locked, pc, inGroup, op, token, adding, after,
                 closing, async, browser, counters, panicked>>

NoRelock(q) == actions' = q /\ UNCHANGED <<locked, async>>   \* mutant

(* DelClient's second critical section, and the end of leaveGroup.         *)
Relock(q) == AutoLockKick(q)

Left(s) ==
  /\ pc[s] = "leaving"
  /\ todo[s] = {}
  /\ Relock(IF after[s] = "gone" THEN [actions EXCEPT ![s] = <<>>] ELSE actions)
  /\ op' = [op EXCEPT ![s] = FALSE]
  /\ inGroup' = [inGroup EXCEPT ![s] = FALSE]
  /\ pc' = [pc EXCEPT ![s] = after[s]]
  /\ after' = [after EXCEPT ![s] = "idle"]
  /\ UNCHANGED <<members, token, adding, todo, closing, browser, counters,
                 panicked>>

-----------------------------------------------------------------------------
(* handleAction: the head of the session's queue.                          *)

Shown(a) ==
  IF a.kind = "delete" THEN "absent" ELSE IF a.op THEN "op" ELSE "user"

RememberFirst(old, new) == IF old # 0 THEN old ELSE new   \* mutant

Remember(old, new) == IF new = 0 THEN old ELSE new

(* The browser's applyJoinedMessage.  It ignores a change for a group it   *)
(* has not joined, throws on a second join, and sees nothing of what the   *)
(* server writes after the close frame.                                    *)
ApplyJoined(s, kind) ==
  IF \/ closing[s]
     \/ kind = "join" /\ view[s].group
     \/ kind = "change" /\ ~view[s].group
     \/ kind = "leave"
  THEN UNCHANGED <<stored, view>>
  ELSE /\ stored' = [stored EXCEPT ![IdOf[s]] = Remember(@, token[s])]
       /\ view' = [view EXCEPT ![s] = [group |-> TRUE, locked |-> locked, op |-> op[s]]]

(* A joined message carries the state of the moment it is written, not of  *)
(* the moment it was queued.                                               *)
HandleJoined(s, a) ==
  /\ a.type = "joined"
  /\ ApplyJoined(s, a.kind)
  /\ actions' = [actions EXCEPT ![s] = Tail(@)]
  /\ UNCHANGED <<members, pc, inGroup, op, leaving, async, roster, panicked>>

(* pushClientAction: the test for a stray notification dereferences        *)
(* c.group.                                                                *)
HandleUser(s, a) ==
  /\ a.type = "user"
  /\ panicked' = ~inGroup[s]
  /\ roster' = IF closing[s] \/ ~inGroup[s] THEN roster
               ELSE [roster EXCEPT ![s][a.id] = Shown(a)]
  /\ actions' = [actions EXCEPT ![s] = Tail(@)]
  /\ UNCHANGED <<members, pc, inGroup, op, leaving, async, stored, view>>

(* permissionsChangedAction: the session is told at once, the others by a  *)
(* goroutine.  Outside a group it is an error, which ends the session.     *)
HandlePerms(s, a) ==
  /\ a.type = "perms"
  /\ inGroup[s]
  /\ ApplyJoined(s, "change")
  /\ async' = IF Member = {} THEN async
              ELSE Spawn(UserAction("change", s, op[s]), Member)
  /\ actions' = [actions EXCEPT ![s] = Tail(@)]
  /\ UNCHANGED <<members, pc, inGroup, op, leaving, roster, panicked>>

(* A KickError ends the session, and so does a permission change that      *)
(* finds it in no group.                                                   *)
HandleEnd(s, a) ==
  /\ a.type = "kick" \/ (a.type = "perms" /\ ~inGroup[s])
  /\ LeaveGroup(s, "gone", [actions EXCEPT ![s] = Tail(@)])
  /\ SocketClosed(s)
  /\ UNCHANGED <<async, stored, panicked>>

Handle(s) ==
  /\ pc[s] = "idle"
  /\ actions[s] # <<>>
  /\ LET a == Head(actions[s]) IN
       HandleJoined(s, a) \/ HandleUser(s, a) \/ HandlePerms(s, a) \/ HandleEnd(s, a)
  /\ UNCHANGED <<locked, token, adding, closing, counters>>

-----------------------------------------------------------------------------
(* Messages of operators, and the goroutines.                              *)

Acting(s) ==
  /\ pc[s] = "idle" /\ inGroup[s] /\ op[s]
  /\ acts < MaxActs
  /\ acts' = acts + 1

(* groupaction "lock" and "unlock": SetLocked, up to its loop.             *)
SetLocked(s, b) ==
  /\ "lock" \in Messages
  /\ Acting(s)
  /\ locked' = b
  /\ todo' = [todo EXCEPT ![s] = Member]
  /\ pc' = [pc EXCEPT ![s] = IF Member = {} THEN "idle" ELSE "locking"]
  /\ UNCHANGED <<members, inGroup, op, token, adding, after, actions, closing,
                 async, browser, joins, panicked>>

(* One turn of SetLocked's loop.                                           *)
TellLocked(s, t) ==
  /\ pc[s] = "locking"
  /\ t \in todo[s]
  /\ todo' = [todo EXCEPT ![s] = @ \ {t}]
  /\ actions' = PutJoined(actions, {t}, "change")
  /\ pc' = [pc EXCEPT ![s] = IF todo[s] = {t} THEN "idle" ELSE @]
  /\ UNCHANGED <<members, locked, inGroup, op, token, adding, after, closing,
                 async, browser, counters, panicked>>

SetPermissionsUntold(s, t, b) ==  \* mutant: the session is not told
  /\ (IF b THEN "op" ELSE "unop") \in Messages
  /\ Acting(s)
  /\ t \in Member
  /\ op' = [op EXCEPT ![t] = b]
  /\ UNCHANGED <<members, locked, pc, inGroup, token, adding, leaving, actions,
                 closing, async, browser, joins, panicked>>

(* useraction "op" and "unop": setPermissions writes another session's     *)
(* permissions.                                                            *)
SetPermissions(s, t, b) ==
  /\ (IF b THEN "op" ELSE "unop") \in Messages
  /\ Acting(s)
  /\ t \in Member
  /\ op' = [op EXCEPT ![t] = b]
  /\ actions' = Put(actions, {t}, PermsAction)
  /\ UNCHANGED <<members, locked, pc, inGroup, token, adding, leaving, closing,
                 async, browser, joins, panicked>>

(* useraction "kick": kickClient.                                          *)
Kick(s, t) ==
  /\ "kick" \in Messages
  /\ Acting(s)
  /\ t \in Member
  /\ actions' = Put(actions, {t}, KickAction)
  /\ UNCHANGED <<members, locked, pc, inGroup, op, token, adding, leaving,
                 closing, async, browser, joins, panicked>>

(* The periodic Update calls Add for every group.                          *)
Update ==
  /\ "update" \in Messages
  /\ acts < MaxActs
  /\ acts' = acts + 1
  /\ AutoLockKick(actions)
  /\ UNCHANGED <<members, pc, inGroup, op, token, adding, leaving, closing,
                 browser, joins, panicked>>

(* One turn of the loop of a goroutine.                                    *)
Push(r, t) ==
  /\ r \in async
  /\ t \in r.todo
  /\ actions' = Put(actions, {t}, r.put)
  /\ async' = (async \ {r}) \cup
              (IF r.todo = {t} THEN {} ELSE {[r EXCEPT !.todo = @ \ {t}]})
  /\ UNCHANGED <<members, locked, pc, inGroup, op, token, adding, leaving,
                 closing, browser, counters, panicked>>

-----------------------------------------------------------------------------

(* What a session's goroutine does by itself once it has started.          *)
Proceed(s) ==
  \/ Refuse(s) \/ Bar(s) \/ TurnAway(s) \/ Insert(s) \/ Greet(s) \/ Enter(s) \/ Left(s)
  \/ \E t \in Sessions : Look(s, t) \/ Announce(s, t) \/ TellLeft(s, t) \/ TellLocked(s, t)
  \/ Handle(s)

Operate(s) ==
  \/ \E b \in BOOLEAN : SetLocked(s, b)
  \/ \E t \in Sessions, b \in BOOLEAN : SetPermissions(s, t, b)
  \/ \E t \in Sessions : Kick(s, t)

Next ==
  /\ ~panicked
  /\ \/ \E s \in Sessions : Join(s) \/ Leave(s) \/ Disconnect(s) \/ Proceed(s) \/ Operate(s)
     \/ Update
     \/ \E r \in async, t \in Sessions : Push(r, t)

(* The goroutines run; a websocket on which the close frame was sent dies. *)
(* Nothing makes anyone join, leave or act.                                *)
Fairness ==
  /\ \A s \in Sessions : WF_vars(~panicked /\ Proceed(s))
  /\ \A s \in Sessions : WF_vars(~panicked /\ closing[s] /\ Disconnect(s))
  /\ WF_vars(~panicked /\ \E r \in async, t \in Sessions : Push(r, t))

Spec == Init /\ [][Next]_vars /\ Fairness

-----------------------------------------------------------------------------

TypeOK ==
  /\ members \in [Ids -> Sessions \cup {None}]
  /\ locked \in BOOLEAN
  /\ pc \in [Sessions -> {"idle", "adding", "greeting", "announcing", "leaving",
                       "locking", "gone"}]
  /\ inGroup \in [Sessions -> BOOLEAN]
  /\ op \in [Sessions -> BOOLEAN]
  /\ token \in [Sessions -> Nat]
  /\ offered \in [Sessions -> Nat]
  /\ victim \in [Sessions -> Sessions \cup {None}]
  /\ shown \in [Sessions -> BOOLEAN]
  /\ other \in [Sessions -> Sessions \cup {None}]
  /\ pp \in [Sessions -> BOOLEAN]
  /\ todo \in [Sessions -> SUBSET Sessions]
  /\ after \in [Sessions -> {"idle", "gone"}]
  /\ actions \in [Sessions -> Seq(Action)]
  /\ closing \in [Sessions -> BOOLEAN]
  /\ async \subseteq Goroutine
  /\ stored \in [Ids -> Nat]
  /\ roster \in [Sessions -> [Ids -> {"absent", "user", "op"}]]
  /\ view \in [Sessions -> [group : BOOLEAN, locked : BOOLEAN, op : BOOLEAN]]
  /\ joins \in [Sessions -> Nat]
  /\ acts \in Nat
  /\ panicked \in BOOLEAN

(* Nobody is in the middle of a handler and nothing is queued.             *)
Quiet ==
  /\ async = {}
  /\ \A s \in Sessions : pc[s] \in {"idle", "gone"} /\ actions[s] = <<>>

(* A session whose browser is still listening.                             *)
Joined(s) == inGroup[s] /\ ~closing[s]

(* protocol.js:434, "The set of users in this group, including ourself",   *)
(* in two parts, each for when the pushes have been delivered.  A member *)
(* of the group is in every browser's table of users.                      *)
RosterComplete ==
  Quiet => \A s \in Sessions, i \in Ids :
    Joined(s) /\ members[i] # None => roster[s][i] # "absent"

(* Only members of the group are in it.                                    *)
RosterSound ==
  Quiet => \A s \in Sessions, i \in Ids :
    Joined(s) /\ members[i] = None => roster[s][i] = "absent"

(* Whatever the order in which the lock and the permissions were changed   *)
(* and the changes announced, the browser ends up knowing whether the      *)
(* group is locked and whether it is an operator.                          *)
ViewExact ==
  Quiet => \A s \in Sessions : Joined(s) =>
    view[s] = [group |-> TRUE, locked |-> locked, op |-> op[s]]

(* AddClient replaces a session before it closes it; the replaced session  *)
(* goes on handling messages meanwhile.  It is never forgotten: either the *)
(* close frame is queued or the session that replaced it is about to.      *)
ReplacedIsClosed ==
  \A s \in Sessions :
    /\ inGroup[s] \/ pc[s] \in {"greeting", "announcing"}
    /\ pc[s] # "leaving"
    /\ ~Current(s)
    => closing[s] \/ \E t \in Sessions : victim[t] = s

(* A session that has ended is no longer in the group's map of clients,    *)
(* although the replaced ones skip DelClient's deletion and others may     *)
(* have taken their place.                                                 *)
NoGhost == \A s \in Member : pc[s] # "gone"

(* MaxClients is checked under g.mu, in the critical section that inserts: *)
(* only operators, and sessions that replace another, get past it.         *)
CapacityRespected ==
  MaxClients > 0 =>
    Cardinality({i \in Ids : members[i] # None /\ ~IsOp(members[i])}) <= MaxClients

(* A browser that has been told it is in the group holds the token that    *)
(* lets it take its place again when the connection breaks.                *)
Resumable ==
  \A s \in Sessions : Current(s) /\ Joined(s) /\ view[s].group =>
    stored[IdOf[s]] = token[s]

(* description.go:205, "Whether to lock the group when the last op logs    *)
(* out": an autolock group without an operator is locked, or about to be.  *)
LastOpLocks ==
  Autolock /\ NoOperator => locked \/ \E s \in Sessions : pc[s] = "leaving"

(* webclient.go:1258: a notification that reaches a session that is in no  *)
(* group, or in another one, is logged and dropped.                        *)
NeverPanics == ~panicked

(* The goroutine of autoLockKick tells t to go.                            *)
Autokicked(t) == async' # async /\ actions'[t] = Append(actions[t], KickAction)

(* group.go:836: the goroutine is given the clients of the moment, since   *)
(* calling kickall "might spuriously kick out an operator".  Whom the      *)
(* description appoints, and nobody demotes, is not told to go: whoever    *)
(* comes in while the goroutine is still at work, or back under the id of  *)
(* a session that has left.  (One of those it was given may have been      *)
(* promoted since by an operator who has come back, and is told to go.)    *)
AutokickSparesNewcomers ==
  [][\A t \in Sessions : Autokicked(t) => ~IsOp(t)]_vars

(* description.go:208, "Whether to kick all users when the last op logs    *)
(* out": a group without operators empties, or an operator comes back.     *)
LastOpKicks ==
  Autokick /\ NoOperator ~> Member = {} \/ ~NoOperator \/ panicked

(* A session that another one has replaced leaves the group in the end     *)
(* (unless the server has crashed).                                        *)
ReplacedGoes ==
  \A s \in Sessions : inGroup[s] /\ ~Current(s) ~> ~inGroup[s] \/ panicked

=============================================================================
