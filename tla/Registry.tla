------------------------------- MODULE Registry -------------------------------
(***************************************************************************)
(* Which groups are in memory, and with which description: group.Add,      *)
(* group.Delete, mayExpire, GetDescription and the periodic group.Update   *)
(* (group/group.go, group/description.go), with the callers that come      *)
(* between: AddClient, DelClient and the HTTP handlers.                    *)
(*                                                                         *)
(* The module follows one group name.  Its description is a file, which an *)
(* administrator (through the API or with an editor) rewrites or removes   *)
(* at any time; a file that is being edited may not decode.  In memory     *)
(* there is at most one REGISTERED instance, groups.groups[name], but      *)
(* whoever got an instance from Add keeps the pointer: an instance may     *)
(* live on after Delete has taken it out of the map.                       *)
(***************************************************************************)
EXTENDS Naturals, FiniteSets

CONSTANTS
  Sessions,      \* websocket connections
  MaxVersions,   \* bound on the number of times the file changes
  MaxInstances   \* bound on the instances alive at a time

ASSUME RegistryAssumption ==
  /\ IsFiniteSet(Sessions)
  /\ MaxVersions \in Nat /\ MaxInstances \in Nat
  /\ MaxInstances > Cardinality(Sessions)   \* Create always finds one

VARIABLES
  file,        \* the description on disk
  registered,  \* groups.groups[name], 0 for nil
  desc,        \* g.description of each instance
  reloaded,    \* g.descriptionReloaded is less than a minute old
  idle,        \* g.timestamp is older than maxHistoryAge
  members,     \* g.clients
  pc,          \* where a session stands
  at,          \* the instance its AddClient got from Add, or c.group
  upc,         \* where group.Update stands
  seen         \* its local desc, what the walk of the directory read

vars == <<file, registered, desc, reloaded, idle, members, pc, at, upc, seen>>
instances == <<registered, desc, reloaded, idle, members>>
sessions == <<pc, at>>
updater == <<upc, seen>>

(* A version stands for the file's size and modification time, which is    *)
(* all descriptionUnchanged and descriptionMatch compare.                  *)
Version == 0..MaxVersions
Description == [version : Version, public : BOOLEAN]
File == [version : Version, public : BOOLEAN, state : {"ok", "broken", "absent"}]
Instance == 1..MaxInstances
NoDescription == [version |-> 0, public |-> FALSE]

Init ==
  /\ file = [version |-> 0, public |-> FALSE, state |-> "ok"]
  /\ registered = 0
  /\ desc = [g \in Instance |-> NoDescription]
  /\ reloaded = [g \in Instance |-> FALSE]
  /\ idle = [g \in Instance |-> FALSE]
  /\ members = [g \in Instance |-> {}]
  /\ pc = [s \in Sessions |-> "out"]
  /\ at = [s \in Sessions |-> 0]
  /\ upc = "names" /\ seen = NoDescription

-----------------------------------------------------------------------------
(* group.add, atomic under groups.mu and g.mu.                             *)

OnDisk == [version |-> file.version, public |-> file.public]

(* Nobody has a pointer to g: the garbage collector may have it.           *)
Free(g) == g # registered /\ \A s \in Sessions : at[s] # g

NewInstance == CHOOSE g \in Instance : Free(g)

Unchanged(g) == file.state # "absent" /\ desc[g].version = file.version

Cached == registered # 0 /\ Unchanged(registered)

Create(d) ==
  /\ \E g \in Instance : Free(g)
  /\ registered' = NewInstance
  /\ desc' = [desc EXCEPT ![NewInstance] = d]
  /\ reloaded' = [reloaded EXCEPT ![NewInstance] = FALSE]
  /\ idle' = [idle EXCEPT ![NewInstance] = FALSE]
  /\ members' = [members EXCEPT ![NewInstance] = {}]

UnregisterAnyway == registered' = 0  \* mutant: deleteUnlocked does not look at the clients

Unregister == registered' = IF members[registered] = {} THEN 0 ELSE registered

AddFailsOnly ==  \* mutant: an error does not remove the group
  /\ \/ registered = 0 /\ file.state # "ok"
     \/ registered # 0 /\ file.state = "absent" /\ ~reloaded[registered]
  /\ UNCHANGED instances

(* Add(name, nil) reloads what has changed on disk, at most once a minute. *)
(* It fails when there is no file, even if the group stays for the clients *)
(* that are in it.                                                         *)
AddFails ==
  /\ \/ registered = 0 /\ file.state # "ok"
     \/ registered # 0 /\ file.state = "absent" /\ ~reloaded[registered]
  /\ IF registered = 0 THEN UNCHANGED registered ELSE Unregister
  /\ UNCHANGED <<desc, reloaded, idle, members>>

ReloadForgetful ==  \* mutant: the new description goes to a local variable
  /\ registered # 0 /\ ~Cached /\ file.state = "ok"
  /\ ~reloaded[registered]
  /\ reloaded' = [reloaded EXCEPT ![registered] = TRUE]
  /\ UNCHANGED <<registered, desc, idle, members>>

Reload ==
  /\ registered # 0 /\ ~Cached /\ file.state = "ok"
  /\ ~reloaded[registered]
  /\ desc' = [desc EXCEPT ![registered] = OnDisk]
  /\ reloaded' = [reloaded EXCEPT ![registered] = TRUE]
  /\ UNCHANGED <<registered, idle, members>>

Keep ==
  /\ registered # 0
  /\ Cached \/ reloaded[registered] \/ file.state = "broken"
  /\ UNCHANGED instances

AddSucceeds ==
  \/ registered = 0 /\ file.state = "ok" /\ Create(OnDisk)
  \/ Reload
  \/ Keep

(* Add(name, d) trusts its argument, however old.                          *)
AddGiven(d) ==
  IF registered = 0 THEN Create(d)
  ELSE /\ desc' = [desc EXCEPT ![registered] = d]
       /\ UNCHANGED <<registered, reloaded, idle, members>>

-----------------------------------------------------------------------------
(* AddClient and DelClient.                                                *)

(* AddClient calls Add, which releases both mutexes ...                    *)
Join(s) ==
  /\ pc[s] = "out"
  /\ \/ /\ AddSucceeds
        /\ pc' = [pc EXCEPT ![s] = "adding"] /\ at' = [at EXCEPT ![s] = registered']
     \/ AddFails /\ UNCHANGED sessions
  /\ UNCHANGED <<file, updater>>

(* ... and then takes g.mu to insert the client into what Add returned.    *)
Insert(s) ==
  /\ pc[s] = "adding"
  /\ members' = [members EXCEPT ![at[s]] = @ \cup {s}]
  /\ idle' = [idle EXCEPT ![at[s]] = FALSE]
  /\ pc' = [pc EXCEPT ![s] = "joining"]
  /\ UNCHANGED <<file, registered, desc, reloaded, at, updater>>

(* Bad credentials, a locked or a full group, an id in use.                *)
Refuse(s) ==
  /\ pc[s] = "adding"
  /\ pc' = [pc EXCEPT ![s] = "out"] /\ at' = [at EXCEPT ![s] = 0]
  /\ UNCHANGED <<file, instances, updater>>

(* The joinedAction of the join is handled: it looks the group up by name. *)
HandleJoined(s) ==
  /\ pc[s] = "joining"
  /\ pc' = [pc EXCEPT ![s] = "in"]
  /\ UNCHANGED <<file, instances, at, updater>>

LeaveUncounted(s) ==  \* mutant: the client stays in the map
  /\ pc[s] \in {"joining", "in"}
  /\ idle' = [idle EXCEPT ![at[s]] = FALSE]
  /\ pc' = [pc EXCEPT ![s] = "out"] /\ at' = [at EXCEPT ![s] = 0]
  /\ UNCHANGED <<file, registered, desc, reloaded, members, updater>>

Leave(s) ==
  /\ pc[s] \in {"joining", "in"}
  /\ members' = [members EXCEPT ![at[s]] = @ \ {s}]
  /\ idle' = [idle EXCEPT ![at[s]] = FALSE]
  /\ pc' = [pc EXCEPT ![s] = "out"] /\ at' = [at EXCEPT ![s] = 0]
  /\ UNCHANGED <<file, registered, desc, reloaded, updater>>

(* The page of a group, its status, the websocket handshake and the WHIP   *)
(* endpoint call Add too, and forget what it returns.                      *)
Lookup ==
  /\ AddSucceeds \/ AddFails
  /\ UNCHANGED <<file, sessions, updater>>

-----------------------------------------------------------------------------
(* group.Update: at startup, and in a goroutine every fifteen minutes.     *)

MayExpire(g) == ~desc[g].public /\ members[g] = {} /\ idle[g]

Goto(next, d) == upc' = next /\ seen' = d

(* GetNames, then Get and mayExpire.                                       *)
Visit ==
  /\ upc = "names"
  /\ Goto(IF registered = 0 THEN "walk"
          ELSE IF MayExpire(registered) THEN "expire" ELSE "refresh", NoDescription)
  /\ UNCHANGED <<file, instances, sessions>>

(* Delete takes whatever instance has the name by now, and only asks that  *)
(* it be empty.                                                            *)
Expire ==
  /\ upc = "expire"
  /\ IF registered = 0 THEN UNCHANGED registered ELSE Unregister
  /\ Goto(IF registered # 0 /\ registered' = 0 THEN "walk" ELSE "refresh", NoDescription)
  /\ UNCHANGED <<file, desc, reloaded, idle, members, sessions>>

Refresh ==
  /\ upc = "refresh"
  /\ AddSucceeds \/ AddFails
  /\ Goto("walk", NoDescription)
  /\ UNCHANGED <<file, sessions>>

(* GetDescription, for a file the walk came across.                        *)
Walk ==
  /\ upc = "walk"
  /\ \/ Cached /\ Goto("publish", desc[registered])
     \/ ~Cached /\ file.state = "ok" /\ Goto("publish", OnDisk)
     \/ ~Cached /\ file.state # "ok" /\ Goto("names", NoDescription)
  /\ UNCHANGED <<file, instances, sessions>>

PublishNothing ==  \* mutant: public groups are left for their first client to load
  /\ upc = "publish"
  /\ Goto("names", NoDescription)
  /\ UNCHANGED <<file, sessions, instances>>

Publish ==
  /\ upc = "publish"
  /\ IF seen.public THEN AddGiven(seen) ELSE UNCHANGED instances
  /\ Goto("names", NoDescription)
  /\ UNCHANGED <<file, sessions>>

-----------------------------------------------------------------------------
(* The file changes, and time passes.                                      *)

Edit(p, st) ==
  /\ file.version < MaxVersions
  /\ file' = [version |-> file.version + 1, public |-> p, state |-> st]
  /\ UNCHANGED <<instances, sessions, updater>>

Minute(g) ==
  /\ reloaded[g]
  /\ reloaded' = [reloaded EXCEPT ![g] = FALSE]
  /\ UNCHANGED <<file, registered, desc, idle, members, sessions, updater>>

Age(g) ==
  /\ ~Free(g) /\ ~idle[g]
  /\ idle' = [idle EXCEPT ![g] = TRUE]
  /\ UNCHANGED <<file, registered, desc, reloaded, members, sessions, updater>>

Update == Visit \/ Expire \/ Refresh \/ Walk \/ Publish

Next ==
  \/ \E s \in Sessions :
       Join(s) \/ Insert(s) \/ Refuse(s) \/ HandleJoined(s) \/ Leave(s)
  \/ Lookup
  \/ Update
  \/ \E p \in BOOLEAN, st \in {"ok", "broken", "absent"} : Edit(p, st)
  \/ \E g \in Instance : Minute(g) \/ Age(g)

(* Update runs again and again, and its goroutine is scheduled; a minute   *)
(* passes.                                                                 *)
Fairness == WF_vars(Update) /\ \A g \in Instance : WF_vars(Minute(g))

Spec == Init /\ [][Next]_vars /\ Fairness

-----------------------------------------------------------------------------

(* The variables have their shape; the clients of an instance are exactly  *)
(* the sessions that are in it, registered or not (AddClient, DelClient);  *)
(* and no description is newer than the file it was read from (add).       *)
TypeOK ==
  /\ file \in File
  /\ registered \in Instance \cup {0}
  /\ desc \in [Instance -> Description]
  /\ reloaded \in [Instance -> BOOLEAN] /\ idle \in [Instance -> BOOLEAN]
  /\ members \in [Instance -> SUBSET Sessions]
  /\ pc \in [Sessions -> {"out", "adding", "joining", "in"}]
  /\ at \in [Sessions -> Instance \cup {0}]
  /\ \A s \in Sessions : pc[s] = "out" <=> at[s] = 0
  /\ \A g \in Instance : members[g] = {s \in Sessions : at[s] = g /\ pc[s] # "adding"}
  /\ upc \in {"names", "expire", "refresh", "walk", "publish"}
  /\ seen \in Description
  /\ seen.version <= file.version
  /\ \A g \in Instance : desc[g].version <= file.version

(* A group with somebody in it is never taken out of the map, whether it   *)
(* expires, its file is removed, or both: deleteUnlocked, called by        *)
(* Delete some time after mayExpire looked, and by add.                    *)
OccupiedStays ==
  [][\A g \in Instance :
       registered = g /\ members[g] # {} => registered' = g]_vars

(* Once the file is left alone, the group in memory has the description    *)
(* that is on disk: the reload in add, its one-minute throttle, and        *)
(* Update, which may itself carry an older description for a while.        *)
CatchesUp ==
  <>[](registered # 0 /\ file.state = "ok" => desc[registered].version = file.version)

(* Once its file is gone and its clients have left, a group is forgotten,  *)
(* even if Update was bringing it back from what it had read before.       *)
Forgets ==
  <>[](file.state = "absent" /\ \A g \in Instance : members[g] = {})
    => <>[](registered = 0)

(* A public group is in memory, so that it is listed, from some time after *)
(* its file says so: the walk in Update, mayExpire.                        *)
PublicServed ==
  <>[](file.state = "ok" /\ file.public) => <>[](registered # 0)

(* "g is null when joining, this shouldn't happen" (webclient.go:1307):    *)
(* a session that handles its join finds the group it is in.               *)
JoinFindsGroup ==
  \A s \in Sessions : pc[s] = "joining" => registered = at[s]
=============================================================================
