---------------------------- MODULE RegistryProofs ----------------------------
(***************************************************************************)
(* Type correctness of module Registry, with the agreement of the clients  *)
(* of an instance and the sessions in it, and the fact that an occupied    *)
(* group stays registered, for any number of sessions and file changes.    *)
(***************************************************************************)
EXTENDS Registry, TLAPS

(* The instance Create uses is one nobody has a pointer to: add.           *)
LEMMA NewInstanceFree ==
  ASSUME \E g \in Instance : Free(g)
  PROVE  NewInstance \in Instance /\ Free(NewInstance)
BY DEF NewInstance

(* What every outcome of add keeps of the instances' shape, provided that  *)
(* the description it is given is one, and is not newer than the file.     *)
LEMMA CreateTyped ==
  ASSUME TypeOK, NEW d \in Description, d.version <= file.version, Create(d)
  PROVE  /\ registered' \in Instance
         /\ desc' \in [Instance -> Description]
         /\ reloaded' \in [Instance -> BOOLEAN] /\ idle' \in [Instance -> BOOLEAN]
         /\ members' = members
         /\ \A g \in Instance : desc'[g].version <= file.version
         /\ registered' # registered
<1>1. NewInstance \in Instance /\ Free(NewInstance)
  BY NewInstanceFree DEF Create
<1>2. members[NewInstance] = {}
  BY <1>1 DEF TypeOK, Free
<1>3. members' = members
  BY <1>1, <1>2 DEF Create, TypeOK
<1> QED
  BY <1>1, <1>3 DEF Create, TypeOK, Free

(* Add(name, nil) returns an instance, or an error: group.Add.             *)
LEMMA AddTyped ==
  ASSUME TypeOK, AddSucceeds \/ AddFails
  PROVE  /\ registered' \in Instance \cup {0}
         /\ AddSucceeds => registered' \in Instance
         /\ desc' \in [Instance -> Description]
         /\ reloaded' \in [Instance -> BOOLEAN] /\ idle' \in [Instance -> BOOLEAN]
         /\ members' = members
         /\ \A g \in Instance : desc'[g].version <= file.version
         /\ \A g \in Instance :
              registered = g /\ members[g] # {} => registered' = g
<1> USE DEF instances
<1>1. /\ OnDisk \in Description /\ OnDisk.version = file.version
      /\ file.version <= file.version
  BY DEF OnDisk, Description, File, TypeOK, Version
<1>2. CASE registered = 0 /\ Create(OnDisk)
  <2>1. 0 \notin Instance
    BY DEF Instance
  <2> QED
    BY <1>1, <1>2, <2>1, CreateTyped
<1>3. CASE Reload
  BY <1>1, <1>3 DEF Reload, TypeOK
<1>4. CASE Keep
  BY <1>4 DEF Keep, TypeOK
<1>5. CASE AddFails
  <2>1. ~AddSucceeds \/ registered' \in Instance
    BY <1>1, <1>3, <1>4, CreateTyped DEF AddSucceeds, Reload, Keep, TypeOK
  <2> QED
    BY <1>5, <2>1 DEF AddFails, Unregister, TypeOK
<1> QED
  BY <1>2, <1>3, <1>4, <1>5 DEF AddSucceeds

(* Each step keeps the shape of the variables, and the clients of an       *)
(* instance in agreement with the sessions.                                *)
LEMMA StepTyped ==
  TypeOK /\ [Next]_vars => TypeOK'
<1> USE DEF instances, sessions, updater
<1>1. SUFFICES ASSUME TypeOK, [Next]_vars PROVE TypeOK'
  OBVIOUS
<1>2. /\ file.version \in Nat /\ 0 \notin Instance
      /\ NoDescription \in Description /\ NoDescription.version <= file.version
      /\ OnDisk \in Description /\ OnDisk.version <= file.version
  BY <1>1, RegistryAssumption
     DEF TypeOK, File, Version, NoDescription, Description, OnDisk, Instance
<1>3. ASSUME NEW s \in Sessions, Join(s) PROVE TypeOK'
  <2>1. CASE AddSucceeds /\ pc' = [pc EXCEPT ![s] = "adding"]
             /\ at' = [at EXCEPT ![s] = registered']
    BY <1>1, <1>2, <1>3, <2>1, AddTyped DEF Join, TypeOK
  <2>2. CASE AddFails /\ UNCHANGED <<pc, at>>
    BY <1>1, <1>2, <1>3, <2>2, AddTyped DEF Join, TypeOK
  <2> QED
    BY <1>3, <2>1, <2>2 DEF Join
<1>4. ASSUME NEW s \in Sessions, Insert(s) PROVE TypeOK'
  BY <1>1, <1>2, <1>4 DEF Insert, TypeOK
<1>5. ASSUME NEW s \in Sessions, Refuse(s) PROVE TypeOK'
  BY <1>1, <1>2, <1>5 DEF Refuse, TypeOK
<1>6. ASSUME NEW s \in Sessions, HandleJoined(s) PROVE TypeOK'
  BY <1>1, <1>2, <1>6 DEF HandleJoined, TypeOK
<1>7. ASSUME NEW s \in Sessions, Leave(s) PROVE TypeOK'
  BY <1>1, <1>2, <1>7 DEF Leave, TypeOK
<1>8. CASE Lookup
  BY <1>1, <1>2, <1>8, AddTyped DEF Lookup, TypeOK
<1>9. CASE Visit
  BY <1>1, <1>2, <1>9 DEF Visit, Goto, TypeOK
<1>10. CASE Expire
  BY <1>1, <1>2, <1>10 DEF Expire, Goto, Unregister, TypeOK
<1>11. CASE Refresh
  BY <1>1, <1>2, <1>11, AddTyped DEF Refresh, Goto, TypeOK
<1>12. CASE Walk
  BY <1>1, <1>2, <1>12 DEF Walk, Goto, Cached, TypeOK
<1>13. CASE Publish
  <2>1. CASE registered = 0 /\ Create(seen)
    BY <1>1, <1>2, <1>13, <2>1, CreateTyped DEF Publish, Goto, TypeOK
  <2>2. CASE registered # 0 /\ AddGiven(seen)
    BY <1>1, <1>2, <1>13, <2>2 DEF Publish, AddGiven, Goto, TypeOK
  <2>3. CASE UNCHANGED instances
    BY <1>1, <1>2, <1>13, <2>3 DEF Publish, Goto, TypeOK
  <2> QED
    BY <1>13, <2>1, <2>2, <2>3 DEF Publish, AddGiven
<1>14. ASSUME NEW p \in BOOLEAN, NEW st \in {"ok", "broken", "absent"}, Edit(p, st)
       PROVE  TypeOK'
  <2>1. file' \in File /\ file'.version = file.version + 1
    BY <1>1, <1>2, <1>14, RegistryAssumption DEF Edit, File, Version, TypeOK
  <2>2. \A g \in Instance : desc[g].version \in Nat
    BY <1>1, RegistryAssumption DEF TypeOK, Description, Version
  <2>3. seen.version \in Nat
    BY <1>1, RegistryAssumption DEF TypeOK, Description, Version
  <2>4. /\ \A g \in Instance : desc[g].version <= file.version + 1
        /\ seen.version <= file.version + 1
    BY <1>1, <1>2, <2>2, <2>3 DEF TypeOK
  <2> QED
    BY <1>1, <1>14, <2>1, <2>4 DEF Edit, TypeOK
<1>15. ASSUME NEW g \in Instance, Minute(g) PROVE TypeOK'
  BY <1>1, <1>2, <1>15 DEF Minute, TypeOK
<1>16. ASSUME NEW g \in Instance, Age(g) PROVE TypeOK'
  BY <1>1, <1>2, <1>16 DEF Age, TypeOK
<1>17. CASE UNCHANGED vars
  BY <1>1, <1>17 DEF vars, TypeOK
<1> QED
  BY <1>1, <1>3, <1>4, <1>5, <1>6, <1>7, <1>8, <1>9, <1>10, <1>11, <1>12,
     <1>13, <1>14, <1>15, <1>16, <1>17 DEF Next, Update

(* Type correctness of the registry, for every set of sessions and every   *)
(* bound, with the agreement between g.clients and the sessions that       *)
(* AddClient and DelClient maintain, for orphaned instances too.           *)
THEOREM TypeCorrect == Spec => []TypeOK
<1>1. Init => TypeOK
  <2>1. 0 \in Version /\ 0 \notin Instance /\ 0 <= 0
    BY RegistryAssumption DEF Version, Instance
  <2> QED
    BY <2>1 DEF Init, TypeOK, File, NoDescription, Description
<1> QED
  BY <1>1, StepTyped, PTL DEF Spec

(* Nothing takes an occupied group out of the map: not the expiry that     *)
(* Update decided on before the clients came, and not the removal of the   *)
(* file.                                                                   *)
LEMMA StepKeepsOccupied ==
  ASSUME TypeOK, [Next]_vars, NEW g \in Instance, registered = g, members[g] # {}
  PROVE  registered' = g
<1> USE DEF instances
<1>1. registered # 0
  BY DEF Instance
<1>2. CASE AddSucceeds \/ AddFails
  BY <1>2, AddTyped
<1>3. CASE Expire
  BY <1>1, <1>3 DEF Expire, Unregister
<1>4. CASE Publish
  BY <1>1, <1>4 DEF Publish, AddGiven
<1>5. CASE UNCHANGED registered
  BY <1>5
<1> QED
  BY <1>2, <1>3, <1>4, <1>5
     DEF Next, Update, Join, Insert, Refuse, HandleJoined, Leave, Lookup, Visit,
         Refresh, Walk, Edit, Minute, Age, vars

THEOREM OccupiedRemains == Spec => OccupiedStays
<1>1. TypeOK /\ [Next]_vars
      => [\A g \in Instance :
            registered = g /\ members[g] # {} => registered' = g]_vars
  BY StepKeepsOccupied
<1> QED
  BY <1>1, TypeCorrect, PTL DEF Spec, OccupiedStays
=============================================================================
