--------------------------- MODULE MembershipProofs --------------------------
(***************************************************************************)
(* Proofs about who is in a group, for any number of sessions, browsers    *)
(* and users, and for every description of the group.                      *)
(***************************************************************************)
EXTENDS Membership, FiniteSetTheorems, SequenceTheorems, TLAPS

-----------------------------------------------------------------------------
(* What the operators return.                                              *)

(* A finite set leaves one of the first numbers free: the choices of Fresh *)
(* and of Spawn exist.                                                     *)
LEMMA NumberLeft ==
  ASSUME NEW S, IsFiniteSet(S)
  PROVE  \E n \in 1..Cardinality(S) + 1 : n \notin S
<1>1. Cardinality(S) \in Nat
  BY FS_CardinalityType
<1>2. SUFFICES ASSUME 1..Cardinality(S) + 1 \subseteq S PROVE FALSE
  OBVIOUS
<1>3. Cardinality(1..Cardinality(S) + 1) <= Cardinality(S)
  BY <1>2, FS_Subset
<1>4. Cardinality(1..Cardinality(S) + 1) = Cardinality(S) + 1
  BY <1>1, FS_Interval
<1> QED BY <1>1, <1>3, <1>4

(* The values of a function with a finite domain are finitely many.        *)
LEMMA ValuesFinite ==
  ASSUME NEW S, IsFiniteSet(S), NEW T, NEW f \in [S -> T]
  PROVE  IsFiniteSet({f[x] : x \in S})
<1>1. f \in Surjection(S, {f[x] : x \in S})
  BY DEF Surjection
<1> QED BY <1>1, FS_Surjection

(* newResumeToken yields a token.                                          *)
LEMMA FreshIsToken == ASSUME TypeOK PROVE Fresh \in Nat
<1>1. IsFiniteSet(Sessions) /\ IsFiniteSet(Ids)
  BY ConstantsAssumption
<1>2. /\ token \in [Sessions -> Nat] /\ offered \in [Sessions -> Nat]
      /\ stored \in [Ids -> Nat]
  BY DEF TypeOK
<1>3. IsFiniteSet({token[s] : s \in Sessions})
  BY <1>1, <1>2, ValuesFinite
<1>4. IsFiniteSet({offered[s] : s \in Sessions})
  BY <1>1, <1>2, ValuesFinite
<1>5. IsFiniteSet({stored[i] : i \in Ids})
  BY <1>1, <1>2, ValuesFinite
<1>6. IsFiniteSet(Held)
  BY <1>3, <1>4, <1>5, FS_Union DEF Held
<1>7. \E n \in 1..Cardinality(Held) + 1 : n \notin Held
  BY <1>6, NumberLeft
<1>8. Cardinality(Held) \in Nat
  BY <1>6, FS_CardinalityType
<1> QED BY <1>7, <1>8 DEF Fresh

LEMMA MembersAreSessions == ASSUME TypeOK PROVE Member \subseteq Sessions
BY DEF TypeOK, Member

(* What is queued is an action.                                            *)
LEMMA ActionsTyped ==
  /\ \A s \in Sessions, k \in {"join", "change", "leave"} :
       JoinedAction(s, k) \in Action
  /\ \A s \in Sessions, k \in {"add", "change", "delete"}, o \in BOOLEAN :
       UserAction(k, s, o) \in Action
  /\ PermsAction \in Action
  /\ KickAction \in Action
<1> USE ConstantsAssumption DEF Action
<1>1. ASSUME NEW s \in Sessions, NEW k \in {"join", "change", "leave"}
      PROVE  JoinedAction(s, k) \in Action
  BY <1>1 DEF JoinedAction
<1>2. ASSUME NEW s \in Sessions, NEW k \in {"add", "change", "delete"},
             NEW o \in BOOLEAN
      PROVE  UserAction(k, s, o) \in Action
  BY <1>2 DEF UserAction
<1>3. PermsAction \in Action /\ KickAction \in Action
  BY DEF PermsAction, KickAction
<1> QED BY <1>1, <1>2, <1>3

LEMMA PutTyped ==
  ASSUME NEW q \in [Sessions -> Seq(Action)], NEW T, NEW a \in Action
  PROVE  Put(q, T, a) \in [Sessions -> Seq(Action)]
BY AppendProperties DEF Put

LEMMA PutJoinedTyped ==
  ASSUME NEW q \in [Sessions -> Seq(Action)], NEW T,
         NEW k \in {"join", "change", "leave"}
  PROVE  PutJoined(q, T, k) \in [Sessions -> Seq(Action)]
BY AppendProperties, ActionsTyped DEF PutJoined

LEMMA SpawnTyped ==
  ASSUME async \subseteq Goroutine, IsFiniteSet(async),
         NEW a \in Action, NEW T \in SUBSET Sessions
  PROVE  Spawn(a, T) \subseteq Goroutine /\ IsFiniteSet(Spawn(a, T))
<1> DEFINE names == {r.n : r \in async}
           n == CHOOSE k \in 1..Cardinality(async) + 1 : \A r \in async : r.n # k
<1>1. Cardinality(async) \in Nat
  BY FS_CardinalityType
<1>2. [r \in async |-> r.n] \in Surjection(async, names)
  BY DEF Surjection
<1>3. IsFiniteSet(names) /\ Cardinality(names) <= Cardinality(async)
  BY <1>2, FS_Surjection
<1>4. PICK k \in 1..Cardinality(names) + 1 : k \notin names
  BY <1>3, NumberLeft
<1>5. Cardinality(names) \in Nat
  BY <1>3, FS_CardinalityType
<1>6. k \in 1..Cardinality(async) + 1 /\ \A r \in async : r.n # k
  BY <1>1, <1>3, <1>4, <1>5
<1>7. n \in 1..Cardinality(async) + 1
  BY <1>6
<1>8. n \in Nat
  BY <1>1, <1>7
<1>9. [n |-> n, put |-> a, todo |-> T] \in Goroutine
  BY <1>8 DEF Goroutine
<1>10. Spawn(a, T) = async \cup {[n |-> n, put |-> a, todo |-> T]}
  BY DEF Spawn
<1> HIDE DEF names, n
<1>11. Spawn(a, T) \subseteq Goroutine
  BY <1>9, <1>10
<1>12. IsFiniteSet(Spawn(a, T))
  BY <1>10, FS_AddElement
<1> QED BY <1>11, <1>12

(* autoLockKick keeps the shape of the state it writes.                    *)
LEMMA AutoLockKickTyped ==
  ASSUME TypeOK, IsFiniteSet(async), NEW q \in [Sessions -> Seq(Action)],
         AutoLockKick(q)
  PROVE  /\ locked' \in BOOLEAN
         /\ actions' \in [Sessions -> Seq(Action)]
         /\ async' \subseteq Goroutine
         /\ IsFiniteSet(async')
<1>1. locked' \in BOOLEAN
  BY ConstantsAssumption DEF AutoLockKick, TypeOK, MustLock, NoOperator
<1>2. actions' \in [Sessions -> Seq(Action)]
  BY PutJoinedTyped DEF AutoLockKick
<1>3. async' = async \/ async' = Spawn(KickAction, Member)
  BY DEF AutoLockKick
<1>4. async \subseteq Goroutine
  BY DEF TypeOK
<1>5. KickAction \in Action /\ Member \in SUBSET Sessions
  BY ActionsTyped, MembersAreSessions
<1>6. Spawn(KickAction, Member) \subseteq Goroutine /\ IsFiniteSet(Spawn(KickAction, Member))
  BY <1>4, <1>5, SpawnTyped
<1> QED BY <1>1, <1>2, <1>3, <1>4, <1>6

(* So does leaveGroup.                                                     *)
LEMMA LeaveGroupTyped ==
  ASSUME TypeOK, NEW s \in Sessions, NEW end \in {"idle", "gone"},
         NEW q \in [Sessions -> Seq(Action)], LeaveGroup(s, end, q)
  PROVE  /\ members' \in [Ids -> Sessions \cup {None}]
         /\ todo' \in [Sessions -> SUBSET Sessions]
         /\ after' \in [Sessions -> {"idle", "gone"}]
         /\ pc' \in [Sessions -> {"idle", "adding", "greeting", "announcing",
                                  "leaving", "locking", "gone"}]
         /\ actions' \in [Sessions -> Seq(Action)]
         /\ inGroup' \in [Sessions -> BOOLEAN]
         /\ op' \in [Sessions -> BOOLEAN]
<1>1. IdOf[s] \in Ids
  BY ConstantsAssumption
<1>2. CASE inGroup[s] /\ Current(s)
  <2>1. Member \subseteq Sessions
    BY MembersAreSessions
  <2>2. actions' \in [Sessions -> Seq(Action)]
    BY <1>2, PutJoinedTyped DEF LeaveGroup
  <2>3. todo' = [todo EXCEPT ![s] = Member \ {s}]
    BY <1>2 DEF LeaveGroup
  <2>4. todo' \in [Sessions -> SUBSET Sessions]
    BY <2>1, <2>3 DEF TypeOK
  <2>5. members' \in [Ids -> Sessions \cup {None}]
    BY <1>1, <1>2 DEF LeaveGroup, TypeOK
  <2> QED BY ZenonT(80), <1>2, <2>2, <2>4, <2>5 DEF LeaveGroup, TypeOK
<1>3. CASE ~(inGroup[s] /\ Current(s))
  <2>1. <<>> \in Seq(Action)
    BY EmptySeq
  <2>2. actions' \in [Sessions -> Seq(Action)]
    BY <1>3, <2>1 DEF LeaveGroup
  <2>3. op' \in [Sessions -> BOOLEAN]
    BY <1>3 DEF LeaveGroup, TypeOK
  <2>4. inGroup' \in [Sessions -> BOOLEAN] /\ pc' = [pc EXCEPT ![s] = end]
    BY <1>3 DEF LeaveGroup, TypeOK
  <2>5. UNCHANGED <<members, todo, after>>
    BY <1>3 DEF LeaveGroup, leaving
  <2> QED BY <2>2, <2>3, <2>4, <2>5 DEF TypeOK
<1> QED BY <1>2, <1>3

-----------------------------------------------------------------------------
(* Shape of the state.  The goroutines in flight have to be finitely many, *)
(* or the name of the next one would not exist.                            *)
TypeInv == TypeOK /\ IsFiniteSet(async)

(* Every variable keeps its shape, whatever the sessions do.               *)
THEOREM TypeCorrect == Spec => []TypeOK
<1>1. Init => TypeInv
  <2>1. <<>> \in Seq(Action)
    BY EmptySeq
  <2>2. Autolock \in BOOLEAN
    BY ConstantsAssumption
  <2>3. [s \in Sessions |-> [i \in Ids |-> "absent"]]
          \in [Sessions -> [Ids -> {"absent", "user", "op"}]]
    OBVIOUS
  <2>4. IsFiniteSet({})
    BY FS_EmptySet
  <2>5. [s \in Sessions |-> [group |-> FALSE, locked |-> FALSE, op |-> FALSE]]
          \in [Sessions -> [group : BOOLEAN, locked : BOOLEAN, op : BOOLEAN]]
    OBVIOUS
  <2> SUFFICES ASSUME Init PROVE TypeInv
    OBVIOUS
  <2>6. roster \in [Sessions -> [Ids -> {"absent", "user", "op"}]]
    BY <2>3 DEF Init
  <2>7. view \in [Sessions -> [group : BOOLEAN, locked : BOOLEAN, op : BOOLEAN]]
    BY <2>5 DEF Init
  <2>8. actions \in [Sessions -> Seq(Action)]
    BY <2>1 DEF Init
  <2>9. async \subseteq Goroutine /\ IsFiniteSet(async)
    BY <2>4 DEF Init
  <2> QED BY <2>2, <2>6, <2>7, <2>8, <2>9 DEF Init, TypeOK, TypeInv
<1>2. TypeInv /\ [Next]_vars => TypeInv'
  <2> SUFFICES ASSUME TypeInv, [Next]_vars PROVE TypeInv'
    OBVIOUS
  <2>0. TypeOK /\ IsFiniteSet(async) /\ async \subseteq Goroutine
        /\ actions \in [Sessions -> Seq(Action)]
    BY DEF TypeInv, TypeOK
  <2>00. \A s \in Sessions : IdOf[s] \in Ids
    BY ConstantsAssumption
  <2> USE <2>0 DEF TypeInv, adding, leaving, browser, counters
  <2>1. ASSUME NEW s \in Sessions, Join(s) PROVE TypeInv'
    <3>1. stored[IdOf[s]] \in Nat
      BY <2>00 DEF TypeOK
    <3> QED BY SMTT(40), <2>1, <3>1, AutoLockKickTyped DEF Join, TypeOK
  <2>2. ASSUME NEW s \in Sessions, Refuse(s) PROVE TypeInv'
    BY <2>2 DEF Refuse, TypeOK
  <2>3. ASSUME NEW s \in Sessions, Bar(s) PROVE TypeInv'
    BY <2>3 DEF Bar, TypeOK, IsOp
  <2>4. ASSUME NEW s \in Sessions, TurnAway(s) PROVE TypeInv'
    BY <2>4, FreshIsToken DEF TurnAway, TypeOK
  <2>5. ASSUME NEW s \in Sessions, Insert(s) PROVE TypeInv'
    <3>1. members[IdOf[s]] \in Sessions \cup {None}
      BY <2>00 DEF TypeOK
    <3>2. members[IdOf[s]] # None => token[members[IdOf[s]]] \in Nat
      BY <3>1 DEF TypeOK
    <3>3. Others(members[IdOf[s]], s) \subseteq Sessions
      BY MembersAreSessions DEF Others
    <3> QED BY SMTT(40), <2>5, <2>00, <3>1, <3>2, <3>3, FreshIsToken DEF Insert, TypeOK, IsOp
  <2>6. ASSUME NEW s \in Sessions, Greet(s) PROVE TypeInv'
    <3>1. PutJoined(actions, {s}, "join") \in [Sessions -> Seq(Action)]
      BY PutJoinedTyped
    <3>2. UserAction("add", s, op[s]) \in Action
      BY ActionsTyped DEF TypeOK
    <3>3. actions' \in [Sessions -> Seq(Action)]
      BY <2>6, <3>1, <3>2, PutTyped DEF Greet
    <3> QED BY <2>6, <3>3 DEF Greet, TypeOK
  <2>7. ASSUME NEW s \in Sessions, NEW t \in Sessions, Announce(s, t) PROVE TypeInv'
    <3>1. UserAction("add", t, pp[s]) \in Action
      BY ActionsTyped DEF TypeOK
    <3>2. /\ UserAction("add", s, shown[s]) \in Action
          /\ UserAction("change", s, shown[s]) \in Action
      BY ActionsTyped DEF TypeOK
    <3>3. actions' \in [Sessions -> Seq(Action)]
      BY <2>7, <3>1, <3>2, PutTyped DEF Announce
    <3> QED BY <2>7, <3>3 DEF Announce, TypeOK
  <2>8. ASSUME NEW s \in Sessions, Enter(s) PROVE TypeInv'
    BY <2>8, ConstantsAssumption DEF Enter, CloseVictim, EntersGroup, TypeOK
  <2>9. ASSUME NEW s \in Sessions, Leave(s) PROVE TypeInv'
    BY <2>9, LeaveGroupTyped DEF Leave, TypeOK
  <2>10. ASSUME NEW s \in Sessions, Disconnect(s) PROVE TypeInv'
    BY <2>10, LeaveGroupTyped DEF Disconnect, SocketClosed, TypeOK
  <2>11. ASSUME NEW s \in Sessions, NEW t \in Sessions, TellLeft(s, t) PROVE TypeInv'
    <3>1. UserAction("delete", s, FALSE) \in Action
      BY ActionsTyped
    <3>2. actions' \in [Sessions -> Seq(Action)]
      BY <2>11, <3>1, PutTyped DEF TellLeft
    <3> QED BY <2>11, <3>2 DEF TellLeft, TypeOK
  <2>12. ASSUME NEW s \in Sessions, Left(s) PROVE TypeInv'
    <3> DEFINE q == IF after[s] = "gone" THEN [actions EXCEPT ![s] = <<>>] ELSE actions
    <3>1. q \in [Sessions -> Seq(Action)]
      BY EmptySeq
    <3>2. AutoLockKick(q)
      BY <2>12 DEF Left, Relock
    <3>3. after[s] \in {"idle", "gone"}
      BY DEF TypeOK
    <3> HIDE DEF q
    <3> QED BY <2>12, <3>1, <3>2, <3>3, AutoLockKickTyped DEF Left, TypeOK
  <2>13. ASSUME NEW s \in Sessions, Handle(s) PROVE TypeInv'
    <3> DEFINE a == Head(actions[s])
    <3>1. a \in Action /\ Tail(actions[s]) \in Seq(Action)
      BY <2>13, HeadTailProperties DEF Handle
    <3>2. a.op \in BOOLEAN /\ a.id \in Ids \cup {None}
      BY <3>1 DEF Action
    <3>3. [actions EXCEPT ![s] = Tail(@)] \in [Sessions -> Seq(Action)]
      BY <3>1
    <3>4. ASSUME NEW k, ApplyJoined(s, k)
          PROVE  /\ stored' \in [Ids -> Nat]
                 /\ view' \in [Sessions -> [group : BOOLEAN, locked : BOOLEAN,
                                           op : BOOLEAN]]
      <4>1. IdOf[s] \in Ids /\ token[s] \in Nat /\ stored[IdOf[s]] \in Nat
            /\ op[s] \in BOOLEAN /\ locked \in BOOLEAN
        BY <2>00 DEF TypeOK
      <4>2. Remember(stored[IdOf[s]], token[s]) \in Nat
        BY <4>1 DEF Remember
      <4>3. [group |-> TRUE, locked |-> locked, op |-> op[s]]
              \in [group : BOOLEAN, locked : BOOLEAN, op : BOOLEAN]
        BY <4>1
      <4>4. stored \in [Ids -> Nat]
            /\ view \in [Sessions -> [group : BOOLEAN, locked : BOOLEAN, op : BOOLEAN]]
        BY DEF TypeOK
      <4>5. UNCHANGED <<stored, view>>
            \/ /\ stored' = [stored EXCEPT ![IdOf[s]] = Remember(@, token[s])]
               /\ view' = [view EXCEPT ![s] = [group |-> TRUE, locked |-> locked,
                                              op |-> op[s]]]
        BY <3>4 DEF ApplyJoined
      <4> QED BY ZenonT(80), <4>2, <4>3, <4>4, <4>5
    <3>5. HandleJoined(s, a) \/ HandleUser(s, a) \/ HandlePerms(s, a) \/ HandleEnd(s, a)
      BY <2>13 DEF Handle
    <3> HIDE DEF a
    <3>6. CASE HandleJoined(s, a)
      <4>1. /\ stored' \in [Ids -> Nat]
            /\ view' \in [Sessions -> [group : BOOLEAN, locked : BOOLEAN, op : BOOLEAN]]
        BY <3>4, <3>6 DEF HandleJoined
      <4> QED BY <2>13, <3>3, <3>6, <4>1 DEF Handle, HandleJoined, TypeOK
    <3>7. CASE HandleUser(s, a)
      <4>1. Shown(a) \in {"absent", "user", "op"}
        BY <3>2 DEF Shown
      <4>2. roster' \in [Sessions -> [Ids -> {"absent", "user", "op"}]]
        BY <3>7, <4>1 DEF HandleUser, TypeOK
      <4> QED BY <2>13, <3>3, <3>7, <4>2 DEF Handle, HandleUser, TypeOK
    <3>8. CASE HandlePerms(s, a)
      <4>1. /\ stored' \in [Ids -> Nat]
            /\ view' \in [Sessions -> [group : BOOLEAN, locked : BOOLEAN, op : BOOLEAN]]
        BY <3>4, <3>8 DEF HandlePerms
      <4>2. UserAction("change", s, op[s]) \in Action
        BY ActionsTyped DEF TypeOK
      <4>3. Member \in SUBSET Sessions
        BY MembersAreSessions
      <4>4. async' \subseteq Goroutine /\ IsFiniteSet(async')
        BY <3>8, <4>2, <4>3, SpawnTyped DEF HandlePerms
      <4> QED BY <2>13, <3>3, <3>8, <4>1, <4>4 DEF Handle, HandlePerms, TypeOK
    <3>9. CASE HandleEnd(s, a)
      BY <2>13, <3>3, <3>9, LeaveGroupTyped
         DEF Handle, HandleEnd, SocketClosed, TypeOK
    <3> QED BY <3>5, <3>6, <3>7, <3>8, <3>9
  <2>14. ASSUME NEW s \in Sessions, NEW b \in BOOLEAN, SetLocked(s, b) PROVE TypeInv'
    <3>1. Member \subseteq Sessions
      BY MembersAreSessions
    <3> QED BY SMTT(40), <2>14, <3>1, ConstantsAssumption DEF SetLocked, Acting, TypeOK
  <2>15. ASSUME NEW s \in Sessions, NEW t \in Sessions, TellLocked(s, t) PROVE TypeInv'
    BY <2>15, PutJoinedTyped DEF TellLocked, TypeOK
  <2>16. ASSUME NEW s \in Sessions, NEW t \in Sessions, NEW b \in BOOLEAN,
                SetPermissions(s, t, b)
         PROVE  TypeInv'
    <3>1. actions' \in [Sessions -> Seq(Action)]
      BY <2>16, ActionsTyped, PutTyped DEF SetPermissions
    <3>2. acts' \in Nat /\ op' \in [Sessions -> BOOLEAN]
      BY <2>16 DEF SetPermissions, Acting, TypeOK
    <3> QED BY <2>16, <3>1, <3>2 DEF SetPermissions, TypeOK
  <2>17. ASSUME NEW s \in Sessions, NEW t \in Sessions, Kick(s, t) PROVE TypeInv'
    <3>1. actions' \in [Sessions -> Seq(Action)]
      BY <2>17, ActionsTyped, PutTyped DEF Kick
    <3>2. acts' \in Nat
      BY <2>17 DEF Kick, Acting, TypeOK
    <3> QED BY <2>17, <3>1, <3>2 DEF Kick, TypeOK
  <2>18. CASE Update
    BY <2>18, ConstantsAssumption, AutoLockKickTyped DEF Update, TypeOK
  <2>19. ASSUME NEW r \in async, NEW t \in Sessions, Push(r, t) PROVE TypeInv'
    <3>1. r.put \in Action /\ [r EXCEPT !.todo = @ \ {t}] \in Goroutine
      BY DEF Goroutine
    <3>2. actions' \in [Sessions -> Seq(Action)]
      BY <2>19, <3>1, PutTyped DEF Push
    <3>3. IsFiniteSet(async \ {r})
          /\ IsFiniteSet((async \ {r}) \cup {[r EXCEPT !.todo = @ \ {t}]})
      BY FS_RemoveElement, FS_AddElement
    <3>4. async' \subseteq Goroutine /\ IsFiniteSet(async')
      BY <2>19, <3>1, <3>3 DEF Push
    <3> QED BY <2>19, <3>2, <3>4 DEF Push, TypeOK
  <2>20. ASSUME NEW s \in Sessions, NEW t \in Sessions, Look(s, t) PROVE TypeInv'
    BY <2>20 DEF Look, TypeOK
  <2>21. CASE UNCHANGED vars
    BY <2>21 DEF vars, TypeOK
  <2> QED
    BY <2>1, <2>2, <2>3, <2>4, <2>5, <2>6, <2>7, <2>8, <2>9, <2>10, <2>11, <2>12,
       <2>13, <2>14, <2>15, <2>16, <2>17, <2>18, <2>19, <2>20, <2>21
       DEF Next, Proceed, Operate
<1>3. TypeInv => TypeOK
  BY DEF TypeInv
<1> QED BY <1>1, <1>2, <1>3, PTL DEF Spec

-----------------------------------------------------------------------------
(* MaxClients.  Operators are not counted, and a session that replaces     *)
(* another has the username, hence the privileges, of the one it replaces. *)
Ordinary(m) == {i \in Ids : m[i] # None /\ ~IsOp(m[i])}

(* Only AddClient and DelClient write g.clients.                           *)
LEMMA MembersChange ==
  ASSUME [Next]_vars
  PROVE  \/ UNCHANGED members
         \/ \E s \in Sessions : members' = [members EXCEPT ![IdOf[s]] = None]
         \/ \E s \in Sessions : Insert(s)
<1> USE DEF adding, leaving, browser, counters
<1>1. ASSUME NEW s \in Sessions, NEW end, NEW q, LeaveGroup(s, end, q)
      PROVE  UNCHANGED members \/ members' = [members EXCEPT ![IdOf[s]] = None]
  BY <1>1 DEF LeaveGroup
<1>2. ASSUME NEW s \in Sessions, Handle(s)
      PROVE  UNCHANGED members \/ members' = [members EXCEPT ![IdOf[s]] = None]
  BY <1>1, <1>2 DEF Handle, HandleJoined, HandleUser, HandlePerms, HandleEnd
<1>3. ASSUME NEW s \in Sessions, Leave(s) \/ Disconnect(s)
      PROVE  UNCHANGED members \/ members' = [members EXCEPT ![IdOf[s]] = None]
  BY <1>1, <1>3 DEF Leave, Disconnect
<1>4. ASSUME NEW s \in Sessions,
             \/ Join(s) \/ Refuse(s) \/ Bar(s) \/ TurnAway(s) \/ Greet(s)
             \/ Enter(s) \/ Left(s) \/ Operate(s)
             \/ \E t \in Sessions : Look(s, t) \/ Announce(s, t) \/ TellLeft(s, t) \/ TellLocked(s, t)
      PROVE  UNCHANGED members
  BY <1>4 DEF Join, Refuse, Bar, TurnAway, Greet, Enter, Left, Operate, Look, Announce,
     TellLeft, TellLocked, SetLocked, SetPermissions, Kick
<1>5. ASSUME Update \/ (\E r \in async, t \in Sessions : Push(r, t)) \/ UNCHANGED vars
      PROVE  UNCHANGED members
  BY <1>5 DEF Update, Push, vars
<1> QED BY <1>2, <1>3, <1>4, <1>5 DEF Next, Proceed

(* MaxClients is respected however joins, departures and replacements      *)
(* interleave.                                                             *)
THEOREM CapacityHolds == Spec => []CapacityRespected
<1>1. ASSUME NEW m PROVE IsFiniteSet(Ordinary(m)) /\ Cardinality(Ordinary(m)) \in Nat
  <2>1. Ordinary(m) \in SUBSET Ids /\ IsFiniteSet(Ids)
    BY ConstantsAssumption DEF Ordinary
  <2> QED BY <2>1, FS_Subset, FS_CardinalityType
<1>2. MaxClients \in Nat
  BY ConstantsAssumption
<1>3. Init => CapacityRespected
  <2> SUFFICES ASSUME Init PROVE Cardinality(Ordinary(members)) <= MaxClients
    BY DEF CapacityRespected, Ordinary
  <2>1. Ordinary(members) = {}
    BY DEF Init, Ordinary
  <2> QED BY <1>2, <2>1, FS_EmptySet
<1>4. TypeOK /\ CapacityRespected /\ [Next]_vars => CapacityRespected'
  <2> SUFFICES ASSUME TypeOK, CapacityRespected, [Next]_vars, MaxClients > 0
               PROVE  Cardinality(Ordinary(members')) <= MaxClients
    BY DEF CapacityRespected, Ordinary, IsOp
  <2>1. Cardinality(Ordinary(members)) <= MaxClients
    BY DEF CapacityRespected, Ordinary
  <2>2. ASSUME Ordinary(members') \subseteq Ordinary(members)
        PROVE  Cardinality(Ordinary(members')) <= MaxClients
    <3>1. Cardinality(Ordinary(members')) <= Cardinality(Ordinary(members))
      BY <1>1, <2>2, FS_Subset
    <3> QED BY <1>1, <1>2, <2>1, <3>1
  <2>3. CASE UNCHANGED members
    BY <2>1, <2>3
  <2>4. ASSUME NEW s \in Sessions, members' = [members EXCEPT ![IdOf[s]] = None]
        PROVE  Cardinality(Ordinary(members')) <= MaxClients
    BY <2>2, <2>4 DEF Ordinary, TypeOK
  <2>5. ASSUME NEW s \in Sessions, Insert(s)
        PROVE  Cardinality(Ordinary(members')) <= MaxClients
    <3>1. IdOf[s] \in Ids /\ members' = [members EXCEPT ![IdOf[s]] = s]
          /\ members \in [Ids -> Sessions \cup {None}]
      BY <2>5, ConstantsAssumption DEF Insert, TypeOK
    <3>2. CASE IsOp(s)
      BY <2>2, <3>1, <3>2 DEF Ordinary
    <3>3. CASE members[IdOf[s]] # None
      <4>1. IsOp(s) <=> IsOp(members[IdOf[s]])
        BY <2>5, <3>3 DEF Insert, Barred, CanReplace, IsOp
      <4> QED BY <2>2, <3>1, <3>3, <4>1 DEF Ordinary
    <3>4. CASE members[IdOf[s]] = None /\ ~Full(s)
      <4> DEFINE here == {i \in Ids : members[i] # None}
      <4>1. IsFiniteSet(here) /\ Cardinality(here) \in Nat
        <5>1. here \in SUBSET Ids /\ IsFiniteSet(Ids)
          BY ConstantsAssumption
        <5> QED BY <5>1, FS_Subset, FS_CardinalityType
      <4>2. Cardinality(here) < MaxClients
        BY <1>2, <3>4, <4>1 DEF Full, Count
      <4>3. Ordinary(members') \subseteq here \cup {IdOf[s]}
        BY <3>1 DEF Ordinary
      <4>4. IsFiniteSet(here \cup {IdOf[s]})
            /\ Cardinality(here \cup {IdOf[s]}) <= Cardinality(here) + 1
        <5>1. IsFiniteSet(here \cup {IdOf[s]})
          BY <4>1, FS_AddElement
        <5>2. Cardinality(here \cup {IdOf[s]}) =
                IF IdOf[s] \in here THEN Cardinality(here) ELSE Cardinality(here) + 1
          BY <4>1, FS_AddElement
        <5> HIDE DEF here
        <5> QED BY <4>1, <5>1, <5>2
      <4>5. Cardinality(Ordinary(members')) <= Cardinality(here \cup {IdOf[s]})
        BY <4>3, <4>4, FS_Subset
      <4>6. Cardinality(here \cup {IdOf[s]}) \in Nat
        BY <4>4, FS_CardinalityType
      <4> HIDE DEF here
      <4> QED BY <1>1, <1>2, <4>1, <4>2, <4>4, <4>5, <4>6
    <3> QED BY <2>5, <3>2, <3>3, <3>4 DEF Insert
  <2> QED BY <2>3, <2>4, <2>5, MembersChange
<1> QED BY <1>3, <1>4, TypeCorrect, PTL DEF Spec

-----------------------------------------------------------------------------
(* Replacement.  A session is the victim of another only while the other   *)
(* is in AddClient, so no step of AddClient overwrites a victim that is    *)
(* still to be closed.                                                     *)
VictimWhileAdding ==
  \A t \in Sessions : victim[t] # None => pc[t] \in {"greeting", "announcing"}

(* Only AddClient's own steps write `victim`, and pc leaves the states of  *)
(* AddClient with Enter, which has closed the victim.                      *)
LEMMA VictimsKept ==
  ASSUME TypeOK, VictimWhileAdding, [Next]_vars
  PROVE  VictimWhileAdding'
<1> USE DEF VictimWhileAdding, adding, leaving, browser, counters
<1>1. ASSUME NEW s \in Sessions, NEW end, NEW q, pc[s] = "idle", UNCHANGED victim,
             LeaveGroup(s, end, q)
      PROVE  VictimWhileAdding'
  BY <1>1 DEF LeaveGroup, TypeOK
<1>2. ASSUME NEW s \in Sessions, Leave(s) \/ Disconnect(s)
      PROVE  VictimWhileAdding'
  BY <1>1, <1>2 DEF Leave, Disconnect
<1>3. ASSUME NEW s \in Sessions, Handle(s)
      PROVE  VictimWhileAdding'
  BY <1>1, <1>3 DEF Handle, HandleJoined, HandleUser, HandlePerms, HandleEnd
<1>4. ASSUME NEW s \in Sessions,
             Join(s) \/ Refuse(s) \/ Bar(s) \/ TurnAway(s) \/ Greet(s) \/ Left(s)
      PROVE  VictimWhileAdding'
  BY <1>4 DEF Join, Refuse, Bar, TurnAway, Greet, Left, TypeOK
<1>5. ASSUME NEW s \in Sessions, Insert(s) \/ Enter(s)
      PROVE  VictimWhileAdding'
  BY ZenonT(80), <1>5 DEF Insert, Enter, TypeOK
<1>6. ASSUME NEW s \in Sessions, Operate(s)
      PROVE  VictimWhileAdding'
  BY <1>6 DEF Operate, SetLocked, SetPermissions, Kick, Acting, TypeOK
<1>7. ASSUME NEW s \in Sessions, NEW t \in Sessions,
             Look(s, t) \/ Announce(s, t) \/ TellLeft(s, t) \/ TellLocked(s, t)
      PROVE  VictimWhileAdding'
  BY <1>7 DEF Look, Announce, TellLeft, TellLocked, TypeOK
<1>8. ASSUME Update \/ (\E r \in async, t \in Sessions : Push(r, t)) \/ UNCHANGED vars
      PROVE  VictimWhileAdding'
  BY <1>8 DEF Update, Push, vars
<1> QED BY <1>2, <1>3, <1>4, <1>5, <1>6, <1>7, <1>8 DEF Next, Proceed

(* What operators do moves a session nowhere but into SetLocked's loop.    *)
LEMMA OperatePc ==
  ASSUME TypeOK, NEW s \in Sessions, Operate(s), NEW x \in Sessions
  PROVE  /\ UNCHANGED <<members, inGroup, victim, closing>>
         /\ pc'[x] = pc[x] \/ (pc[x] = "idle" /\ pc'[x] \in {"idle", "locking"})
<1> USE DEF adding
<1>1. ASSUME NEW b \in BOOLEAN, SetLocked(s, b)
      PROVE  pc'[x] = pc[x] \/ (pc[x] = "idle" /\ pc'[x] \in {"idle", "locking"})
  BY <1>1 DEF SetLocked, Acting, TypeOK
<1>2. ASSUME \/ \E t \in Sessions, b \in BOOLEAN : SetPermissions(s, t, b)
             \/ \E t \in Sessions : Kick(s, t)
      PROVE  pc' = pc
  BY <1>2 DEF SetPermissions, Kick
<1>3. UNCHANGED <<members, inGroup, victim, closing>>
  BY DEF Operate, SetLocked, SetPermissions, Kick
<1> QED BY <1>1, <1>2, <1>3 DEF Operate

(* A session that has been replaced, as long as it believes to be in the   *)
(* group, is closed or about to be.                                        *)
THEOREM ReplacedAreClosed == Spec => []ReplacedIsClosed
<1> DEFINE Inv == VictimWhileAdding /\ ReplacedIsClosed
<1>1. Init => Inv
  BY DEF Init, VictimWhileAdding, ReplacedIsClosed
<1>2. TypeOK /\ Inv /\ [Next]_vars => Inv'
  <2> SUFFICES ASSUME TypeOK, Inv, [Next]_vars PROVE Inv'
    OBVIOUS
  <2>1. VictimWhileAdding'
    BY VictimsKept
  <2>2. \A s \in Sessions : IdOf[s] \in Ids /\ s # None
    BY ConstantsAssumption
  <2> USE DEF ReplacedIsClosed, Current, adding, leaving, browser, counters
  <2>3. ASSUME NEW s \in Sessions, NEW end \in {"idle", "gone"}, NEW q,
               UNCHANGED <<victim, closing>>, LeaveGroup(s, end, q)
        PROVE  ReplacedIsClosed'
    <3> SUFFICES ASSUME NEW x \in Sessions,
                        inGroup'[x] \/ pc'[x] \in {"greeting", "announcing"},
                        pc'[x] # "leaving", members'[IdOf[x]] # x
                 PROVE  closing'[x] \/ \E y \in Sessions : victim'[y] = x
      OBVIOUS
    <3>1. CASE x = s
      BY <2>3, <3>1 DEF LeaveGroup, TypeOK
    <3>2. CASE x # s
      <4>1. members[IdOf[x]] # x
        BY <2>2, <2>3, <3>2 DEF LeaveGroup, TypeOK
      <4> QED BY <2>3, <3>2, <4>1 DEF LeaveGroup, TypeOK
    <3> QED BY <3>1, <3>2
  <2>4. ASSUME NEW s \in Sessions, Leave(s) \/ Disconnect(s)
        PROVE  ReplacedIsClosed'
    BY <2>3, <2>4 DEF Leave, Disconnect
  <2>5. ASSUME NEW s \in Sessions, Handle(s)
        PROVE  ReplacedIsClosed'
    BY <2>3, <2>5 DEF Handle, HandleJoined, HandleUser, HandlePerms, HandleEnd
  <2>6. ASSUME NEW s \in Sessions, Join(s) \/ Refuse(s) \/ Bar(s) \/ TurnAway(s)
        PROVE  ReplacedIsClosed'
    BY SMTT(40), <2>6 DEF Join, Refuse, Bar, TurnAway, TypeOK
  <2>7. ASSUME NEW s \in Sessions, Insert(s)
        PROVE  ReplacedIsClosed'
    <3> SUFFICES ASSUME NEW x \in Sessions,
                        inGroup'[x] \/ pc'[x] \in {"greeting", "announcing"},
                        pc'[x] # "leaving", members'[IdOf[x]] # x
                 PROVE  closing'[x] \/ \E y \in Sessions : victim'[y] = x
      OBVIOUS
    <3>1. pc[s] = "adding" /\ victim[s] = None
      BY <2>7 DEF Insert, VictimWhileAdding
    <3>2. x # s
      BY <2>2, <2>7 DEF Insert, TypeOK
    <3>3. CASE members[IdOf[x]] = x
      <4>1. IdOf[x] = IdOf[s]
        BY <2>2, <2>7, <3>3 DEF Insert, TypeOK
      <4>2. victim'[s] = x
        BY <2>7, <3>3, <4>1 DEF Insert, TypeOK
      <4> QED BY <4>2
    <3>4. CASE members[IdOf[x]] # x
      <4>1. closing[x] \/ \E t \in Sessions : victim[t] = x
        BY <2>7, <3>2, <3>4 DEF Insert, TypeOK
      <4>2. \A t \in Sessions : victim[t] = x => victim'[t] = x
        BY <2>2, <2>7, <3>1 DEF Insert, TypeOK
      <4> QED BY <2>7, <4>1, <4>2 DEF Insert
    <3> QED BY <3>3, <3>4
  <2>8. ASSUME NEW s \in Sessions, Greet(s)
        PROVE  ReplacedIsClosed'
    BY <2>8 DEF Greet, TypeOK
  <2>9. ASSUME NEW s \in Sessions, Enter(s)
        PROVE  ReplacedIsClosed'
    BY <2>2, <2>9 DEF Enter, CloseVictim, TypeOK
  <2>10. ASSUME NEW s \in Sessions, Left(s)
         PROVE  ReplacedIsClosed'
    BY <2>10 DEF Left, TypeOK
  <2>11. ASSUME NEW s \in Sessions, Operate(s)
         PROVE  ReplacedIsClosed'
    <3> SUFFICES ASSUME NEW x \in Sessions,
                        inGroup'[x] \/ pc'[x] \in {"greeting", "announcing"},
                        pc'[x] # "leaving", members'[IdOf[x]] # x
                 PROVE  closing'[x] \/ \E y \in Sessions : victim'[y] = x
      OBVIOUS
    <3> QED BY <2>11, OperatePc
  <2>12. ASSUME NEW s \in Sessions, NEW t \in Sessions,
                Look(s, t) \/ Announce(s, t) \/ TellLeft(s, t) \/ TellLocked(s, t)
         PROVE  ReplacedIsClosed'
    <3> SUFFICES ASSUME NEW x \in Sessions,
                        inGroup'[x] \/ pc'[x] \in {"greeting", "announcing"},
                        pc'[x] # "leaving", members'[IdOf[x]] # x
                 PROVE  closing'[x] \/ \E y \in Sessions : victim'[y] = x
      OBVIOUS
    <3>1. UNCHANGED <<members, inGroup, victim, closing>>
      BY <2>12 DEF Look, Announce, TellLeft, TellLocked
    <3>2. pc'[x] = pc[x] \/ (pc[x] = "locking" /\ pc'[x] = "idle")
      BY ZenonT(80), <2>12 DEF Look, Announce, TellLeft, TellLocked, TypeOK
    <3> QED BY <3>1, <3>2
  <2>13. ASSUME Update \/ (\E r \in async, t \in Sessions : Push(r, t))
                \/ UNCHANGED vars
         PROVE  ReplacedIsClosed'
    BY <2>13 DEF Update, Push, vars
  <2>14. ReplacedIsClosed'
    BY <2>4, <2>5, <2>6, <2>7, <2>8, <2>9, <2>10, <2>11, <2>12, <2>13
       DEF Next, Proceed
  <2> QED BY <2>1, <2>14
<1>3. Inv => ReplacedIsClosed
  OBVIOUS
<1> QED BY <1>1, <1>2, <1>3, TypeCorrect, PTL DEF Spec

-----------------------------------------------------------------------------
(* The members are sessions that are alive: they are under their own id,   *)
(* and their goroutine is where only a member can be.                      *)
MembersAlive ==
  \A i \in Ids : members[i] # None =>
    /\ IdOf[members[i]] = i
    /\ \/ pc[members[i]] \in {"greeting", "announcing"}
       \/ pc[members[i]] \in {"idle", "locking"} /\ inGroup[members[i]]

LEMMA MembersStay ==
  ASSUME ~Redirected, TypeOK, MembersAlive, [Next]_vars
  PROVE  MembersAlive'
<1> DEFINE Alive(i, m) == /\ IdOf[m] = i
                          /\ \/ pc'[m] \in {"greeting", "announcing"}
                             \/ pc'[m] \in {"idle", "locking"} /\ inGroup'[m]
<1> SUFFICES ASSUME NEW i \in Ids, members'[i] # None
             PROVE  Alive(i, members'[i])
  BY DEF MembersAlive
<1>1. \A s \in Sessions : IdOf[s] \in Ids /\ s # None
  BY ConstantsAssumption
<1> USE DEF MembersAlive, adding, leaving, browser, counters
<1>2. ASSUME NEW s \in Sessions, NEW end, NEW q, pc[s] = "idle", LeaveGroup(s, end, q)
      PROVE  members'[i] = members[i] /\ members[i] # s
             /\ pc'[members[i]] = pc[members[i]]
             /\ inGroup'[members[i]] = inGroup[members[i]]
  <2>1. CASE inGroup[s] /\ Current(s)
    <3>1. members' = [members EXCEPT ![IdOf[s]] = None]
      BY <1>2, <2>1 DEF LeaveGroup
    <3>2. i # IdOf[s] /\ members'[i] = members[i]
      BY <1>1, <3>1 DEF TypeOK
    <3>3. members[i] # s
      BY <3>2
    <3> QED BY <1>2, <2>1, <3>2, <3>3 DEF LeaveGroup, TypeOK
  <2>2. CASE ~(inGroup[s] /\ Current(s))
    <3>1. members' = members /\ members[i] # None
      BY <2>2, <1>2 DEF LeaveGroup
    <3>2. members[i] # s
      BY <1>2, <2>2, <3>1 DEF Current
    <3> QED BY <1>2, <2>2, <3>1, <3>2 DEF LeaveGroup, TypeOK
  <2> QED BY <2>1, <2>2
<1>3. ASSUME members'[i] = members[i], pc'[members[i]] = pc[members[i]],
             inGroup'[members[i]] = inGroup[members[i]]
      PROVE  Alive(i, members'[i])
  BY <1>3
<1>4. ASSUME NEW s \in Sessions, Leave(s) \/ Disconnect(s)
      PROVE  Alive(i, members'[i])
  BY <1>2, <1>3, <1>4 DEF Leave, Disconnect
<1>5. ASSUME NEW s \in Sessions, Handle(s)
      PROVE  Alive(i, members'[i])
  BY <1>2, <1>3, <1>5 DEF Handle, HandleJoined, HandleUser, HandlePerms, HandleEnd
<1>6. ASSUME NEW s \in Sessions, Join(s) \/ Refuse(s) \/ Bar(s) \/ TurnAway(s)
      PROVE  Alive(i, members'[i])
  <2>1. members' = members /\ inGroup' = inGroup
    BY <1>6 DEF Join, Refuse, Bar, TurnAway
  <2>2. members[i] # s
    BY <1>6, <2>1 DEF Join, Refuse, Bar, TurnAway
  <2>3. pc'[members[i]] = pc[members[i]]
    BY <1>6, <2>2 DEF Join, Refuse, Bar, TurnAway, TypeOK
  <2> QED BY <1>3, <2>1, <2>3
<1>7. ASSUME NEW s \in Sessions, Insert(s)
      PROVE  Alive(i, members'[i])
  <2>1. members' = [members EXCEPT ![IdOf[s]] = s] /\ inGroup' = inGroup
        /\ pc[s] = "adding" /\ pc' = [pc EXCEPT ![s] = "greeting"]
    BY <1>7 DEF Insert
  <2>2. CASE i = IdOf[s]
    BY <2>1, <2>2 DEF TypeOK
  <2>3. CASE i # IdOf[s]
    <3>1. members'[i] = members[i] /\ members[i] \in Sessions
      BY <2>1, <2>3 DEF TypeOK
    <3>2. members[i] # s
      BY <2>1, <3>1
    <3> QED BY <1>3, <2>1, <3>1, <3>2 DEF TypeOK
  <2> QED BY <2>2, <2>3
<1>8. ASSUME NEW s \in Sessions, Greet(s) \/ Enter(s)
      PROVE  Alive(i, members'[i])
  <2>1. members' = members /\ members[i] \in Sessions
    BY <1>8 DEF Greet, Enter, TypeOK
  <2>2. CASE Greet(s)
    BY <2>1, <2>2 DEF Greet, TypeOK
  <2>3. CASE Enter(s)
    <3>1. inGroup' = [inGroup EXCEPT ![s] = TRUE] /\ pc' = [pc EXCEPT ![s] = "idle"]
      BY <2>3 DEF Enter, EntersGroup
    <3> QED BY <2>1, <3>1 DEF TypeOK
  <2> QED BY <1>8, <2>2, <2>3
<1>9. ASSUME NEW s \in Sessions, Left(s)
      PROVE  Alive(i, members'[i])
  <2>1. members' = members /\ members[i] # s
    BY <1>9 DEF Left
  <2> QED BY <1>3, <1>9, <2>1 DEF Left, TypeOK
<1>10. ASSUME NEW s \in Sessions, Operate(s)
       PROVE  Alive(i, members'[i])
  <2>1. UNCHANGED <<members, inGroup>>
    BY <1>10, OperatePc
  <2>2. \A x \in Sessions :
          pc'[x] = pc[x] \/ (pc[x] = "idle" /\ pc'[x] \in {"idle", "locking"})
    BY <1>10, OperatePc
  <2> QED BY <2>1, <2>2 DEF TypeOK
<1>11. ASSUME NEW s \in Sessions, NEW t \in Sessions,
              Look(s, t) \/ Announce(s, t) \/ TellLeft(s, t) \/ TellLocked(s, t)
       PROVE  Alive(i, members'[i])
  <2>1. UNCHANGED <<members, inGroup>>
    BY <1>11 DEF Look, Announce, TellLeft, TellLocked
  <2>2. \A x \in Sessions :
          pc'[x] = pc[x] \/ (pc[x] = "locking" /\ pc'[x] = "idle")
    <3>1. CASE Look(s, t) \/ Announce(s, t) \/ TellLeft(s, t)
      BY <3>1 DEF Look, Announce, TellLeft
    <3>2. CASE TellLocked(s, t)
      BY <3>2 DEF TellLocked, TypeOK
    <3> QED BY <1>11, <3>1, <3>2
  <2>3. members[i] \in Sessions
    BY <2>1 DEF TypeOK
  <2> QED BY <2>1, <2>2, <2>3
<1>12. ASSUME Update \/ (\E r \in async, t \in Sessions : Push(r, t))
              \/ UNCHANGED vars
       PROVE  Alive(i, members'[i])
  BY <1>3, <1>12 DEF Update, Push, vars
<1> QED
  BY <1>4, <1>5, <1>6, <1>7, <1>8, <1>9, <1>10, <1>11, <1>12 DEF Next, Proceed

(* No session is left in the group after its end, as long as no join ends  *)
(* in a redirect: that one leaves a member with c.group = nil, which       *)
(* leaveGroup does not take out.                                           *)
THEOREM NoGhosts == ~Redirected => (Spec => []NoGhost)
<1> SUFFICES ASSUME ~Redirected PROVE Spec => []NoGhost
  OBVIOUS
<1>1. Init => MembersAlive
  BY DEF Init, MembersAlive
<1>2. TypeOK /\ MembersAlive /\ [Next]_vars => MembersAlive'
  BY MembersStay
<1>3. MembersAlive => NoGhost
  BY DEF MembersAlive, NoGhost, Member
<1> QED BY <1>1, <1>2, <1>3, TypeCorrect, PTL DEF Spec

-----------------------------------------------------------------------------
(* What is told, and to whom.  Of a queue, only what is in it matters here.*)
Items(q) == {q[k] : k \in 1..Len(q)}

Queue(s) == Items(actions[s])

LEMMA ItemsAppend ==
  ASSUME NEW q \in Seq(Action), NEW a \in Action
  PROVE  Items(Append(q, a)) = Items(q) \cup {a}
<1>1. /\ Len(q) \in Nat /\ Len(Append(q, a)) = Len(q) + 1
      /\ Append(q, a)[Len(q) + 1] = a
      /\ \A k \in 1..Len(q) : Append(q, a)[k] = q[k]
  BY AppendProperties, LenProperties
<1>2. 1..(Len(q) + 1) = (1..Len(q)) \cup {Len(q) + 1}
  BY <1>1
<1> QED BY <1>1, <1>2 DEF Items

LEMMA ItemsTail ==
  ASSUME NEW q \in Seq(Action), q # <<>>
  PROVE  /\ Items(Tail(q)) \subseteq Items(q)
         /\ Items(q) \subseteq Items(Tail(q)) \cup {Head(q)}
         /\ Head(q) \in Items(q) /\ Items(q) \subseteq Action
<1>1. /\ Len(q) \in Nat \ {0} /\ Head(q) = q[1]
      /\ Tail(q) \in Seq(Action) /\ Len(Tail(q)) = Len(q) - 1
      /\ \A k \in 1..Len(Tail(q)) : Tail(q)[k] = q[k + 1]
  BY HeadTailProperties, EmptySeq, LenProperties
<1>2. ASSUME NEW k \in 1..Len(Tail(q)) PROVE Tail(q)[k] \in Items(q)
  <2>1. k + 1 \in 1..Len(q) /\ Tail(q)[k] = q[k + 1]
    BY <1>1
  <2> QED BY <2>1 DEF Items
<1>3. ASSUME NEW k \in 1..Len(q), k # 1 PROVE q[k] \in Items(Tail(q))
  <2>1. k - 1 \in 1..Len(Tail(q)) /\ (k - 1) + 1 = k
    BY <1>1, <1>3
  <2>2. Tail(q)[k - 1] = q[k]
    BY <1>1, <2>1
  <2> QED BY <2>1, <2>2 DEF Items
<1>4. \A k \in 1..Len(q) : q[k] \in Action
  BY ElementOfSeq
<1>5. 1 \in 1..Len(q)
  BY <1>1
<1> QED BY <1>1, <1>2, <1>3, <1>4, <1>5 DEF Items

LEMMA ItemsEmpty == Items(<<>>) = {}
BY DEF Items

LEMMA PutSpares ==
  ASSUME NEW q \in [Sessions -> Seq(Action)], NEW T, NEW a, NEW x \in Sessions,
         x \notin T \/ pc[x] = "gone"
  PROVE  Put(q, T, a)[x] = q[x]
BY DEF Put

LEMMA PutItems ==
  ASSUME NEW q \in [Sessions -> Seq(Action)], NEW T, NEW a \in Action,
         NEW x \in Sessions, NEW y
  PROVE  /\ y \in Items(q[x]) => y \in Items(Put(q, T, a)[x])
         /\ y \in Items(Put(q, T, a)[x]) => y \in Items(q[x]) \/ (x \in T /\ y = a)
<1>1. Put(q, T, a)[x]
        = IF x \in T /\ pc[x] # "gone" THEN Append(q[x], a) ELSE q[x]
  BY DEF Put
<1>2. q[x] \in Seq(Action) /\ a \in Action
  OBVIOUS
<1> QED BY <1>1, <1>2, ItemsAppend

LEMMA PutReaches ==
  ASSUME NEW q \in [Sessions -> Seq(Action)], NEW T, NEW a \in Action, NEW x \in Sessions,
         x \in T, pc[x] # "gone"
  PROVE  a \in Items(Put(q, T, a)[x])
<1>1. Put(q, T, a)[x] = Append(q[x], a)
  BY DEF Put
<1>2. q[x] \in Seq(Action) /\ a \in Action
  OBVIOUS
<1> QED BY <1>1, <1>2, ItemsAppend

LEMMA PutJoinedSpares ==
  ASSUME NEW q \in [Sessions -> Seq(Action)], NEW T, NEW k, NEW x \in Sessions,
         x \notin T \/ pc[x] = "gone"
  PROVE  PutJoined(q, T, k)[x] = q[x]
BY DEF PutJoined

LEMMA PutJoinedItems ==
  ASSUME NEW q \in [Sessions -> Seq(Action)], NEW T,
         NEW k \in {"join", "change", "leave"}, NEW x \in Sessions, NEW y
  PROVE  /\ y \in Items(q[x]) => y \in Items(PutJoined(q, T, k)[x])
         /\ y \in Items(PutJoined(q, T, k)[x]) =>
              y \in Items(q[x]) \/ (x \in T /\ y = JoinedAction(x, k))
<1>1. PutJoined(q, T, k)[x]
        = IF x \in T /\ pc[x] # "gone" THEN Append(q[x], JoinedAction(x, k)) ELSE q[x]
  BY DEF PutJoined
<1>2. q[x] \in Seq(Action) /\ JoinedAction(x, k) \in Action
  BY ActionsTyped
<1> QED BY <1>1, <1>2, ItemsAppend

LEMMA PutJoinedReaches ==
  ASSUME NEW q \in [Sessions -> Seq(Action)], NEW T,
         NEW k \in {"join", "change", "leave"}, NEW x \in Sessions,
         x \in T, pc[x] # "gone"
  PROVE  JoinedAction(x, k) \in Items(PutJoined(q, T, k)[x])
<1>1. PutJoined(q, T, k)[x] = Append(q[x], JoinedAction(x, k))
  BY DEF PutJoined
<1>2. q[x] \in Seq(Action) /\ JoinedAction(x, k) \in Action
  BY ActionsTyped
<1> QED BY <1>1, <1>2, ItemsAppend

(* What autoLockKick puts into a queue.                                    *)
LEMMA KickItems ==
  ASSUME TypeOK, NEW q \in [Sessions -> Seq(Action)], AutoLockKick(q), NEW x \in Sessions
  PROVE  /\ Items(q[x]) \subseteq Queue(x)'
         /\ Queue(x)' \subseteq Items(q[x]) \cup {JoinedAction(x, "change")}
         /\ x \notin Member => actions'[x] = q[x]
         /\ locked' # locked /\ x \in Member /\ pc[x] # "gone"
              => JoinedAction(x, "change") \in Queue(x)'
<1>1. Queue(x)' = Items(actions'[x])
  BY DEF Queue
<1>2. CASE MustLock
  <2>1. actions' = PutJoined(q, Member, "change")
    BY <1>2 DEF AutoLockKick
  <2>2. /\ \A y \in Items(q[x]) : y \in Items(actions'[x])
        /\ \A y \in Items(actions'[x]) :
             y \in Items(q[x]) \/ (x \in Member /\ y = JoinedAction(x, "change"))
    BY <2>1, PutJoinedItems
  <2>4. x \notin Member => actions'[x] = q[x]
    BY <2>1, PutJoinedSpares
  <2>3. x \in Member /\ pc[x] # "gone" => JoinedAction(x, "change") \in Items(actions'[x])
    BY <2>1, PutJoinedReaches
  <2> QED BY <1>1, <2>2, <2>3, <2>4
<1>3. CASE ~MustLock
  <2>1. actions' = q
    BY <1>3 DEF AutoLockKick
  <2>2. locked' = locked
    BY <1>3 DEF AutoLockKick, TypeOK
  <2> QED BY <1>1, <2>1, <2>2
<1> QED BY <1>2, <1>3

(* The goroutines that are new.                                            *)
LEMMA SpawnAdds ==
  ASSUME NEW a, NEW T, NEW r \in Spawn(a, T)
  PROVE  r \in async \/ (r.put = a /\ r.todo = T)
BY DEF Spawn

(* leaveGroup tells nobody but the session itself.                         *)
LEMMA LeaveItems ==
  ASSUME TypeOK, NEW s \in Sessions, NEW end \in {"idle", "gone"},
         NEW q \in [Sessions -> Seq(Action)], LeaveGroup(s, end, q),
         NEW x \in Sessions
  PROVE  /\ x # s => Queue(x)' = Items(q[x])
         /\ Queue(x)' \subseteq Items(q[x])
              \cup (IF inGroup[s] THEN {JoinedAction(x, "leave")} ELSE {})
         /\ Items(q[x]) \subseteq Queue(x)' \/ pc'[x] = "gone"
<1>1. Queue(x)' = Items(actions'[x])
  BY DEF Queue
<1>2. CASE inGroup[s] /\ Current(s)
  <2>1. actions' = PutJoined(q, {s}, "leave")
    BY <1>2 DEF LeaveGroup
  <2>3. x # s => actions'[x] = q[x]
    BY <2>1, PutJoinedSpares
  <2>2. /\ \A y \in Items(q[x]) : y \in Items(actions'[x])
        /\ \A y \in Items(actions'[x]) : y \in Items(q[x]) \/ y = JoinedAction(x, "leave")
    BY <2>1, PutJoinedItems
  <2> QED BY <1>1, <1>2, <2>2, <2>3
<1>3. CASE ~(inGroup[s] /\ Current(s))
  <2>1. actions' = IF end = "gone" THEN [q EXCEPT ![s] = <<>>] ELSE q
    BY <1>3 DEF LeaveGroup
  <2>2. CASE x = s /\ end = "gone"
    <3>1. actions'[x] = <<>>
      BY <2>1, <2>2
    <3>2. pc'[x] = "gone"
      BY <1>3, <2>2 DEF LeaveGroup, TypeOK
    <3> QED BY <1>1, <2>2, <3>1, <3>2, ItemsEmpty
  <2>3. CASE ~(x = s /\ end = "gone")
    <3>1. actions'[x] = q[x]
      BY <2>1, <2>3
    <3> QED BY <1>1, <3>1
  <2> QED BY <2>2, <2>3
<1> QED BY <1>2, <1>3

(* Why a session is sent an action.                                        *)
Source(x, a) ==
  \/ /\ x \in Member
     /\ a \in {JoinedAction(x, "change"), KickAction}
  \/ /\ x \in Member /\ a = PermsAction
     /\ \E s \in Sessions, b \in BOOLEAN : SetPermissions(s, x, b)
  \/ /\ pc[x] = "greeting"
     /\ a \in {JoinedAction(x, "join"), UserAction("add", x, op[x])}
  \/ /\ pc[x] = "announcing"
     /\ \E t \in Sessions : t \in todo[x] /\ a = UserAction("add", t, pp[x])
  \/ \E s \in Sessions :
       /\ x \in todo[s]
       /\ \/ /\ pc[s] = "announcing"
             /\ \E k \in {"add", "change"} : a = UserAction(k, s, shown[s])
          \/ pc[s] = "leaving" /\ a = UserAction("delete", s, FALSE)
          \/ pc[s] = "locking" /\ a = JoinedAction(x, "change")
  \/ pc[x] = "idle" /\ inGroup[x] /\ a = JoinedAction(x, "leave")
  \/ \E r \in async : x \in r.todo /\ a = r.put

(* Nothing is put into a queue for another reason, and nothing is taken    *)
(* out but by the session that handles its head or ends.                   *)
LEMMA QueueSteps ==
  ASSUME TypeOK, [Next]_vars, NEW x \in Sessions
  PROVE  /\ \A a \in Queue(x)' : a \in Queue(x) \/ Source(x, a)
         /\ \A a \in Queue(x) :
              \/ a \in Queue(x)'
              \/ pc'[x] = "gone"
              \/ Handle(x) /\ a = Head(actions[x])
<1> DEFINE Fine == /\ \A a \in Queue(x)' : a \in Queue(x) \/ Source(x, a)
                   /\ \A a \in Queue(x) :
                        \/ a \in Queue(x)'
                        \/ pc'[x] = "gone"
                        \/ Handle(x) /\ a = Head(actions[x])
<1> USE DEF adding, leaving, browser, counters
<1>1. /\ Queue(x) = Items(actions[x]) /\ Queue(x)' = Items(actions'[x])
      /\ actions \in [Sessions -> Seq(Action)] /\ actions[x] \in Seq(Action)
  BY DEF Queue, TypeOK
<1>2. ASSUME actions' = actions PROVE Fine
  BY <1>1, <1>2
<1>3. ASSUME NEW T, NEW a \in Action, actions' = Put(actions, T, a),
             x \in T => Source(x, a)
      PROVE  Fine
  <2>1. /\ \A y \in Queue(x) : y \in Queue(x)'
        /\ \A y \in Queue(x)' : y \in Queue(x) \/ (x \in T /\ y = a)
    <3>1. actions \in [Sessions -> Seq(Action)]
      BY <1>1
    <3>2. /\ \A y \in Items(actions[x]) : y \in Items(actions'[x])
          /\ \A y \in Items(actions'[x]) : y \in Items(actions[x]) \/ (x \in T /\ y = a)
      BY <1>3, <3>1, PutItems
    <3> QED BY <1>1, <3>2
  <2> QED BY <1>3, <2>1
<1>4. ASSUME AutoLockKick(actions) PROVE Fine
  <2>1. /\ Queue(x) \subseteq Queue(x)'
        /\ Queue(x)' \subseteq Queue(x) \cup {JoinedAction(x, "change")}
        /\ x \notin Member => actions'[x] = actions[x]
    BY <1>1, <1>4, KickItems
  <2>2. CASE x \in Member
    BY <2>1, <2>2 DEF Source
  <2>3. CASE x \notin Member
    BY <1>1, <2>1, <2>3
  <2> QED BY <2>2, <2>3
<1>5. ASSUME NEW s \in Sessions, NEW end \in {"idle", "gone"}, pc[s] = "idle",
             LeaveGroup(s, end, actions)
      PROVE  Fine
  <2>1. /\ x # s => Queue(x)' = Queue(x)
        /\ Queue(x)' \subseteq Queue(x)
             \cup (IF inGroup[s] THEN {JoinedAction(x, "leave")} ELSE {})
        /\ Queue(x) \subseteq Queue(x)' \/ pc'[x] = "gone"
    BY <1>1, <1>5, LeaveItems
  <2>2. CASE x # s
    BY <2>1, <2>2
  <2>3. CASE x = s
    <3>1. ASSUME NEW a \in Queue(x)', a \notin Queue(x) PROVE Source(x, a)
      <4>1. a = JoinedAction(x, "leave") /\ inGroup[x]
        BY <2>1, <2>3, <3>1
      <4> QED BY <1>5, <2>3, <4>1 DEF Source
    <3> QED BY <2>1, <3>1
  <2> QED BY <2>2, <2>3
<1>6. ASSUME NEW s \in Sessions, Leave(s) \/ Disconnect(s) PROVE Fine
  BY <1>5, <1>6 DEF Leave, Disconnect
<1>7. ASSUME NEW s \in Sessions,
             \/ Refuse(s) \/ Bar(s) \/ TurnAway(s) \/ Insert(s) \/ Enter(s)
             \/ \E t \in Sessions : Look(s, t)
             \/ \E b \in BOOLEAN : SetLocked(s, b)
             \/ UNCHANGED vars
      PROVE  Fine
  <2>1. actions' = actions
    BY <1>7 DEF Refuse, Bar, TurnAway, Insert, Look, Enter, SetLocked, vars
  <2> QED BY <1>2, <2>1
<1>8. ASSUME (\E s \in Sessions : Join(s)) \/ Update PROVE Fine
  BY <1>4, <1>8 DEF Join, Update
<1>9. ASSUME NEW s \in Sessions, Greet(s) PROVE Fine
  <2>1. /\ PutJoined(actions, {s}, "join") \in [Sessions -> Seq(Action)]
        /\ UserAction("add", s, op[s]) \in Action
    BY <1>1, PutJoinedTyped, ActionsTyped DEF TypeOK
  <2>0. actions' = Put(PutJoined(actions, {s}, "join"), {s}, UserAction("add", s, op[s]))
    BY <1>9 DEF Greet
  <2> DEFINE q == PutJoined(actions, {s}, "join")
             b == UserAction("add", s, op[s])
  <2>2. /\ \A y \in Items(actions[x]) : y \in Items(q[x])
        /\ \A y \in Items(q[x]) :
             y \in Items(actions[x]) \/ (x = s /\ y = JoinedAction(x, "join"))
    <3> HIDE DEF q
    <3>1. q = PutJoined(actions, {s}, "join") /\ actions \in [Sessions -> Seq(Action)]
      BY <1>1 DEF q
    <3> QED BY <3>1, PutJoinedItems
  <2>3. /\ \A y \in Items(q[x]) : y \in Items(actions'[x])
        /\ \A y \in Items(actions'[x]) : y \in Items(q[x]) \/ (x = s /\ y = b)
    <3> HIDE DEF q, b
    <3>1. actions' = Put(q, {s}, b) /\ q \in [Sessions -> Seq(Action)] /\ b \in Action
      BY <2>0, <2>1 DEF q, b
    <3> QED BY <3>1, PutItems
  <2>4. pc[s] = "greeting"
    BY <1>9 DEF Greet
  <2> HIDE DEF q
  <2>5. CASE x = s
    <3>1. \A a \in Queue(x)' : a \in Queue(x)
             \/ a \in {JoinedAction(x, "join"), UserAction("add", x, op[x])}
      BY <1>1, <2>2, <2>3, <2>5
    <3>2. Queue(x) \subseteq Queue(x)'
      BY <1>1, <2>2, <2>3
    <3> QED BY <2>4, <2>5, <3>1, <3>2 DEF Source
  <2>6. CASE x # s
    BY <1>1, <2>2, <2>3, <2>6
  <2> QED BY <2>5, <2>6
<1>10. ASSUME NEW s \in Sessions, NEW t \in Sessions, Announce(s, t) PROVE Fine
  <2> DEFINE b == UserAction("add", t, pp[s])
             kind == IF victim[s] = None THEN "add" ELSE "change"
             c == UserAction(kind, s, shown[s])
             q == Put(actions, {s}, b)
  <2>1. kind \in {"add", "change"} /\ b \in Action /\ c \in Action
    BY ActionsTyped DEF TypeOK
  <2>2. pc[s] = "announcing" /\ t \in todo[s]
        /\ actions' = Put(Put(actions, {s}, b), {t}, c)
    BY <1>10 DEF Announce
  <2>3. x = s => Source(x, b)
    BY <2>2 DEF Source
  <2>4. x = t => Source(x, c)
    BY <2>1, <2>2 DEF Source
  <2> HIDE DEF b, c, kind
  <2>5. q \in [Sessions -> Seq(Action)]
    BY <1>1, <2>1, PutTyped
  <2>6. /\ \A y \in Items(actions[x]) : y \in Items(q[x])
        /\ \A y \in Items(q[x]) : y \in Items(actions[x]) \/ (x = s /\ y = b)
    <3> HIDE DEF q
    <3>1. q = Put(actions, {s}, b) /\ actions \in [Sessions -> Seq(Action)]
      BY <1>1 DEF q
    <3> QED BY <2>1, <3>1, PutItems
  <2> HIDE DEF q
  <2>7. /\ \A y \in Items(q[x]) : y \in Items(actions'[x])
        /\ \A y \in Items(actions'[x]) : y \in Items(q[x]) \/ (x = t /\ y = c)
    <3>1. actions' = Put(q, {t}, c)
      BY <2>2 DEF q
    <3> QED BY <2>1, <2>5, <3>1, PutItems
  <2>8. \A a \in Queue(x)' : a \in Queue(x) \/ (x = s /\ a = b) \/ (x = t /\ a = c)
    BY <1>1, <2>6, <2>7
  <2>9. Queue(x) \subseteq Queue(x)'
    BY <1>1, <2>6, <2>7
  <2> QED BY <2>3, <2>4, <2>8, <2>9
<1>11. ASSUME NEW s \in Sessions, NEW t \in Sessions, TellLeft(s, t) PROVE Fine
  <2>1. UserAction("delete", s, FALSE) \in Action
    BY ActionsTyped
  <2>2. x = t => Source(x, UserAction("delete", s, FALSE))
    BY <1>11 DEF TellLeft, Source
  <2>3. actions' = Put(actions, {t}, UserAction("delete", s, FALSE))
    BY <1>11 DEF TellLeft
  <2> QED BY <1>3, <2>1, <2>2, <2>3
<1>12. ASSUME NEW s \in Sessions, NEW t \in Sessions, TellLocked(s, t) PROVE Fine
  <2>1. actions' = PutJoined(actions, {t}, "change")
    BY <1>12 DEF TellLocked
  <2>2. /\ \A y \in Items(actions[x]) : y \in Items(actions'[x])
        /\ \A y \in Items(actions'[x]) :
             y \in Items(actions[x]) \/ (x = t /\ y = JoinedAction(x, "change"))
    BY <1>1, <2>1, PutJoinedItems
  <2>3. x = t => Source(x, JoinedAction(x, "change"))
    BY <1>12 DEF TellLocked, Source
  <2> QED BY <1>1, <2>2, <2>3
<1>13. ASSUME NEW s \in Sessions, Left(s) PROVE Fine
  <2> DEFINE q == IF after[s] = "gone" THEN [actions EXCEPT ![s] = <<>>] ELSE actions
  <2>1. q \in [Sessions -> Seq(Action)]
    BY <1>1, EmptySeq
  <2>2. AutoLockKick(q) /\ pc' = [pc EXCEPT ![s] = after[s]]
    BY <1>13 DEF Left, Relock
  <2>3. q[x] = actions[x] \/ (q[x] = <<>> /\ pc'[x] = "gone")
    BY <1>1, <2>2 DEF TypeOK
  <2> HIDE DEF q
  <2>4. /\ Items(q[x]) \subseteq Queue(x)'
        /\ Queue(x)' \subseteq Items(q[x]) \cup {JoinedAction(x, "change")}
        /\ x \notin Member => actions'[x] = q[x]
    BY <2>1, <2>2, KickItems
  <2>5. Items(q[x]) \subseteq Queue(x)
        /\ (Queue(x) \subseteq Items(q[x]) \/ pc'[x] = "gone")
    BY <1>1, <2>3, ItemsEmpty
  <2>6. CASE x \in Member
    BY <2>4, <2>5, <2>6 DEF Source
  <2>7. CASE x \notin Member
    <3>1. Queue(x)' = Items(q[x])
      BY <1>1, <2>4, <2>7
    <3> QED BY <2>5, <3>1
  <2> QED BY <2>6, <2>7
<1>14. ASSUME NEW s \in Sessions, NEW t \in Sessions,
              Kick(s, t) \/ (\E b \in BOOLEAN : SetPermissions(s, t, b))
       PROVE  Fine
  <2>1. t \in Member /\ PermsAction \in Action /\ KickAction \in Action
    BY <1>14, ActionsTyped DEF Kick, SetPermissions
  <2>2. CASE Kick(s, t)
    <3>1. x = t => Source(x, KickAction)
      BY <2>1 DEF Source
    <3>2. actions' = Put(actions, {t}, KickAction)
      BY <2>2 DEF Kick
    <3> QED BY <1>3, <2>1, <3>1, <3>2
  <2>3. ASSUME NEW b \in BOOLEAN, SetPermissions(s, t, b) PROVE Fine
    <3>1. x = t => Source(x, PermsAction)
      BY <2>1, <2>3 DEF Source
    <3>2. actions' = Put(actions, {t}, PermsAction)
      BY <2>3 DEF SetPermissions
    <3> QED BY <1>3, <2>1, <3>1, <3>2
  <2> QED BY <1>14, <2>2, <2>3
<1>15. ASSUME NEW r \in async, NEW t \in Sessions, Push(r, t) PROVE Fine
  <2>1. r.put \in Action
    BY DEF TypeOK, Goroutine
  <2>2. x = t => Source(x, r.put)
    BY <1>15 DEF Push, Source
  <2>3. actions' = Put(actions, {t}, r.put)
    BY <1>15 DEF Push
  <2> QED BY <1>3, <2>1, <2>2, <2>3
<1>16. ASSUME NEW s \in Sessions, Handle(s) PROVE Fine
  <2> DEFINE q == [actions EXCEPT ![s] = Tail(@)]
  <2>1. /\ actions[s] \in Seq(Action) /\ actions[s] # <<>> /\ pc[s] = "idle"
        /\ Tail(actions[s]) \in Seq(Action)
    BY <1>1, <1>16, HeadTailProperties DEF Handle
  <2>2. q \in [Sessions -> Seq(Action)]
    BY <1>1, <2>1
  <2>3. /\ Items(Tail(actions[s])) \subseteq Items(actions[s])
        /\ Items(actions[s]) \subseteq Items(Tail(actions[s])) \cup {Head(actions[s])}
    BY <2>1, ItemsTail
  <2>4. /\ Items(q[x]) \subseteq Queue(x)
        /\ \A a \in Queue(x) : a \in Items(q[x]) \/ (x = s /\ a = Head(actions[x]))
    <3>1. CASE x = s
      BY <1>1, <2>3, <3>1
    <3>2. CASE x # s
      BY <1>1, <3>2
    <3> QED BY <3>1, <3>2
  <2> HIDE DEF q
  <2>5. actions' = q \/ LeaveGroup(s, "gone", q)
    BY <1>16 DEF Handle, HandleJoined, HandleUser, HandlePerms, HandleEnd, q
  <2>6. CASE actions' = q
    <3>1. Queue(x)' = Items(q[x])
      BY <1>1, <2>6
    <3> QED BY <1>16, <2>4, <3>1
  <2>7. CASE LeaveGroup(s, "gone", q)
    <3>1. /\ x # s => Queue(x)' = Items(q[x])
          /\ Queue(x)' \subseteq Items(q[x])
               \cup (IF inGroup[s] THEN {JoinedAction(x, "leave")} ELSE {})
          /\ Items(q[x]) \subseteq Queue(x)' \/ pc'[x] = "gone"
      BY <2>2, <2>7, LeaveItems
    <3>2. \A a \in Queue(x)' : a \in Queue(x)
             \/ (x = s /\ inGroup[s] /\ a = JoinedAction(x, "leave"))
      BY <2>4, <3>1
    <3>3. \A a \in Queue(x)' : a \in Queue(x) \/ Source(x, a)
      BY <2>1, <3>2 DEF Source
    <3>4. \A a \in Queue(x) : \/ a \in Queue(x)'
                              \/ pc'[x] = "gone"
                              \/ Handle(x) /\ a = Head(actions[x])
      BY <1>16, <2>4, <3>1
    <3> QED BY <3>3, <3>4
  <2> QED BY <2>5, <2>6, <2>7
<1> HIDE DEF Fine
<1>17. Fine
  BY <1>6, <1>7, <1>8, <1>9, <1>10, <1>11, <1>12, <1>13, <1>14, <1>15, <1>16
     DEF Next, Proceed, Operate
<1> QED BY <1>17 DEF Fine

(* The goroutines that permission changes and autoLockKick start are given *)
(* the clients of the moment, and lose them one by one.                    *)
LEMMA AsyncSteps ==
  ASSUME TypeOK, [Next]_vars, NEW r \in async'
  PROVE  \/ \E o \in async : r.put = o.put /\ r.todo \subseteq o.todo
         \/ r.put = KickAction /\ r.todo = Member /\ MustKick
         \/ /\ r.todo = Member
            /\ \E s \in Sessions : /\ Handle(s) /\ inGroup[s]
                                   /\ PermsAction.type = Head(actions[s]).type
                                   /\ r.put = UserAction("change", s, op[s])
<1> DEFINE Fine == \/ \E o \in async : r.put = o.put /\ r.todo \subseteq o.todo
                   \/ r.put = KickAction /\ r.todo = Member /\ MustKick
                   \/ /\ r.todo = Member
                      /\ \E s \in Sessions : /\ Handle(s) /\ inGroup[s]
                                             /\ PermsAction.type = Head(actions[s]).type
                                             /\ r.put = UserAction("change", s, op[s])
<1> USE DEF adding, leaving, browser, counters
<1>1. CASE r \in async
  BY <1>1
<1>2. ASSUME NEW q, AutoLockKick(q) PROVE Fine
  <2>1. r \in async \/ (MustKick /\ r \in Spawn(KickAction, Member))
    BY <1>2 DEF AutoLockKick
  <2>2. CASE MustKick /\ r \in Spawn(KickAction, Member)
    BY <1>1, <2>2, SpawnAdds
  <2> QED BY <1>1, <2>1, <2>2
<1>3. ASSUME NEW s \in Sessions, Handle(s), async' # async PROVE Fine
  <2> DEFINE a == Head(actions[s])
  <2>1. \/ HandleJoined(s, a) \/ HandleUser(s, a) \/ HandlePerms(s, a) \/ HandleEnd(s, a)
    BY <1>3 DEF Handle
  <2>2. HandlePerms(s, a)
    BY <1>3, <2>1 DEF HandleJoined, HandleUser, HandleEnd
  <2>3. /\ a.type = "perms" /\ inGroup[s]
        /\ r \in async \/ r \in Spawn(UserAction("change", s, op[s]), Member)
    BY <2>2 DEF HandlePerms
  <2>4. PermsAction.type = a.type
    BY <2>3 DEF PermsAction
  <2> QED BY <1>1, <1>3, <2>3, <2>4, SpawnAdds
<1>4. ASSUME NEW o \in async, NEW t \in Sessions, Push(o, t) PROVE Fine
  <2>1. \/ r \in async
        \/ r = [o EXCEPT !.todo = @ \ {t}]
    BY <1>4 DEF Push
  <2>2. o \in Goroutine
    BY DEF TypeOK
  <2>3. CASE r = [o EXCEPT !.todo = @ \ {t}]
    <3>1. r.put = o.put /\ r.todo = o.todo \ {t}
      BY <2>2, <2>3 DEF Goroutine
    <3> QED BY <3>1
  <2> QED BY <1>1, <2>1, <2>3
<1>5. ASSUME NEW s \in Sessions,
             \/ Refuse(s) \/ Bar(s) \/ TurnAway(s) \/ Insert(s) \/ Enter(s) \/ Greet(s)
             \/ Operate(s) \/ Leave(s) \/ Disconnect(s)
             \/ \E t \in Sessions : Look(s, t) \/ Announce(s, t) \/ TellLeft(s, t) \/ TellLocked(s, t)
      PROVE  r \in async
  BY <1>5 DEF Refuse, Bar, TurnAway, Insert, Enter, Greet, Operate, SetLocked,
     SetPermissions, Kick, Leave, Disconnect, Look, Announce, TellLeft, TellLocked
<1>6. ASSUME UNCHANGED vars PROVE r \in async
  BY <1>6 DEF vars
<1>7. ASSUME \/ \E s \in Sessions : Join(s) \/ Left(s)
             \/ Update
      PROVE  Fine
  BY <1>2, <1>7 DEF Join, Left, Relock, Update
<1>8. ASSUME NEW s \in Sessions, Handle(s) PROVE Fine
  BY <1>1, <1>3, <1>8
<1>9. r \in async => Fine
  BY <1>1
<1> HIDE DEF Fine
<1>10. Fine
  BY <1>4, <1>5, <1>6, <1>7, <1>8, <1>9 DEF Next, Proceed
<1> QED BY <1>10 DEF Fine

(* A loop over pushes runs over the members of the moment it starts.       *)
LEMMA TodoSteps ==
  ASSUME TypeOK, [Next]_vars, NEW s \in Sessions, NEW t \in todo'[s]
  PROVE  t \in todo[s] \/ t \in Member
<1> USE DEF adding, leaving, browser, counters
<1>0. todo \in [Sessions -> SUBSET Sessions]
  BY DEF TypeOK
<1>00. ASSUME NEW x \in Sessions, NEW T, todo' = [todo EXCEPT ![x] = T],
              T \subseteq todo[x] \cup Member
       PROVE  t \in todo[s] \/ t \in Member
  BY <1>0, <1>00
<1>1. ASSUME NEW x \in Sessions, NEW end, NEW q, LeaveGroup(x, end, q)
      PROVE  t \in todo[s] \/ t \in Member
  <2>1. todo' = todo \/ todo' = [todo EXCEPT ![x] = Member \ {x}]
    BY <1>1 DEF LeaveGroup
  <2> QED BY <1>00, <2>1
<1>2. ASSUME NEW x \in Sessions, Leave(x) \/ Disconnect(x) \/ Handle(x)
      PROVE  t \in todo[s] \/ t \in Member
  <2>1. todo' = todo \/ (\E end, q : LeaveGroup(x, end, q))
    BY <1>2
       DEF Leave, Disconnect, Handle, HandleJoined, HandleUser, HandlePerms, HandleEnd
  <2> QED BY <1>1, <2>1
<1>3. ASSUME NEW x \in Sessions, Insert(x) \/ (\E b \in BOOLEAN : SetLocked(x, b))
      PROVE  t \in todo[s] \/ t \in Member
  <2>1. todo' = [todo EXCEPT ![x] = Others(members[IdOf[x]], x)]
        \/ todo' = [todo EXCEPT ![x] = Member]
    BY <1>3 DEF Insert, SetLocked
  <2>2. Others(members[IdOf[x]], x) \subseteq Member
    BY DEF Others
  <2> QED BY <1>00, <2>1, <2>2
<1>4. ASSUME NEW x \in Sessions, NEW y \in Sessions,
             Announce(x, y) \/ TellLeft(x, y) \/ TellLocked(x, y)
      PROVE  t \in todo[s] \/ t \in Member
  <2>1. todo' = [todo EXCEPT ![x] = todo[x] \ {y}]
    BY <1>4 DEF Announce, TellLeft, TellLocked
  <2> QED BY <1>00, <2>1
<1>5. ASSUME \/ \E x \in Sessions : \/ Join(x) \/ Refuse(x) \/ Bar(x) \/ TurnAway(x)
                                    \/ Greet(x) \/ Enter(x) \/ Left(x)
                                    \/ \E y \in Sessions, b \in BOOLEAN : SetPermissions(x, y, b)
                                    \/ \E y \in Sessions : Look(x, y) \/ Kick(x, y)
             \/ Update
             \/ \E r \in async, y \in Sessions : Push(r, y)
             \/ UNCHANGED vars
      PROVE  t \in todo[s] \/ t \in Member
  <2>1. todo' = todo
    BY <1>5 DEF Look, Join, Refuse, Bar, TurnAway, Greet, Enter, Left, SetPermissions, Kick,
       Update, Push, vars
  <2> QED BY <2>1
<1> QED BY <1>2, <1>3, <1>4, <1>5 DEF Next, Proceed, Operate

(* How a session goes from one state of its goroutine to the next, when    *)
(* clients end their connections and do not send "leave".                  *)
Moves(x) ==
  \/ UNCHANGED <<pc[x], inGroup[x], after[x]>>
  \/ pc[x] = "idle" /\ ~inGroup[x] /\ pc'[x] = "adding" /\ ~inGroup'[x]
  \/ pc[x] = "adding" /\ pc'[x] \in {"idle", "greeting"} /\ inGroup'[x] = inGroup[x]
  \/ pc[x] = "greeting" /\ pc'[x] = "announcing" /\ inGroup'[x] = inGroup[x]
  \/ pc[x] = "announcing" /\ pc'[x] = "idle" /\ inGroup'[x] = ~Redirected
  \/ /\ pc[x] = "idle" /\ inGroup[x] /\ Current(x)
     /\ pc'[x] = "leaving" /\ inGroup'[x] /\ after'[x] = "gone"
  \/ pc[x] = "idle" /\ pc'[x] = "gone" /\ ~inGroup'[x]
  \/ pc[x] = "idle" /\ inGroup[x] /\ pc'[x] = "locking" /\ inGroup'[x]
  \/ pc[x] = "locking" /\ pc'[x] = "idle" /\ inGroup'[x] = inGroup[x]
  \/ pc[x] = "leaving" /\ pc'[x] = after[x] /\ ~inGroup'[x]

LEMMA PcSteps ==
  ASSUME TypeOK, [Next]_vars, "leave" \notin Messages, NEW x \in Sessions
  PROVE  Moves(x)
<1> USE DEF Moves, adding, leaving, browser, counters
<1>1. ASSUME NEW s \in Sessions, NEW q, pc[s] = "idle", LeaveGroup(s, "gone", q)
      PROVE  Moves(x)
  <2>1. CASE inGroup[s] /\ Current(s)
    <3>1. /\ pc' = [pc EXCEPT ![s] = "leaving"] /\ after' = [after EXCEPT ![s] = "gone"]
          /\ inGroup' = inGroup
      BY <1>1, <2>1 DEF LeaveGroup
    <3> QED BY <1>1, <2>1, <3>1 DEF TypeOK
  <2>2. CASE ~(inGroup[s] /\ Current(s))
    <3>1. /\ pc' = [pc EXCEPT ![s] = "gone"] /\ after' = after
          /\ inGroup' = [inGroup EXCEPT ![s] = FALSE]
      BY <1>1, <2>2 DEF LeaveGroup
    <3> QED BY <1>1, <2>2, <3>1 DEF TypeOK
  <2> QED BY <2>1, <2>2
<1>2. ASSUME NEW s \in Sessions, Leave(s) \/ Disconnect(s) PROVE Moves(x)
  BY <1>1, <1>2 DEF Leave, Disconnect
<1>3. ASSUME NEW s \in Sessions, Handle(s) PROVE Moves(x)
  <2>1. \/ UNCHANGED <<pc, inGroup, after>>
        \/ \E q : LeaveGroup(s, "gone", q)
    BY <1>3 DEF Handle, HandleJoined, HandleUser, HandlePerms, HandleEnd
  <2>2. pc[s] = "idle"
    BY <1>3 DEF Handle
  <2> QED BY <1>1, <2>1, <2>2
<1>4. ASSUME NEW s \in Sessions, Join(s) \/ Refuse(s) \/ Bar(s) \/ TurnAway(s) \/ Insert(s)
      PROVE  Moves(x)
  BY <1>4 DEF Join, Refuse, Bar, TurnAway, Insert, TypeOK
<1>5. ASSUME NEW s \in Sessions, Greet(s) PROVE Moves(x)
  BY <1>5 DEF Greet, TypeOK
<1>6. ASSUME NEW s \in Sessions, Enter(s) PROVE Moves(x)
  <2>1. /\ pc[s] = "announcing" /\ pc' = [pc EXCEPT ![s] = "idle"]
        /\ inGroup' = [inGroup EXCEPT ![s] = ~Redirected] /\ after' = after
    BY <1>6 DEF Enter, EntersGroup
  <2> QED BY <2>1 DEF TypeOK
<1>7. ASSUME NEW s \in Sessions, Left(s) PROVE Moves(x)
  <2>1. /\ pc[s] = "leaving" /\ pc' = [pc EXCEPT ![s] = after[s]]
        /\ inGroup' = [inGroup EXCEPT ![s] = FALSE]
        /\ after' = [after EXCEPT ![s] = "idle"]
    BY <1>7 DEF Left
  <2> QED BY <2>1 DEF TypeOK
<1>8. ASSUME NEW s \in Sessions, Operate(s) PROVE Moves(x)
  <2>1. ASSUME NEW b \in BOOLEAN, SetLocked(s, b) PROVE Moves(x)
    BY <2>1 DEF SetLocked, Acting, TypeOK
  <2>2. ASSUME \/ \E t \in Sessions, b \in BOOLEAN : SetPermissions(s, t, b)
               \/ \E t \in Sessions : Kick(s, t)
        PROVE  Moves(x)
    BY <2>2 DEF SetPermissions, Kick
  <2> QED BY <1>8, <2>1, <2>2 DEF Operate
<1>9. ASSUME NEW s \in Sessions, NEW t \in Sessions,
             Look(s, t) \/ Announce(s, t) \/ TellLeft(s, t) \/ TellLocked(s, t)
      PROVE  Moves(x)
  <2>1. CASE Look(s, t) \/ Announce(s, t) \/ TellLeft(s, t)
    BY <2>1 DEF Look, Announce, TellLeft
  <2>2. CASE TellLocked(s, t)
    BY <2>2 DEF TellLocked, TypeOK
  <2> QED BY <1>9, <2>1, <2>2
<1>10. ASSUME Update \/ (\E r \in async, t \in Sessions : Push(r, t)) \/ UNCHANGED vars
       PROVE  Moves(x)
  BY <1>10 DEF Update, Push, vars
<1> HIDE DEF Moves
<1> QED
  BY <1>2, <1>3, <1>4, <1>5, <1>6, <1>7, <1>8, <1>9, <1>10 DEF Next, Proceed

(* The browser only learns it is in the group from what the server wrote.  *)
LEMMA ViewSteps ==
  ASSUME TypeOK, [Next]_vars, NEW x \in Sessions
  PROVE  \/ view'[x] = view[x]
         \/ view'[x].group = FALSE
         \/ /\ Handle(x) /\ ApplyJoined(x, "change") /\ Head(actions[x]).type = "perms"
         \/ /\ Handle(x) /\ Head(actions[x]).type = "joined"
            /\ ApplyJoined(x, Head(actions[x]).kind)
<1> USE DEF adding, leaving, browser, counters
<1>1. ASSUME NEW s \in Sessions, SocketClosed(s)
      PROVE  view'[x] = view[x] \/ view'[x].group = FALSE
  BY <1>1 DEF SocketClosed, TypeOK
<1>2. ASSUME NEW s \in Sessions, Handle(s), s # x
      PROVE  view'[x] = view[x]
  BY <1>2 DEF Handle, HandleJoined, HandleUser, HandlePerms, HandleEnd, SocketClosed,
     ApplyJoined, TypeOK
<1>3. ASSUME Handle(x)
      PROVE  \/ view'[x] = view[x]
             \/ view'[x].group = FALSE
             \/ /\ ApplyJoined(x, "change") /\ Head(actions[x]).type = "perms"
             \/ /\ Head(actions[x]).type = "joined"
                /\ ApplyJoined(x, Head(actions[x]).kind)
  BY <1>1, <1>3 DEF Handle, HandleJoined, HandleUser, HandlePerms, HandleEnd
<1>4. ASSUME NEW s \in Sessions, Disconnect(s)
      PROVE  view'[x] = view[x] \/ view'[x].group = FALSE
  BY <1>1, <1>4 DEF Disconnect
<1>5. ASSUME NEW s \in Sessions,
             \/ Join(s) \/ Refuse(s) \/ Bar(s) \/ TurnAway(s) \/ Insert(s) \/ Greet(s)
             \/ Enter(s) \/ Left(s) \/ Leave(s) \/ Operate(s)
             \/ \E t \in Sessions : Look(s, t) \/ Announce(s, t) \/ TellLeft(s, t) \/ TellLocked(s, t)
      PROVE  view' = view
  BY <1>5 DEF Join, Refuse, Bar, TurnAway, Insert, Greet, Enter, Left, Leave, Operate,
     SetLocked, SetPermissions, Kick, Look, Announce, TellLeft, TellLocked
<1>6. ASSUME Update \/ (\E r \in async, t \in Sessions : Push(r, t)) \/ UNCHANGED vars
      PROVE  view' = view
  BY <1>6 DEF Update, Push, vars
<1> QED BY <1>2, <1>3, <1>4, <1>5, <1>6 DEF Next, Proceed

-----------------------------------------------------------------------------
(* Nobody tells a session anything before it is in the group, nor after.   *)
Outside(s) == pc[s] \in {"idle", "adding"} /\ ~inGroup[s]

Alone(s) ==
  /\ Queue(s) = {} /\ view[s].group = FALSE
  /\ \A t \in Sessions : s \notin todo[t]
  /\ \A r \in async : s \notin r.todo

Untold ==
  \A s \in Sessions :
    /\ Outside(s) => Alone(s)
    /\ pc[s] = "adding" => ~inGroup[s]
    /\ pc[s] = "greeting" => view[s].group = FALSE
    /\ pc[s] = "locking" => inGroup[s]
    /\ pc[s] = "leaving" => after[s] = "gone"
    /\ pc[s] = "gone" => ~inGroup[s]

LEMMA OutsideBefore ==
  ASSUME ~Redirected, "leave" \notin Messages, TypeOK, Untold, [Next]_vars,
         NEW s \in Sessions, Outside(s)'
  PROVE  Outside(s)
<1>1. Moves(s) /\ (pc[s] = "locking" => inGroup[s]) /\ (pc[s] = "leaving" => after[s] = "gone")
  BY PcSteps DEF Untold
<1> QED BY <1>1 DEF Moves, Outside

LEMMA UntoldStays ==
  ASSUME ~Redirected, "leave" \notin Messages, TypeOK, MembersAlive, Untold, [Next]_vars
  PROVE  Untold'
<1> SUFFICES ASSUME NEW s \in Sessions
             PROVE  /\ Outside(s)' => Alone(s)'
                    /\ pc'[s] = "adding" => ~inGroup'[s]
                    /\ pc'[s] = "greeting" => view'[s].group = FALSE
                    /\ pc'[s] = "locking" => inGroup'[s]
                    /\ pc'[s] = "leaving" => after'[s] = "gone"
                    /\ pc'[s] = "gone" => ~inGroup'[s]
  BY DEF Untold
<1>1. /\ Outside(s) => Alone(s)
      /\ pc[s] = "adding" => ~inGroup[s]
      /\ pc[s] = "greeting" => view[s].group = FALSE
      /\ pc[s] = "locking" => inGroup[s]
      /\ pc[s] = "leaving" => after[s] = "gone"
      /\ pc[s] = "gone" => ~inGroup[s]
  BY DEF Untold
<1>2. Moves(s) /\ pc[s] \in {"idle", "adding", "greeting", "announcing", "leaving",
                             "locking", "gone"}
  BY PcSteps DEF TypeOK
<1>3. Outside(s) => s \notin Member
  <2> SUFFICES ASSUME NEW i \in Ids, members[i] = s, s # None PROVE ~Outside(s)
    BY DEF Member
  <2> QED BY DEF Outside, MembersAlive
<1>4. Handle(s) => Head(actions[s]) \in Queue(s)
  <2>1. actions[s] \in Seq(Action)
    BY DEF TypeOK
  <2> QED BY <2>1, ItemsTail DEF Handle, Queue
<1>5. ASSUME Outside(s) \/ (pc[s] = "greeting" /\ ~Handle(s)),
             Outside(s) => ~Handle(s)
      PROVE  view'[s].group = FALSE
  <2>1. view[s].group = FALSE
    BY <1>1, <1>5 DEF Alone
  <2> QED BY <1>5, <2>1, ViewSteps
<1>6. ASSUME Outside(s), pc'[s] # "gone" PROVE Alone(s)'
  <2>1. Alone(s) /\ s \notin Member /\ ~Handle(s)
    BY <1>1, <1>3, <1>4, <1>6 DEF Alone
  <2>2. view'[s].group = FALSE
    BY <1>5, <1>6, <2>1
  <2>3. \A a : ~Source(s, a)
    BY <1>6, <2>1 DEF Source, Alone, Outside
  <2>4. Queue(s)' = {}
    BY <2>1, <2>3, QueueSteps DEF Alone
  <2>5. \A t \in Sessions : s \notin todo'[t]
    BY <2>1, TodoSteps DEF Alone
  <2>6. ASSUME NEW r \in async', s \in r.todo PROVE FALSE
    BY <2>1, <2>6, AsyncSteps DEF Alone
  <2> QED BY <2>2, <2>4, <2>5, <2>6 DEF Alone
<1>7. Outside(s)' => Outside(s)
  BY OutsideBefore
<1>8. Outside(s)' => Alone(s)'
  BY <1>6, <1>7 DEF Outside
<1>9. ASSUME pc'[s] = "greeting" PROVE view'[s].group = FALSE
  <2>1. pc[s] \in {"greeting", "adding"} /\ ~Handle(s)
    BY <1>1, <1>2, <1>9 DEF Moves, Handle
  <2>2. view[s].group = FALSE
    <3>1. CASE pc[s] = "greeting"
      BY <1>1, <3>1
    <3>2. CASE pc[s] = "adding"
      BY <1>1, <3>2 DEF Outside, Alone
    <3> QED BY <2>1, <3>1, <3>2
  <2> QED BY <2>1, <2>2, ViewSteps
<1>10. /\ pc'[s] = "adding" => ~inGroup'[s]
       /\ pc'[s] = "locking" => inGroup'[s]
       /\ pc'[s] = "leaving" => after'[s] = "gone"
       /\ pc'[s] = "gone" => ~inGroup'[s]
  BY <1>1, <1>2 DEF Moves
<1> QED BY <1>8, <1>9, <1>10

LEMMA InitUntold == Init => Untold
<1> SUFFICES ASSUME Init PROVE Untold
  OBVIOUS
<1>1. \A s \in Sessions : Queue(s) = {}
  BY ItemsEmpty DEF Init, Queue
<1> QED BY <1>1 DEF Init, Untold, Alone

(* No notification reaches a session that is in no group, as long as       *)
(* clients leave by closing their connections and no join ends in a        *)
(* redirect: pushClientAction finds c.group set.                           *)
THEOREM PanicFree ==
  ~Redirected /\ "leave" \notin Messages => (Spec => []NeverPanics)
<1> SUFFICES ASSUME ~Redirected, "leave" \notin Messages PROVE Spec => []NeverPanics
  OBVIOUS
<1> DEFINE Inv == MembersAlive /\ Untold /\ NeverPanics
<1>1. Init => Inv
  BY InitUntold DEF Init, MembersAlive, NeverPanics
<1>2. TypeOK /\ Inv /\ [Next]_vars => Inv'
  <2> SUFFICES ASSUME TypeOK, Inv, [Next]_vars PROVE Inv'
    OBVIOUS
  <2>1. MembersAlive' /\ Untold'
    BY MembersStay, UntoldStays
  <2>2. ASSUME NEW s \in Sessions, Handle(s) PROVE ~panicked'
    <3>1. Head(actions[s]) \in Queue(s)
      <4>1. actions[s] \in Seq(Action)
        BY DEF TypeOK
      <4> QED BY <2>2, <4>1, ItemsTail DEF Handle, Queue
    <3>2. inGroup[s]
      BY <2>2, <3>1 DEF Handle, Untold, Outside, Alone
    <3> QED BY <2>2, <3>2 DEF Handle, HandleJoined, HandleUser, HandlePerms, HandleEnd,
                  NeverPanics
  <2>3. ASSUME ~(\E s \in Sessions : Handle(s)) PROVE panicked' = panicked
    BY ZenonT(80), <2>3 DEF Next, Proceed, Join, Refuse, Bar, TurnAway, Insert, Greet, Enter, Left,
       Leave, Disconnect, Operate, SetLocked, SetPermissions, Kick, Look, Announce, TellLeft,
       TellLocked, Update, Push, vars
  <2> QED BY <2>1, <2>2, <2>3 DEF NeverPanics
<1> QED BY <1>1, <1>2, TypeCorrect, PTL DEF Spec

-----------------------------------------------------------------------------
(* Operators.  Unless operators give and take the privilege, a member of   *)
(* the group has it exactly when the description gives it to its user.     *)
Privileged ==
  /\ \A i \in Ids : members[i] # None => IdOf[members[i]] = i
  /\ \A s \in Sessions : /\ op[s] => IsOp(s)
                         /\ Current(s) => op[s] = IsOp(s)
                         /\ pc[s] = "leaving" => ~Current(s)

(* What a step may do to the privileges of a session.                      *)
LEMMA OpSteps ==
  ASSUME TypeOK, [Next]_vars, NEW x \in Sessions
  PROVE  \/ op'[x] = op[x]
         \/ op'[x] = TRUE /\ "op" \in Messages
         \/ op'[x] = FALSE /\ "unop" \in Messages
         \/ op'[x] = IsOp(x) /\ pc[x] = "adding"
         \/ op'[x] = FALSE /\ ~(inGroup[x] /\ Current(x)) /\ inGroup[x]
         \/ op'[x] = FALSE /\ pc[x] = "leaving"
<1> USE DEF adding, leaving, browser, counters
<1>1. op \in [Sessions -> BOOLEAN] /\ inGroup \in [Sessions -> BOOLEAN]
  BY DEF TypeOK
<1>2. ASSUME NEW s \in Sessions, NEW end, NEW q, LeaveGroup(s, end, q)
      PROVE  \/ op'[x] = op[x]
             \/ op'[x] = FALSE /\ ~(inGroup[x] /\ Current(x)) /\ inGroup[x]
  <2>1. \/ op' = op
        \/ op' = [op EXCEPT ![s] = op[s] /\ ~inGroup[s]] /\ ~(inGroup[s] /\ Current(s))
    BY <1>2 DEF LeaveGroup
  <2> QED BY <1>1, <2>1
<1>3. ASSUME NEW s \in Sessions, Leave(s) \/ Disconnect(s) \/ Handle(s)
      PROVE  \/ op'[x] = op[x]
             \/ op'[x] = FALSE /\ ~(inGroup[x] /\ Current(x)) /\ inGroup[x]
  <2>1. op' = op \/ (\E end, q : LeaveGroup(s, end, q))
    BY <1>3
       DEF Leave, Disconnect, Handle, HandleJoined, HandleUser, HandlePerms, HandleEnd
  <2> QED BY <1>2, <2>1
<1>4. ASSUME NEW s \in Sessions, Bar(s) \/ TurnAway(s) \/ Insert(s)
      PROVE  op'[x] = op[x] \/ (op'[x] = IsOp(x) /\ pc[x] = "adding")
  <2>1. /\ pc[s] = "adding"
        /\ op' = [op EXCEPT ![s] = IsOp(s)] \/ (op' = [op EXCEPT ![s] = FALSE] /\ ~IsOp(s))
    BY <1>4 DEF Bar, TurnAway, Insert
  <2>2. IsOp(s) \in BOOLEAN
    BY DEF IsOp
  <2> QED BY <1>1, <2>1, <2>2
<1>5. ASSUME NEW s \in Sessions, Left(s)
      PROVE  op'[x] = op[x] \/ (op'[x] = FALSE /\ pc[x] = "leaving")
  BY <1>1, <1>5 DEF Left
<1>6. ASSUME NEW s \in Sessions, NEW t \in Sessions, NEW b \in BOOLEAN,
             SetPermissions(s, t, b)
      PROVE  \/ op'[x] = op[x]
             \/ op'[x] = TRUE /\ "op" \in Messages
             \/ op'[x] = FALSE /\ "unop" \in Messages
  BY <1>1, <1>6 DEF SetPermissions
<1>7. ASSUME \/ \E s \in Sessions : \/ Join(s) \/ Refuse(s) \/ Greet(s) \/ Enter(s)
                                    \/ \E b \in BOOLEAN : SetLocked(s, b)
                                    \/ \E t \in Sessions : \/ Look(s, t) \/ Announce(s, t) \/ TellLeft(s, t)
                                                           \/ TellLocked(s, t) \/ Kick(s, t)
             \/ Update
             \/ \E r \in async, t \in Sessions : Push(r, t)
             \/ UNCHANGED vars
      PROVE  op' = op
  BY ZenonT(80), <1>7
     DEF Join, Refuse, Greet, Enter, SetLocked, Look, Announce, TellLeft, TellLocked, Kick, 
     Update, Push, vars
<1> QED BY <1>3, <1>4, <1>5, <1>6, <1>7 DEF Next, Proceed, Operate

(* What a step may do to the group's map of clients: a session that goes   *)
(* takes itself out, and tells the others before it is done.               *)
Goodbye(s) ==
  /\ pc[s] = "idle" /\ inGroup[s] /\ Current(s) /\ pc'[s] = "leaving"
  /\ members' = [members EXCEPT ![IdOf[s]] = None]

LEMMA MemberSteps ==
  ASSUME TypeOK, [Next]_vars
  PROVE  /\ \/ members' = members
            \/ \E s \in Sessions : Goodbye(s)
            \/ \E s \in Sessions : Insert(s)
         /\ \A s \in Sessions : pc'[s] = "leaving" => pc[s] = "leaving" \/ Goodbye(s)
         /\ \A s \in Sessions : pc[s] = "leaving" => pc'[s] = "leaving" \/ Left(s)
<1> DEFINE Fine == /\ \/ members' = members
                      \/ \E s \in Sessions : Goodbye(s)
                      \/ \E s \in Sessions : Insert(s)
                   /\ \A s \in Sessions : pc'[s] = "leaving" => pc[s] = "leaving" \/ Goodbye(s)
                   /\ \A s \in Sessions : pc[s] = "leaving" => pc'[s] = "leaving" \/ Left(s)
<1> USE DEF adding, leaving, browser, counters
<1>1. ASSUME NEW s \in Sessions, NEW end \in {"idle", "gone"}, NEW q, pc[s] = "idle",
             LeaveGroup(s, end, q)
      PROVE  Fine
  <2>1. \/ members' = members /\ pc' = [pc EXCEPT ![s] = end]
        \/ /\ pc' = [pc EXCEPT ![s] = "leaving"] /\ inGroup[s] /\ Current(s)
           /\ members' = [members EXCEPT ![IdOf[s]] = None]
    BY <1>1 DEF LeaveGroup
  <2> QED BY <1>1, <2>1 DEF TypeOK, Goodbye
<1>2. ASSUME NEW s \in Sessions, Leave(s) \/ Disconnect(s)
      PROVE  Fine
  BY <1>1, <1>2 DEF Leave, Disconnect
<1>3. ASSUME members' = members, pc' = pc PROVE Fine
  BY <1>3
<1>4. ASSUME NEW s \in Sessions, Handle(s) PROVE Fine
  <2>1. (members' = members /\ pc' = pc) \/ (\E q : LeaveGroup(s, "gone", q))
    BY <1>4 DEF Handle, HandleJoined, HandleUser, HandlePerms, HandleEnd
  <2>2. pc[s] = "idle"
    BY <1>4 DEF Handle
  <2> QED BY <1>1, <1>3, <2>1, <2>2
<1>5. ASSUME NEW s \in Sessions, NEW v, pc[s] # "leaving", v # "leaving",
             pc' = [pc EXCEPT ![s] = v], members' = members
      PROVE  Fine
  BY <1>5 DEF TypeOK
<1>6. ASSUME NEW s \in Sessions,
             Join(s) \/ Refuse(s) \/ Bar(s) \/ TurnAway(s) \/ Greet(s) \/ Enter(s)
      PROVE  Fine
  BY <1>5, <1>6 DEF Join, Refuse, Bar, TurnAway, Greet, Enter
<1>7. ASSUME NEW s \in Sessions, Insert(s) PROVE Fine
  BY <1>7 DEF Insert, TypeOK
<1>8. ASSUME NEW s \in Sessions, Left(s) PROVE Fine
  <2>1. members' = members /\ pc[s] = "leaving" /\ pc' = [pc EXCEPT ![s] = after[s]]
    BY <1>8 DEF Left
  <2>2. after[s] # "leaving"
    BY DEF TypeOK
  <2> QED BY <1>8, <2>1, <2>2 DEF TypeOK
<1>9. ASSUME NEW s \in Sessions, Operate(s) PROVE Fine
  <2>1. ASSUME NEW b \in BOOLEAN, SetLocked(s, b) PROVE Fine
    <3>1. /\ pc[s] = "idle" /\ members' = members
          /\ pc' = [pc EXCEPT ![s] = "idle"] \/ pc' = [pc EXCEPT ![s] = "locking"]
      BY <2>1 DEF SetLocked, Acting
    <3> QED BY <1>5, <3>1
  <2>2. ASSUME \/ \E t \in Sessions, b \in BOOLEAN : SetPermissions(s, t, b)
               \/ \E t \in Sessions : Kick(s, t)
        PROVE  Fine
    BY <1>3, <2>2 DEF SetPermissions, Kick
  <2> QED BY <1>9, <2>1, <2>2 DEF Operate
<1>10. ASSUME NEW s \in Sessions, NEW t \in Sessions,
             Look(s, t) \/ Announce(s, t) \/ TellLeft(s, t) \/ TellLocked(s, t)
      PROVE  Fine
  <2>1. CASE Look(s, t) \/ Announce(s, t) \/ TellLeft(s, t)
    BY <1>3, <2>1 DEF Look, Announce, TellLeft
  <2>2. CASE TellLocked(s, t)
    <3>1. /\ pc[s] = "locking" /\ members' = members
          /\ pc' = [pc EXCEPT ![s] = "idle"] \/ pc' = [pc EXCEPT ![s] = "locking"]
      BY <2>2 DEF TellLocked
    <3> QED BY <1>5, <3>1
  <2> QED BY <1>10, <2>1, <2>2
<1>11. ASSUME Update \/ (\E r \in async, t \in Sessions : Push(r, t)) \/ UNCHANGED vars
      PROVE  Fine
  BY <1>3, <1>11 DEF Update, Push, vars
<1> HIDE DEF Fine
<1>12. Fine
  BY <1>2, <1>4, <1>6, <1>7, <1>8, <1>9, <1>10, <1>11 DEF Next, Proceed
<1> QED BY <1>12 DEF Fine

(* Members keep to their ids, and only an insertion makes a member.        *)
LEMMA IdsStay ==
  ASSUME TypeOK, [Next]_vars, \A i \in Ids : members[i] # None => IdOf[members[i]] = i
  PROVE  \A i \in Ids : members'[i] # None => IdOf[members'[i]] = i
<1>1. /\ \A s \in Sessions : IdOf[s] \in Ids /\ s # None
      /\ members \in [Ids -> Sessions \cup {None}]
  BY ConstantsAssumption DEF TypeOK
<1>2. CASE members' = members
  BY <1>2
<1>3. ASSUME NEW s \in Sessions, NEW m, m = None \/ m = s, members' = [members EXCEPT ![IdOf[s]] = m]
      PROVE  \A i \in Ids : members'[i] # None => IdOf[members'[i]] = i
  BY <1>1, <1>3
<1> QED BY <1>2, <1>3, MemberSteps DEF Goodbye, Insert

LEMMA StillCurrent ==
  ASSUME TypeOK, [Next]_vars, NEW s \in Sessions, ~Insert(s)
  PROVE  Current(s)' => Current(s)
<1>0. /\ \A t \in Sessions : IdOf[t] \in Ids /\ t # None
      /\ members \in [Ids -> Sessions \cup {None}]
  BY ConstantsAssumption DEF TypeOK
<1>1. ASSUME NEW t \in Sessions, NEW m, m # s, members' = [members EXCEPT ![IdOf[t]] = m]
      PROVE  Current(s)' => Current(s)
  BY <1>0, <1>1 DEF Current
<1>2. ASSUME NEW t \in Sessions, Goodbye(t)
      PROVE  Current(s)' => Current(s)
  BY <1>0, <1>1, <1>2 DEF Goodbye
<1>3. ASSUME NEW t \in Sessions, Insert(t)
      PROVE  Current(s)' => Current(s)
  BY <1>1, <1>3 DEF Insert
<1>4. CASE members' = members
  BY <1>4 DEF Current
<1> QED BY <1>2, <1>3, <1>4, MemberSteps

LEMMA PrivilegedStays ==
  ASSUME TypeOK, Privileged, [Next]_vars, {"op", "unop"} \cap Messages = {}
  PROVE  Privileged'
<1>1. /\ \A s \in Sessions : IdOf[s] \in Ids /\ s # None
      /\ members \in [Ids -> Sessions \cup {None}]
      /\ op \in [Sessions -> BOOLEAN]
  BY ConstantsAssumption DEF TypeOK
<1>2. \A i \in Ids : members'[i] # None => IdOf[members'[i]] = i
  BY IdsStay DEF Privileged
<1>3. ASSUME NEW s \in Sessions
      PROVE  /\ op'[s] => IsOp(s)
             /\ Current(s)' => op'[s] = IsOp(s)
             /\ pc'[s] = "leaving" => ~Current(s)'
  <2>1. /\ op[s] => IsOp(s)
        /\ Current(s) => op[s] = IsOp(s)
        /\ pc[s] = "leaving" => ~Current(s)
    BY DEF Privileged
  <2>2. op'[s] => IsOp(s)
    BY <2>1, OpSteps
  <2>3. ASSUME Insert(s)
        PROVE  op'[s] = IsOp(s) /\ pc'[s] = "greeting"
    BY <1>1, <2>3 DEF Insert, TypeOK
  <2>4. CASE Insert(s)
    BY <2>2, <2>3, <2>4
  <2>5. CASE ~Insert(s)
    <3>1. Current(s)' => Current(s)
      BY <2>5, StillCurrent
    <3>2. Current(s)' => op'[s] = IsOp(s)
      BY <2>1, <3>1, OpSteps
    <3>3. ASSUME pc'[s] = "leaving", Current(s)' PROVE FALSE
      <4>1. Current(s) /\ pc[s] # "leaving"
        BY <2>1, <3>1, <3>3
      <4>2. Goodbye(s)
        BY <3>3, <4>1, MemberSteps
      <4> QED BY <1>1, <3>3, <4>2 DEF Goodbye, Current
    <3> QED BY <2>2, <3>2, <3>3
  <2> QED BY <2>4, <2>5
<1> QED BY <1>2, <1>3 DEF Privileged

(* Two operators with one id: one is the other's browser, come back.       *)
OneOperatorPerId ==
  \A s, t \in Sessions : IsOp(s) /\ IsOp(t) /\ IdOf[s] = IdOf[t] => s = t

(* An operator that believes to be in the group is in the group.           *)
Seated ==
  \A s \in Sessions :
    /\ pc[s] = "adding" => ~inGroup[s]
    /\ /\ IsOp(s)
       /\ pc[s] \in {"greeting", "announcing"}
            \/ (inGroup[s] /\ pc[s] \in {"idle", "locking"})
       => Current(s)

(* How the two variables of a session's own move together, "leave" allowed. *)
LEMMA SeatSteps ==
  ASSUME TypeOK, [Next]_vars, NEW x \in Sessions
  PROVE  \/ pc'[x] = pc[x] /\ inGroup'[x] = inGroup[x]
         \/ pc[x] = "idle" /\ ~inGroup[x] /\ pc'[x] = "adding" /\ ~inGroup'[x]
         \/ pc[x] = "adding" /\ pc'[x] = "idle" /\ inGroup'[x] = inGroup[x]
         \/ Insert(x) /\ pc'[x] = "greeting"
         \/ pc[x] = "greeting" /\ pc'[x] = "announcing" /\ inGroup'[x] = inGroup[x]
         \/ pc[x] = "announcing" /\ pc'[x] = "idle"
         \/ pc'[x] \in {"leaving", "gone"}
         \/ ~inGroup'[x] /\ pc'[x] = "idle"
         \/ pc[x] \in {"idle", "locking"} /\ pc'[x] \in {"idle", "locking"}
            /\ inGroup'[x] = inGroup[x]
<1> DEFINE Fine ==
         \/ pc'[x] = pc[x] /\ inGroup'[x] = inGroup[x]
         \/ pc[x] = "idle" /\ ~inGroup[x] /\ pc'[x] = "adding" /\ ~inGroup'[x]
         \/ pc[x] = "adding" /\ pc'[x] = "idle" /\ inGroup'[x] = inGroup[x]
         \/ Insert(x) /\ pc'[x] = "greeting"
         \/ pc[x] = "greeting" /\ pc'[x] = "announcing" /\ inGroup'[x] = inGroup[x]
         \/ pc[x] = "announcing" /\ pc'[x] = "idle"
         \/ pc'[x] \in {"leaving", "gone"}
         \/ ~inGroup'[x] /\ pc'[x] = "idle"
         \/ pc[x] \in {"idle", "locking"} /\ pc'[x] \in {"idle", "locking"}
            /\ inGroup'[x] = inGroup[x]
<1> USE DEF adding, leaving, browser, counters
<1>1. pc \in [Sessions -> {"idle", "adding", "greeting", "announcing", "leaving",
                           "locking", "gone"}]
      /\ inGroup \in [Sessions -> BOOLEAN]
      /\ after \in [Sessions -> {"idle", "gone"}]
  BY DEF TypeOK
<1>2. ASSUME NEW s \in Sessions, NEW end \in {"idle", "gone"}, NEW q, LeaveGroup(s, end, q)
      PROVE  Fine
  <2>1. \/ pc' = [pc EXCEPT ![s] = "leaving"] /\ inGroup' = inGroup
        \/ pc' = [pc EXCEPT ![s] = end] /\ inGroup' = [inGroup EXCEPT ![s] = FALSE]
    BY <1>2 DEF LeaveGroup
  <2> QED BY <1>1, <2>1
<1>3. ASSUME NEW s \in Sessions, Leave(s) \/ Disconnect(s) PROVE Fine
  BY <1>2, <1>3 DEF Leave, Disconnect
<1>4. ASSUME pc' = pc, inGroup' = inGroup PROVE Fine
  BY <1>4
<1>5. ASSUME NEW s \in Sessions, Handle(s) PROVE Fine
  <2>1. (inGroup' = inGroup /\ pc' = pc) \/ (\E q : LeaveGroup(s, "gone", q))
    BY <1>5 DEF Handle, HandleJoined, HandleUser, HandlePerms, HandleEnd
  <2> QED BY <1>2, <1>4, <2>1
<1>6. ASSUME NEW s \in Sessions, Join(s) \/ Refuse(s) \/ Bar(s) \/ TurnAway(s) PROVE Fine
  BY <1>1, <1>6 DEF Join, Refuse, Bar, TurnAway
<1>7. ASSUME NEW s \in Sessions, Insert(s) \/ Greet(s) PROVE Fine
  <2>1. CASE Insert(s)
    <3>1. pc' = [pc EXCEPT ![s] = "greeting"] /\ inGroup' = inGroup
      BY <2>1 DEF Insert
    <3> QED BY <1>1, <2>1, <3>1
  <2>2. CASE Greet(s)
    BY <1>1, <2>2 DEF Greet
  <2> QED BY <1>7, <2>1, <2>2
<1>8. ASSUME NEW s \in Sessions, Enter(s) PROVE Fine
  BY <1>1, <1>8 DEF Enter
<1>9. ASSUME NEW s \in Sessions, Left(s) PROVE Fine
  <2>1. pc' = [pc EXCEPT ![s] = after[s]] /\ inGroup' = [inGroup EXCEPT ![s] = FALSE]
    BY <1>9 DEF Left
  <2> QED BY <1>1, <2>1
<1>10. ASSUME NEW s \in Sessions, NEW t \in Sessions, Look(s, t) \/ Announce(s, t) \/ TellLeft(s, t) \/ TellLocked(s, t)
      PROVE  Fine
  <2>1. CASE Look(s, t) \/ Announce(s, t) \/ TellLeft(s, t)
    BY <1>4, <2>1 DEF Look, Announce, TellLeft
  <2>2. CASE TellLocked(s, t)
    BY <1>1, <2>2 DEF TellLocked
  <2> QED BY <1>10, <2>1, <2>2
<1>11. ASSUME NEW s \in Sessions, Operate(s) PROVE Fine
  <2>1. ASSUME NEW b \in BOOLEAN, SetLocked(s, b) PROVE Fine
    BY <1>1, <2>1 DEF SetLocked, Acting
  <2>2. ASSUME \/ \E t \in Sessions, b \in BOOLEAN : SetPermissions(s, t, b)
               \/ \E t \in Sessions : Kick(s, t)
        PROVE  Fine
    BY <1>4, <2>2 DEF SetPermissions, Kick
  <2> QED BY <1>11, <2>1, <2>2 DEF Operate
<1>12. ASSUME Update \/ (\E r \in async, t \in Sessions : Push(r, t)) \/ UNCHANGED vars
       PROVE  Fine
  BY <1>4, <1>12 DEF Update, Push, vars
<1> HIDE DEF Fine
<1>13. Fine
  BY <1>3, <1>5, <1>6, <1>7, <1>8, <1>9, <1>10, <1>11, <1>12 DEF Next, Proceed
<1> QED BY <1>13 DEF Fine

LEMMA SeatedStays ==
  ASSUME TypeOK, Privileged, Seated, [Next]_vars, OneOperatorPerId
  PROVE  Seated'
<1>1. /\ \A s \in Sessions : IdOf[s] \in Ids /\ s # None
      /\ members \in [Ids -> Sessions \cup {None}]
      /\ \A s \in Sessions : pc[s] \in {"idle", "adding", "greeting", "announcing",
                                       "leaving", "locking", "gone"}
  BY ConstantsAssumption DEF TypeOK
<1> SUFFICES ASSUME NEW s \in Sessions
             PROVE  /\ pc'[s] = "adding" => ~inGroup'[s]
                    /\ /\ IsOp(s)
                       /\ pc'[s] \in {"greeting", "announcing"}
                            \/ (inGroup'[s] /\ pc'[s] \in {"idle", "locking"})
                       => Current(s)'
  BY DEF Seated, IsOp
<1>2. pc'[s] = "adding" => ~inGroup'[s]
  BY SeatSteps DEF Seated
<1>3. ASSUME IsOp(s), pc'[s] \in {"greeting", "announcing"}
                       \/ (inGroup'[s] /\ pc'[s] \in {"idle", "locking"})
      PROVE  Current(s)'
  <2>1. CASE Insert(s)
    BY <1>1, <2>1 DEF Insert, Current
  <2>2. CASE ~Insert(s)
    <3>1. /\ pc[s] \in {"greeting", "announcing"}
               \/ (inGroup[s] /\ pc[s] \in {"idle", "locking"})
          /\ pc[s] # "adding" /\ pc'[s] # "leaving"
      BY <1>1, <1>3, <2>2, SeatSteps DEF Seated
    <3>2. Current(s)
      BY <1>3, <3>1 DEF Seated
    <3>3. ASSUME NEW t \in Sessions, Goodbye(t) PROVE Current(s)'
      <4>1. t # s
        BY <3>1, <3>3 DEF Goodbye
      <4> QED BY <1>1, <3>2, <3>3, <4>1 DEF Goodbye, Current
    <3>4. ASSUME NEW t \in Sessions, Insert(t) PROVE Current(s)'
      <4>1. t # s
        BY <2>2, <3>4
      <4>2. CASE IdOf[t] = IdOf[s]
        <5>1. UserOf[s] = UserOf[t]
          BY <1>1, <3>2, <3>4, <4>2 DEF Insert, Barred, CanReplace, Current
        <5>2. IsOp(t)
          BY <1>3, <5>1 DEF IsOp
        <5> QED BY <1>3, <4>1, <4>2, <5>2 DEF OneOperatorPerId
      <4>3. CASE IdOf[t] # IdOf[s]
        BY <1>1, <3>2, <3>4, <4>3 DEF Insert, Current
      <4> QED BY <4>2, <4>3
    <3> QED BY <3>2, <3>3, <3>4, MemberSteps DEF Current
  <2> QED BY <2>1, <2>2
<1> QED BY <1>2, <1>3

(* autoLockKick leaves the group locked when it finds no operator.         *)
LEMMA AutoLocks ==
  ASSUME NEW q, AutoLockKick(q), Autolock, NoOperator
  PROVE  locked'
BY DEF AutoLockKick, MustLock

(* Nobody changes the lock but operators, and autoLockKick.                *)
LEMMA LockSteps ==
  ASSUME TypeOK, [Next]_vars, locked, ~locked'
  PROVE  \E s \in Sessions : SetLocked(s, FALSE)
<1> USE DEF adding, leaving, browser, counters
<1>1. ASSUME \/ \E s \in Sessions : Join(s) \/ Left(s)
             \/ Update
      PROVE  FALSE
  BY <1>1 DEF Join, Left, Relock, Update, AutoLockKick
<1>2. ASSUME NEW s \in Sessions, NEW b \in BOOLEAN, SetLocked(s, b)
      PROVE  SetLocked(s, FALSE)
  BY <1>2 DEF SetLocked
<1>3. ASSUME NEW s \in Sessions,
             \/ Refuse(s) \/ Bar(s) \/ TurnAway(s) \/ Insert(s) \/ Greet(s) \/ Enter(s)
             \/ Leave(s) \/ Disconnect(s) \/ Handle(s)
      PROVE  locked' = locked
  BY <1>3 DEF Refuse, Bar, TurnAway, Insert, Greet, Enter, Leave, Disconnect, Handle
<1>4. ASSUME NEW s \in Sessions, NEW t \in Sessions,
             \/ Look(s, t) \/ Announce(s, t) \/ TellLeft(s, t) \/ TellLocked(s, t) \/ Kick(s, t)
             \/ \E b \in BOOLEAN : SetPermissions(s, t, b)
      PROVE  locked' = locked
  BY <1>4 DEF Look, Announce, TellLeft, TellLocked, Kick, SetPermissions
<1>5. ASSUME (\E r \in async, t \in Sessions : Push(r, t)) \/ UNCHANGED vars
      PROVE  locked' = locked
  BY <1>5 DEF Push, vars
<1> QED BY <1>1, <1>2, <1>3, <1>4, <1>5 DEF Next, Proceed, Operate

(* When the last operator goes, the group is locked before the operator's  *)
(* session ends, as long as operators are made by the description alone.   *)
(* If operators lock and unlock, no operator may come back under the id of *)
(* a session of its own that is still handling messages: that one, which   *)
(* is not in the group any more, could unlock a group without operators.   *)
THEOREM LastOpAlwaysLocks ==
  /\ {"op", "unop"} \cap Messages = {}
  /\ "lock" \in Messages => OneOperatorPerId
  => (Spec => []LastOpLocks)
<1> SUFFICES ASSUME {"op", "unop"} \cap Messages = {},
                    "lock" \in Messages => OneOperatorPerId
             PROVE  Spec => []LastOpLocks
  OBVIOUS
<1> DEFINE Inv == /\ Privileged /\ LastOpLocks
                  /\ "lock" \in Messages => Seated
<1>1. Init => Inv
  <2> SUFFICES ASSUME Init PROVE Inv
    OBVIOUS
  <2>1. \A s \in Sessions : /\ ~Current(s) /\ pc[s] = "idle"
                            /\ op[s] = FALSE /\ inGroup[s] = FALSE
    BY ConstantsAssumption DEF Init, Current
  <2>2. members = [i \in Ids |-> None] /\ locked = Autolock
    BY DEF Init
  <2> QED BY <2>1, <2>2 DEF Privileged, LastOpLocks, Seated
<1>2. TypeOK /\ Inv /\ [Next]_vars => Inv'
  <2> SUFFICES ASSUME TypeOK, Inv, [Next]_vars PROVE Inv'
    OBVIOUS
  <2>1. Privileged' /\ ("lock" \in Messages => Seated')
    BY PrivilegedStays, SeatedStays
  <2>2. /\ \A s \in Sessions : IdOf[s] \in Ids /\ s # None
        /\ members \in [Ids -> Sessions \cup {None}]
        /\ op \in [Sessions -> BOOLEAN]
    BY ConstantsAssumption DEF TypeOK
  <2> SUFFICES ASSUME Autolock, NoOperator', \A s \in Sessions : pc'[s] # "leaving"
               PROVE  locked'
    BY <2>1 DEF LastOpLocks
  <2>3. ASSUME NEW s \in Sessions, Current(s), op[s] PROVE ~NoOperator'
    <3>1. IsOp(s) /\ IdOf[s] \in Ids
      BY <2>2, <2>3 DEF Privileged
    <3>2. \A t \in Sessions : ~Goodbye(t)
      BY DEF Goodbye
    <3>3. CASE members' = members
      <4>1. Current(s)'
        BY <2>3, <3>3 DEF Current
      <4>2. op'[s] = TRUE
        BY <2>1, <3>1, <4>1 DEF Privileged, IsOp
      <4> QED BY <2>2, <4>1, <4>2 DEF NoOperator, Member, Current
    <3>4. ASSUME NEW t \in Sessions, Insert(t) PROVE ~NoOperator'
      <4>1. CASE IdOf[t] = IdOf[s]
        <5>1. UserOf[s] = UserOf[t]
          BY <2>2, <2>3, <3>4, <4>1 DEF Insert, Barred, CanReplace, Current
        <5>2. IsOp(t)
          BY <3>1, <5>1 DEF IsOp
        <5>3. Current(t)' /\ op'[t]
          BY <2>2, <3>4, <5>2 DEF Insert, Current
        <5> QED BY <2>2, <5>3 DEF NoOperator, Member, Current
      <4>2. CASE IdOf[t] # IdOf[s]
        <5>1. Current(s)' /\ op'[s]
          BY <2>2, <2>3, <3>4, <4>2 DEF Insert, Current
        <5> QED BY <2>2, <5>1 DEF NoOperator, Member, Current
      <4> QED BY <4>1, <4>2
    <3> QED BY <3>2, <3>3, <3>4, MemberSteps
  <2>4. NoOperator
    <3> SUFFICES ASSUME NEW i \in Ids, members[i] # None, op[members[i]] PROVE FALSE
      BY DEF NoOperator, Member
    <3>1. members[i] \in Sessions /\ Current(members[i])
      BY <2>2 DEF Privileged, Current
    <3> QED BY <2>3, <3>1
  <2>5. CASE locked
    <3>1. ASSUME NEW s \in Sessions, SetLocked(s, FALSE) PROVE FALSE
      <4>1. "lock" \in Messages /\ pc[s] = "idle" /\ inGroup[s] /\ op[s]
        BY <3>1 DEF SetLocked, Acting
      <4>2. Current(s)
        BY <4>1 DEF Seated, Privileged
      <4> QED BY <2>3, <4>1, <4>2
    <3> QED BY <2>5, <3>1, LockSteps
  <2>6. CASE ~locked
    <3>1. PICK s \in Sessions : pc[s] = "leaving"
      BY <2>4, <2>6 DEF LastOpLocks
    <3>2. Left(s)
      BY <3>1, MemberSteps
    <3> QED BY <2>4, <3>2, AutoLocks DEF Left, Relock
  <2> QED BY <2>5, <2>6
<1>3. Inv => LastOpLocks
  OBVIOUS
<1> QED BY <1>1, <1>2, <1>3, TypeCorrect, PTL DEF Spec

-----------------------------------------------------------------------------
(* Unless somebody demotes them, members that the description makes        *)
(* operators are.                                                          *)
Appointed ==
  /\ \A i \in Ids : members[i] # None => IdOf[members[i]] = i
  /\ \A s \in Sessions : /\ Current(s) /\ IsOp(s) => op[s]
                         /\ pc[s] = "leaving" => ~Current(s)

LEMMA AppointedStays ==
  ASSUME TypeOK, Appointed, [Next]_vars, "unop" \notin Messages
  PROVE  Appointed'
<1>1. /\ \A s \in Sessions : IdOf[s] \in Ids /\ s # None
      /\ members \in [Ids -> Sessions \cup {None}]
      /\ op \in [Sessions -> BOOLEAN]
  BY ConstantsAssumption DEF TypeOK
<1>2. \A i \in Ids : members'[i] # None => IdOf[members'[i]] = i
  BY IdsStay DEF Appointed
<1>3. ASSUME NEW s \in Sessions
      PROVE  /\ Current(s)' /\ IsOp(s) => op'[s]
             /\ pc'[s] = "leaving" => ~Current(s)'
  <2>1. /\ Current(s) /\ IsOp(s) => op[s]
        /\ pc[s] = "leaving" => ~Current(s)
    BY DEF Appointed
  <2>2. CASE Insert(s)
    BY <1>1, <2>2 DEF Insert, TypeOK
  <2>3. CASE ~Insert(s)
    <3>1. Current(s)' => Current(s)
      BY <2>3, StillCurrent
    <3>2. Current(s)' /\ IsOp(s) => op'[s]
      BY <2>1, <3>1, OpSteps
    <3>3. ASSUME pc'[s] = "leaving", Current(s)' PROVE FALSE
      <4>1. Current(s) /\ pc[s] # "leaving"
        BY <2>1, <3>1, <3>3
      <4>2. Goodbye(s)
        BY <3>3, <4>1, MemberSteps
      <4> QED BY <1>1, <3>3, <4>2 DEF Goodbye, Current
    <3> QED BY <3>2, <3>3
  <2> QED BY <2>2, <2>3
<1>4. \A s \in Sessions : IsOp(s)' = IsOp(s)
  BY DEF IsOp
<1> QED BY <1>2, <1>3, <1>4 DEF Appointed

(* autoLockKick's goroutines are given sessions that no operator has.      *)
KicksOrdinary ==
  \A r \in async : r.put = KickAction => \A t \in r.todo : ~IsOp(t)

LEMMA AppendDiffers ==
  ASSUME NEW q \in Seq(Action), NEW a \in Action, NEW b \in Action, a # b
  PROVE  /\ Append(q, a) # Append(q, b) /\ q # Append(q, a) /\ <<>> # Append(q, a)
         /\ Append(<<>>, a) # Append(q, b)
         /\ q # <<>> => Tail(q) # Append(q, a)
<1>1. /\ Len(q) \in Nat /\ Len(Append(q, a)) = Len(q) + 1 /\ Len(Append(q, b)) = Len(q) + 1
      /\ Append(q, a)[Len(q) + 1] = a /\ Append(q, b)[Len(q) + 1] = b
  BY AppendProperties, LenProperties
<1>2. <<>> \in Seq(Action) /\ Len(<<>>) = 0
  BY EmptySeq
<1>3. Len(Append(<<>>, a)) = 1 /\ Append(<<>>, a)[1] = a
  BY <1>2, AppendProperties
<1>4. q # <<>> => Len(Tail(q)) = Len(q) - 1
  BY HeadTailProperties
<1>5. Append(<<>>, a) # Append(q, b)
  <2>1. CASE Len(q) = 0
    BY <1>1, <1>3, <2>1
  <2>2. CASE Len(q) # 0
    BY <1>1, <1>3, <2>2
  <2> QED BY <2>1, <2>2
<1>6. Append(q, a) # Append(q, b) /\ q # Append(q, a) /\ <<>> # Append(q, a)
  BY <1>1, <1>2
<1>7. q # <<>> => Tail(q) # Append(q, a)
  BY <1>1, <1>4
<1> QED BY <1>5, <1>6, <1>7

LEMMA KicksStayOrdinary ==
  ASSUME TypeOK, Appointed, KicksOrdinary, [Next]_vars
  PROVE  KicksOrdinary'
<1> SUFFICES ASSUME NEW r \in async', r.put = KickAction, NEW t \in r.todo
             PROVE  ~IsOp(t)
  BY DEF KicksOrdinary, IsOp, KickAction
<1>1. CASE \E o \in async : r.put = o.put /\ r.todo \subseteq o.todo
  BY <1>1 DEF KicksOrdinary
<1>2. CASE r.todo = Member /\ MustKick
  <2>1. PICK i \in Ids : t = members[i] /\ members[i] # None
    BY <1>2 DEF Member
  <2>2. t \in Sessions /\ IdOf[t] = i
    BY <2>1 DEF Appointed, TypeOK
  <2>3. Current(t) /\ ~op[t]
    BY <1>2, <2>1, <2>2 DEF Current, MustKick, NoOperator
  <2> QED BY <2>2, <2>3 DEF Appointed
<1>3. CASE \E s \in Sessions : r.put = UserAction("change", s, op[s])
  BY <1>3 DEF UserAction, KickAction
<1> QED BY <1>1, <1>2, <1>3, AsyncSteps

(* An operator of the description, whom nobody demotes, is never told to   *)
(* go by the goroutine of autoLockKick, whoever is promoted, leaves or     *)
(* joins while it runs.                                                    *)
THEOREM NewcomersAreSpared ==
  "unop" \notin Messages => (Spec => AutokickSparesNewcomers)
<1> SUFFICES ASSUME "unop" \notin Messages PROVE Spec => AutokickSparesNewcomers
  OBVIOUS
<1> DEFINE Inv == Appointed /\ KicksOrdinary
           Spared == \A t \in Sessions : Autokicked(t) => ~IsOp(t)
<1>1. Init => Inv
  <2> SUFFICES ASSUME Init PROVE Inv
    OBVIOUS
  <2>1. \A s \in Sessions : pc[s] = "idle" /\ op[s] = FALSE /\ ~Current(s)
    BY ConstantsAssumption DEF Init, Current
  <2>2. members = [i \in Ids |-> None] /\ async = {}
    BY DEF Init
  <2> QED BY <2>1, <2>2 DEF Appointed, KicksOrdinary
<1>2. TypeOK /\ Inv /\ [Next]_vars => Inv'
  BY AppointedStays, KicksStayOrdinary
<1>3. TypeOK /\ Inv /\ [Next]_vars => [Spared]_vars
  <2> SUFFICES ASSUME TypeOK, Inv, [Next]_vars, NEW t \in Sessions, async' # async,
                      actions'[t] = Append(actions[t], KickAction)
               PROVE  ~IsOp(t)
    BY DEF Autokicked
  <2> USE DEF adding, leaving, browser, counters
  <2>1. /\ actions \in [Sessions -> Seq(Action)] /\ actions[t] \in Seq(Action)
        /\ KickAction \in Action
        /\ \A k \in {"join", "change", "leave"} :
             JoinedAction(t, k) \in Action /\ JoinedAction(t, k) # KickAction
    BY ActionsTyped DEF TypeOK, JoinedAction, KickAction
  <2>2. ASSUME NEW q \in [Sessions -> Seq(Action)], q[t] \in {actions[t], <<>>},
               AutoLockKick(q)
        PROVE  FALSE
    <3>1. actions'[t] \in {q[t], Append(q[t], JoinedAction(t, "change"))}
      BY <2>2 DEF AutoLockKick, PutJoined
    <3>2. /\ JoinedAction(t, "change") \in Action
          /\ JoinedAction(t, "change") # KickAction
      BY <2>1
    <3> QED BY <2>1, <2>2, <3>1, <3>2, AppendDiffers
  <2>3. ASSUME (\E s \in Sessions : Join(s)) \/ Update PROVE FALSE
    BY <2>1, <2>2, <2>3 DEF Join, Update
  <2>4. ASSUME NEW s \in Sessions, Left(s) PROVE FALSE
    <3> DEFINE q == IF after[s] = "gone" THEN [actions EXCEPT ![s] = <<>>] ELSE actions
    <3>1. q \in [Sessions -> Seq(Action)] /\ q[t] \in {actions[t], <<>>}
      BY <2>1, EmptySeq
    <3>2. AutoLockKick(q)
      BY <2>4 DEF Left, Relock
    <3> HIDE DEF q
    <3> QED BY <2>2, <3>1, <3>2
  <2>5. ASSUME NEW s \in Sessions, Handle(s) PROVE FALSE
    <3>1. actions' = [actions EXCEPT ![s] = Tail(@)] /\ actions[s] # <<>>
      BY <2>5 DEF Handle, HandleJoined, HandleUser, HandlePerms, HandleEnd
    <3>2. actions'[t] = actions[t] \/ (actions'[t] = Tail(actions[t]) /\ actions[t] # <<>>)
      BY <2>1, <3>1
    <3>3. PermsAction \in Action /\ PermsAction # KickAction
      BY ActionsTyped DEF PermsAction, KickAction
    <3> QED BY <2>1, <3>2, <3>3, AppendDiffers
  <2>6. ASSUME NEW r \in async, NEW s \in Sessions, Push(r, s) PROVE ~IsOp(t)
    <3>1. r.put \in Action
      BY DEF TypeOK, Goroutine
    <3>2. actions'[t] = IF t = s /\ pc[t] # "gone" THEN Append(actions[t], r.put) ELSE actions[t]
      BY <2>6 DEF Push, Put
    <3>3. PermsAction \in Action /\ PermsAction # KickAction
      BY ActionsTyped DEF PermsAction, KickAction
    <3>4. actions'[t] # actions[t]
      BY <2>1, <3>3, AppendDiffers
    <3>5. t = s /\ Append(actions[t], r.put) = Append(actions[t], KickAction)
      BY <3>2, <3>4
    <3>6. r.put = KickAction
      BY <2>1, <3>1, <3>5, AppendDiffers
    <3> QED BY <2>6, <3>5, <3>6 DEF KicksOrdinary, Push
  <2>7. ASSUME NEW s \in Sessions,
               \/ Refuse(s) \/ Bar(s) \/ TurnAway(s) \/ Insert(s) \/ Greet(s) \/ Enter(s)
               \/ Leave(s) \/ Disconnect(s) \/ Operate(s)
        PROVE  async' = async
    BY <2>7 DEF Refuse, Bar, TurnAway, Insert, Greet, Enter, Leave, Disconnect, Operate,
       SetLocked, SetPermissions, Kick
  <2>8. ASSUME NEW s \in Sessions, NEW x \in Sessions,
               Look(s, x) \/ Announce(s, x) \/ TellLeft(s, x) \/ TellLocked(s, x)
        PROVE  async' = async
    BY <2>8 DEF Look, Announce, TellLeft, TellLocked
  <2>9. ASSUME UNCHANGED vars PROVE async' = async
    BY <2>9 DEF vars
  <2> QED BY <2>3, <2>4, <2>5, <2>6, <2>7, <2>8, <2>9 DEF Next, Proceed
<1> QED BY <1>1, <1>2, <1>3, TypeCorrect, PTL DEF Spec, AutokickSparesNewcomers

-----------------------------------------------------------------------------
(* What the browser was told of the lock and of its own privileges.  A     *)
(* change that it has not been told yet is in its queue, or about to be:   *)
(* SetLocked's loop has not reached it.                                    *)
Refreshed(a) == a.type = "perms" \/ (a.type = "joined" /\ a.kind = "change")

Welcome(a) == a.type = "joined" /\ a.kind = "join"

Awaited(s) == \E t \in Sessions : pc[t] = "locking" /\ s \in todo[t]

Greeted(s) == Current(s) /\ pc[s] # "greeting" /\ ~closing[s]

UpToDate(s) == view[s] = [group |-> TRUE, locked |-> locked, op |-> op[s]]

Informed ==
  \A s \in Sessions : Greeted(s) =>
    \/ view[s].group = FALSE /\ \E a \in Queue(s) : Welcome(a)
    \/ /\ view[s].group = TRUE
       /\ (\E a \in Queue(s) : Refreshed(a)) \/ Awaited(s) \/ UpToDate(s)

(* Whoever changes the privileges of a member queues an action for it.     *)
LEMMA OpNotified ==
  ASSUME TypeOK, [Next]_vars, NEW s \in Sessions, Current(s), op'[s] # op[s],
         pc[s] \in {"greeting", "announcing", "idle", "locking"},
         pc[s] = "idle" => inGroup[s]
  PROVE  PermsAction \in Queue(s)'
<1> USE DEF adding, leaving, browser, counters
<1>1. op \in [Sessions -> BOOLEAN]
  BY DEF TypeOK
<1>2. ASSUME NEW x \in Sessions, NEW end, NEW q, LeaveGroup(x, end, q)
      PROVE  op'[s] = op[s]
  <2>1. op' = op \/ (op' = [op EXCEPT ![x] = op[x] /\ ~inGroup[x]]
                     /\ ~(inGroup[x] /\ Current(x)))
    BY <1>2 DEF LeaveGroup
  <2> QED BY <1>1, <2>1
<1>3. ASSUME NEW x \in Sessions, Leave(x) \/ Disconnect(x) \/ Handle(x)
      PROVE  op'[s] = op[s]
  <2>1. op' = op \/ (\E end, q : LeaveGroup(x, end, q))
    BY <1>3
       DEF Leave, Disconnect, Handle, HandleJoined, HandleUser, HandlePerms, HandleEnd
  <2> QED BY <1>2, <2>1
<1>4. ASSUME NEW x \in Sessions, Bar(x) \/ TurnAway(x) \/ Insert(x) \/ Left(x)
      PROVE  op'[s] = op[s]
  <2>1. x # s
    BY <1>4 DEF Bar, TurnAway, Insert, Left
  <2> QED BY <1>1, <1>4, <2>1 DEF Bar, TurnAway, Insert, Left
<1>5. ASSUME NEW x \in Sessions, NEW t \in Sessions, NEW b \in BOOLEAN,
             SetPermissions(x, t, b)
      PROVE  PermsAction \in Queue(s)'
  <2>1. t = s /\ actions' = Put(actions, {t}, PermsAction)
    BY <1>1, <1>5 DEF SetPermissions
  <2>2. PermsAction \in Action /\ actions \in [Sessions -> Seq(Action)] /\ s \in {t}
        /\ pc[s] # "gone"
    BY <2>1, ActionsTyped DEF TypeOK
  <2>3. PermsAction \in Items(actions'[s])
    BY <2>1, <2>2, PutReaches
  <2> QED BY <2>3 DEF Queue
<1>6. ASSUME NEW x \in Sessions,
             \/ Join(x) \/ Refuse(x) \/ Greet(x) \/ Enter(x)
             \/ \E b \in BOOLEAN : SetLocked(x, b)
      PROVE  op' = op
  BY <1>6 DEF Join, Refuse, Greet, Enter, SetLocked
<1>7. ASSUME NEW x \in Sessions, NEW t \in Sessions,
             Look(x, t) \/ Announce(x, t) \/ TellLeft(x, t) \/ TellLocked(x, t) \/ Kick(x, t)
      PROVE  op' = op
  BY <1>7 DEF Look, Announce, TellLeft, TellLocked, Kick
<1>8. ASSUME Update \/ (\E r \in async, t \in Sessions : Push(r, t)) \/ UNCHANGED vars
      PROVE  op' = op
  BY <1>8 DEF Update, Push, vars
<1> QED BY <1>3, <1>4, <1>5, <1>6, <1>7, <1>8 DEF Next, Proceed, Operate

(* Whoever changes the lock queues an action for every member, or starts   *)
(* the loop that does.                                                     *)
LEMMA LockNotified ==
  ASSUME TypeOK, [Next]_vars, NEW s \in Sessions, s \in Member, pc[s] # "gone",
         locked' # locked
  PROVE  JoinedAction(s, "change") \in Queue(s)' \/ Awaited(s)'
<1> USE DEF adding, leaving, browser, counters
<1>1. actions \in [Sessions -> Seq(Action)]
  BY DEF TypeOK
<1>2. ASSUME (\E x \in Sessions : Join(x)) \/ Update
      PROVE  JoinedAction(s, "change") \in Queue(s)'
  BY <1>1, <1>2, KickItems DEF Join, Update
<1>3. ASSUME NEW x \in Sessions, Left(x)
      PROVE  JoinedAction(s, "change") \in Queue(s)'
  <2> DEFINE q == IF after[x] = "gone" THEN [actions EXCEPT ![x] = <<>>] ELSE actions
  <2>1. q \in [Sessions -> Seq(Action)]
    BY <1>1, EmptySeq
  <2>2. AutoLockKick(q)
    BY <1>3 DEF Left, Relock
  <2> HIDE DEF q
  <2> QED BY <2>1, <2>2, KickItems
<1>4. ASSUME NEW x \in Sessions, NEW b \in BOOLEAN, SetLocked(x, b)
      PROVE  Awaited(s)'
  <2>1. /\ todo' = [todo EXCEPT ![x] = Member]
        /\ pc' = [pc EXCEPT ![x] = "locking"]
    BY <1>4 DEF SetLocked
  <2> QED BY <2>1 DEF Awaited, TypeOK
<1>5. ASSUME NEW x \in Sessions,
             \/ Refuse(x) \/ Bar(x) \/ TurnAway(x) \/ Insert(x) \/ Greet(x) \/ Enter(x)
             \/ Leave(x) \/ Disconnect(x) \/ Handle(x)
      PROVE  locked' = locked
  BY <1>5 DEF Refuse, Bar, TurnAway, Insert, Greet, Enter, Leave, Disconnect, Handle
<1>6. ASSUME NEW x \in Sessions, NEW t \in Sessions,
             \/ Look(x, t) \/ Announce(x, t) \/ TellLeft(x, t) \/ TellLocked(x, t) \/ Kick(x, t)
             \/ \E b \in BOOLEAN : SetPermissions(x, t, b)
      PROVE  locked' = locked
  BY <1>6 DEF Look, Announce, TellLeft, TellLocked, Kick, SetPermissions
<1>7. ASSUME (\E r \in async, t \in Sessions : Push(r, t)) \/ UNCHANGED vars
      PROVE  locked' = locked
  BY <1>7 DEF Push, vars
<1> QED BY <1>2, <1>3, <1>4, <1>5, <1>6, <1>7 DEF Next, Proceed, Operate

(* The loops over pushes forget nobody.                                    *)
LEMMA LoopsTell ==
  ASSUME TypeOK, [Next]_vars, NEW s \in Sessions, NEW t \in Sessions, t \in todo[s],
         pc[s] \in {"greeting", "announcing", "leaving", "locking"}
  PROVE  \/ t \in todo'[s] /\ pc'[s] = pc[s]
         \/ t \in todo'[s] /\ pc[s] = "greeting" /\ pc'[s] = "announcing"
         \/ pc[s] = "announcing" /\ Announce(s, t)
         \/ pc[s] = "leaving" /\ TellLeft(s, t)
         \/ pc[s] = "locking" /\ TellLocked(s, t)
<1> DEFINE Fine == \/ t \in todo'[s] /\ pc'[s] = pc[s]
                   \/ t \in todo'[s] /\ pc[s] = "greeting" /\ pc'[s] = "announcing"
                   \/ pc[s] = "announcing" /\ Announce(s, t)
                   \/ pc[s] = "leaving" /\ TellLeft(s, t)
                   \/ pc[s] = "locking" /\ TellLocked(s, t)
<1> USE DEF adding, leaving, browser, counters
<1>1. todo \in [Sessions -> SUBSET Sessions] /\ pc[s] # "idle" /\ pc[s] # "adding"
  BY DEF TypeOK
<1>2. ASSUME NEW x \in Sessions, NEW T, NEW v, x # s, todo' = [todo EXCEPT ![x] = T],
             pc' = [pc EXCEPT ![x] = v]
      PROVE  Fine
  BY <1>1, <1>2 DEF TypeOK
<1>3. ASSUME NEW x \in Sessions, NEW v, x # s, todo' = todo, pc' = [pc EXCEPT ![x] = v]
      PROVE  Fine
  BY <1>1, <1>3 DEF TypeOK
<1>4. ASSUME todo' = todo, pc' = pc PROVE Fine
  BY <1>4
<1>5. ASSUME NEW x \in Sessions, NEW end, NEW q, pc[x] = "idle", LeaveGroup(x, end, q)
      PROVE  Fine
  <2>1. x # s
    BY <1>1, <1>5
  <2>2. \/ /\ todo' = [todo EXCEPT ![x] = Member \ {x}]
           /\ pc' = [pc EXCEPT ![x] = "leaving"]
        \/ todo' = todo /\ pc' = [pc EXCEPT ![x] = end]
    BY <1>5 DEF LeaveGroup
  <2> QED BY <1>2, <1>3, <2>1, <2>2
<1>6. ASSUME NEW x \in Sessions, Leave(x) \/ Disconnect(x) \/ Handle(x)
      PROVE  Fine
  <2>1. (todo' = todo /\ pc' = pc) \/ (\E end, q : LeaveGroup(x, end, q))
    BY <1>6
       DEF Leave, Disconnect, Handle, HandleJoined, HandleUser, HandlePerms, HandleEnd
  <2>2. pc[x] = "idle"
    BY <1>6 DEF Leave, Disconnect, Handle
  <2> QED BY <1>4, <1>5, <2>1, <2>2
<1>7. ASSUME NEW x \in Sessions, Join(x) \/ Refuse(x) \/ Bar(x) \/ TurnAway(x)
      PROVE  Fine
  <2>1. x # s /\ todo' = todo
    BY <1>1, <1>7 DEF Join, Refuse, Bar, TurnAway
  <2> QED BY <1>3, <1>7, <2>1 DEF Join, Refuse, Bar, TurnAway
<1>8. ASSUME NEW x \in Sessions, Insert(x) PROVE Fine
  <2>1. x # s
    BY <1>1, <1>8 DEF Insert
  <2> QED BY <1>2, <1>8, <2>1 DEF Insert
<1>9. ASSUME NEW x \in Sessions, Greet(x) PROVE Fine
  <2>1. todo' = todo /\ pc[x] = "greeting" /\ pc' = [pc EXCEPT ![x] = "announcing"]
    BY <1>9 DEF Greet
  <2> QED BY <1>3, <2>1 DEF TypeOK
<1>10. ASSUME NEW x \in Sessions, Enter(x) \/ Left(x) PROVE Fine
  <2>1. todo' = todo /\ x # s
    BY <1>10 DEF Enter, Left
  <2> QED BY <1>3, <1>10, <2>1 DEF Enter, Left
<1>11. ASSUME NEW x \in Sessions, NEW y \in Sessions, Announce(x, y) PROVE Fine
  <2>1. todo' = [todo EXCEPT ![x] = todo[x] \ {y}] /\ pc' = pc /\ pc[x] = "announcing"
    BY <1>11 DEF Announce
  <2> QED BY <1>1, <1>11, <2>1
<1>12. ASSUME NEW x \in Sessions, NEW y \in Sessions, TellLeft(x, y) PROVE Fine
  <2>1. todo' = [todo EXCEPT ![x] = todo[x] \ {y}] /\ pc' = pc /\ pc[x] = "leaving"
    BY <1>12 DEF TellLeft
  <2> QED BY <1>1, <1>12, <2>1
<1>13. ASSUME NEW x \in Sessions, NEW y \in Sessions, TellLocked(x, y) PROVE Fine
  <2>1. /\ todo' = [todo EXCEPT ![x] = todo[x] \ {y}] /\ pc[x] = "locking"
        /\ pc' = [pc EXCEPT ![x] = IF todo[x] = {y} THEN "idle" ELSE pc[x]]
    BY <1>13 DEF TellLocked
  <2>2. CASE x # s
    BY <1>2, <2>1, <2>2
  <2>3. CASE x = s /\ y = t
    BY <1>13, <2>1, <2>3
  <2>4. CASE x = s /\ y # t
    <3>1. todo[x] # {y} /\ t \in todo'[s]
      BY <1>1, <2>1, <2>4
    <3>2. pc'[s] = pc[s]
      BY <2>1, <2>4, <3>1 DEF TypeOK
    <3> QED BY <3>1, <3>2
  <2> QED BY <2>2, <2>3, <2>4
<1>14. ASSUME NEW x \in Sessions, Operate(x) PROVE Fine
  <2>1. ASSUME NEW b \in BOOLEAN, SetLocked(x, b) PROVE Fine
    <3>1. x # s
      BY <1>1, <2>1 DEF SetLocked, Acting
    <3> QED BY <1>2, <2>1, <3>1 DEF SetLocked
  <2>2. ASSUME \/ \E y \in Sessions, b \in BOOLEAN : SetPermissions(x, y, b)
               \/ \E y \in Sessions : Kick(x, y)
        PROVE  Fine
    BY <1>4, <2>2 DEF SetPermissions, Kick
  <2> QED BY <1>14, <2>1, <2>2 DEF Operate
<1>15. ASSUME Update \/ (\E x, y \in Sessions : Look(x, y)) \/ (\E r \in async, y \in Sessions : Push(r, y)) \/ UNCHANGED vars
       PROVE  Fine
  BY <1>4, <1>15 DEF Update, Look, Push, vars
<1> HIDE DEF Fine
<1>16. Fine
  BY <1>6, <1>7, <1>8, <1>9, <1>10, <1>11, <1>12, <1>13, <1>14, <1>15 DEF Next, Proceed
<1> QED BY <1>16 DEF Fine

(* A session is never reopened.                                            *)
LEMMA ClosingStays ==
  ASSUME TypeOK, [Next]_vars, NEW s \in Sessions, closing[s]
  PROVE  closing'[s]
<1> USE DEF adding, leaving, browser, counters
<1>1. ASSUME NEW x \in Sessions, Enter(x) PROVE closing'[s]
  <2>1. closing' = closing \/ closing' = [closing EXCEPT ![victim[x]] = TRUE]
    BY <1>1 DEF Enter, CloseVictim
  <2> QED BY <2>1 DEF TypeOK
<1>2. ASSUME NEW x \in Sessions,
             \/ Join(x) \/ Refuse(x) \/ Bar(x) \/ TurnAway(x) \/ Insert(x) \/ Greet(x)
             \/ Left(x) \/ Leave(x) \/ Disconnect(x) \/ Handle(x) \/ Operate(x)
      PROVE  closing' = closing
  BY <1>2
     DEF Join, Refuse, Bar, TurnAway, Insert, Greet, Left, Leave, Disconnect, Handle, 
     Operate, SetLocked, SetPermissions, Kick
<1>3. ASSUME NEW x \in Sessions, NEW t \in Sessions,
             Look(x, t) \/ Announce(x, t) \/ TellLeft(x, t) \/ TellLocked(x, t)
      PROVE  closing' = closing
  BY <1>3 DEF Look, Announce, TellLeft, TellLocked
<1>4. ASSUME Update \/ (\E r \in async, t \in Sessions : Push(r, t)) \/ UNCHANGED vars
      PROVE  closing' = closing
  BY <1>4 DEF Update, Push, vars
<1> QED BY <1>1, <1>2, <1>3, <1>4 DEF Next, Proceed

(* The steps that only one action takes.                                   *)
LEMMA GreetingEnds ==
  ASSUME TypeOK, [Next]_vars, "leave" \notin Messages, NEW s \in Sessions, pc[s] = "greeting"
  PROVE  Greet(s) \/ pc'[s] = pc[s]
<1> USE DEF adding, leaving, browser, counters
<1>0. pc \in [Sessions -> {"idle", "adding", "greeting", "announcing", "leaving",
                           "locking", "gone"}]
  BY DEF TypeOK
<1>1. ASSUME NEW x \in Sessions, NEW v, pc[x] # "greeting", pc' = [pc EXCEPT ![x] = v]
      PROVE  pc'[s] = pc[s]
  BY <1>0, <1>1
<1>2. ASSUME NEW x \in Sessions, NEW end, NEW q, pc[x] = "idle", LeaveGroup(x, end, q)
      PROVE  pc'[s] = pc[s]
  BY <1>1, <1>2 DEF LeaveGroup
<1>3. ASSUME NEW x \in Sessions, Leave(x) \/ Disconnect(x) \/ Handle(x)
      PROVE  pc'[s] = pc[s]
  <2>1. pc' = pc \/ (\E end, q : LeaveGroup(x, end, q))
    BY <1>3
       DEF Leave, Disconnect, Handle, HandleJoined, HandleUser, HandlePerms, HandleEnd
  <2>2. pc[x] = "idle"
    BY <1>3 DEF Leave, Disconnect, Handle
  <2> QED BY <1>2, <2>1, <2>2
<1>4. ASSUME NEW x \in Sessions,
             \/ Join(x) \/ Refuse(x) \/ Bar(x) \/ TurnAway(x) \/ Insert(x) \/ Enter(x) \/ Left(x)
             \/ \E b \in BOOLEAN : SetLocked(x, b)
             \/ \E t \in Sessions : TellLocked(x, t)
      PROVE  pc'[s] = pc[s]
  BY <1>1, <1>4 DEF Join, Refuse, Bar, TurnAway, Insert, Enter, Left, SetLocked, Acting,
     TellLocked
<1>5. ASSUME NEW x \in Sessions, NEW t \in Sessions,
             \/ Look(x, t) \/ Announce(x, t) \/ TellLeft(x, t) \/ Kick(x, t)
             \/ \E b \in BOOLEAN : SetPermissions(x, t, b)
      PROVE  pc' = pc
  BY <1>5 DEF Look, Announce, TellLeft, Kick, SetPermissions
<1>6. ASSUME Update \/ (\E r \in async, t \in Sessions : Push(r, t)) \/ UNCHANGED vars
      PROVE  pc' = pc
  BY <1>6 DEF Update, Push, vars
<1>7. ASSUME NEW x \in Sessions, Greet(x) PROVE Greet(s) \/ pc'[s] = pc[s]
  BY <1>0, <1>7 DEF Greet
<1> QED BY <1>3, <1>4, <1>5, <1>6, <1>7 DEF Next, Proceed, Operate

(* A session whose connection closes is on its way out.                    *)
LEMMA Endings ==
  ASSUME TypeOK, NEW s \in Sessions, Disconnect(s) \/ (\E a : HandleEnd(s, a))
  PROVE  pc'[s] \in {"leaving", "gone"}
<1>1. \E q : LeaveGroup(s, "gone", q)
  BY DEF Disconnect, HandleEnd
<1> QED BY <1>1 DEF LeaveGroup, TypeOK

LEMMA Closings ==
  ASSUME TypeOK, [Next]_vars, NEW s \in Sessions, view'[s] # view[s], view'[s].group = FALSE
  PROVE  pc'[s] \in {"leaving", "gone"}
<1> USE DEF adding, leaving, browser, counters
<1>1. view \in [Sessions -> [group : BOOLEAN, locked : BOOLEAN, op : BOOLEAN]]
  BY DEF TypeOK
<1>2. ASSUME NEW x \in Sessions, NEW k, ApplyJoined(x, k) PROVE FALSE
  <2>1. view' = view \/ view' = [view EXCEPT ![x] = [group |-> TRUE, locked |-> locked, op |-> op[x]]]
    BY <1>2 DEF ApplyJoined
  <2> QED BY <1>1, <2>1
<1>3. ASSUME NEW x \in Sessions, SocketClosed(x) PROVE x = s
  <2>1. view' = [view EXCEPT ![x] = [group |-> FALSE, locked |-> FALSE, op |-> FALSE]]
    BY <1>3 DEF SocketClosed
  <2> QED BY <1>1, <2>1
<1>4. ASSUME NEW x \in Sessions, Disconnect(x) PROVE pc'[s] \in {"leaving", "gone"}
  <2>1. x = s
    BY <1>3, <1>4 DEF Disconnect
  <2> QED BY <1>4, <2>1, Endings
<1>5. ASSUME NEW x \in Sessions, Handle(x) PROVE pc'[s] \in {"leaving", "gone"}
  <2>1. HandleEnd(x, Head(actions[x]))
    BY <1>2, <1>5 DEF Handle, HandleJoined, HandleUser, HandlePerms
  <2>2. x = s
    BY <1>3, <2>1 DEF HandleEnd
  <2> QED BY <2>1, <2>2, Endings
<1>6. ASSUME NEW x \in Sessions,
             \/ Join(x) \/ Refuse(x) \/ Bar(x) \/ TurnAway(x) \/ Insert(x) \/ Greet(x)
             \/ Enter(x) \/ Left(x) \/ Leave(x) \/ Operate(x)
             \/ \E t \in Sessions : Look(x, t) \/ Announce(x, t) \/ TellLeft(x, t) \/ TellLocked(x, t)
      PROVE  view' = view
  BY <1>6 DEF Join, Refuse, Bar, TurnAway, Insert, Greet, Enter, Left, Leave, Operate,
     SetLocked, SetPermissions, Kick, Look, Announce, TellLeft, TellLocked
<1>7. ASSUME Update \/ (\E r \in async, t \in Sessions : Push(r, t)) \/ UNCHANGED vars
      PROVE  view' = view
  BY <1>7 DEF Update, Push, vars
<1> QED BY <1>4, <1>5, <1>6, <1>7 DEF Next, Proceed

(* A browser that is still listening applies what is written for it.       *)
LEMMA Applied ==
  ASSUME TypeOK, NEW s \in Sessions, NEW k, ApplyJoined(s, k), ~closing[s],
         \/ k = "join" /\ view[s].group = FALSE
         \/ k = "change" /\ view[s].group = TRUE
         \/ view'[s] # view[s]
  PROVE  view'[s] = [group |-> TRUE, locked |-> locked, op |-> op[s]]
<1>1. view' = [view EXCEPT ![s] = [group |-> TRUE, locked |-> locked, op |-> op[s]]]
  BY DEF ApplyJoined
<1> QED BY <1>1 DEF TypeOK

LEMMA InformedStays ==
  ASSUME ~Redirected, "leave" \notin Messages, TypeOK, [Next]_vars,
         MembersAlive, MembersAlive', Untold, Untold', Informed
  PROVE  Informed'
<1> SUFFICES ASSUME NEW s \in Sessions, Greeted(s)'
             PROVE  \/ view'[s].group = FALSE /\ \E a \in Queue(s)' : Welcome(a)
                    \/ /\ view'[s].group = TRUE
                       /\ (\E a \in Queue(s)' : Refreshed(a)) \/ Awaited(s)' \/ UpToDate(s)'
  BY DEF Informed, Welcome, Refreshed
<1> DEFINE Goal == \/ view'[s].group = FALSE /\ \E a \in Queue(s)' : Welcome(a)
                   \/ /\ view'[s].group = TRUE
                      /\ (\E a \in Queue(s)' : Refreshed(a)) \/ Awaited(s)' \/ UpToDate(s)'
<1>1. /\ members'[IdOf[s]] = s /\ IdOf[s] \in Ids /\ s # None
      /\ pc'[s] # "greeting" /\ ~closing'[s] /\ ~closing[s]
  BY ConstantsAssumption, ClosingStays DEF Greeted, Current
<1>2. pc'[s] \in {"announcing", "idle", "locking"}
      /\ (pc'[s] # "announcing" => inGroup'[s])
  BY <1>1 DEF MembersAlive
<1>3. actions \in [Sessions -> Seq(Action)] /\ actions[s] \in Seq(Action)
      /\ locked \in BOOLEAN /\ view[s].group \in BOOLEAN
      /\ members \in [Ids -> Sessions \cup {None}]
  BY DEF TypeOK
<1>4. CASE Greet(s)
  <2>1. /\ pc[s] = "greeting" /\ view' = view
        /\ actions' = Put(PutJoined(actions, {s}, "join"), {s}, UserAction("add", s, op[s]))
    BY <1>4 DEF Greet, browser
  <2>2. view'[s].group = FALSE
    BY <2>1 DEF Untold
  <2> DEFINE q == PutJoined(actions, {s}, "join")
             a == JoinedAction(s, "join")
             b == UserAction("add", s, op[s])
  <2>3. b \in Action /\ q \in [Sessions -> Seq(Action)]
    BY <1>3, ActionsTyped, PutJoinedTyped DEF TypeOK
  <2>4. a \in Items(q[s])
    <3> HIDE DEF q
    <3>1. q = PutJoined(actions, {s}, "join") /\ actions \in [Sessions -> Seq(Action)]
          /\ s \in {s} /\ pc[s] # "gone"
      BY <1>3, <2>1 DEF q
    <3> QED BY <3>1, PutJoinedReaches
  <2> HIDE DEF q, b
  <2>5. actions' = Put(q, {s}, b)
    BY <2>1 DEF q, b
  <2>6. a \in Items(actions'[s])
    BY <2>3, <2>4, <2>5, PutItems
  <2>7. Welcome(a)
    BY DEF Welcome, JoinedAction
  <2> QED BY <2>2, <2>6, <2>7 DEF Queue
<1>5. CASE ~Greet(s)
  <2>1. Current(s)
    <3>1. ~Insert(s)
      BY <1>1 DEF Insert, TypeOK
    <3>2. ASSUME NEW t \in Sessions, NEW m, m # s, members' = [members EXCEPT ![IdOf[t]] = m]
          PROVE  Current(s)
      BY <1>1, <1>3, <3>2 DEF Current
    <3>3. ASSUME NEW t \in Sessions, Goodbye(t) PROVE Current(s)
      BY <1>1, <3>2, <3>3 DEF Goodbye
    <3>4. ASSUME NEW t \in Sessions, Insert(t) PROVE Current(s)
      BY <3>1, <3>2, <3>4 DEF Insert
    <3> QED BY <1>1, <3>3, <3>4, MemberSteps DEF Current
  <2>2. /\ s \in Member
        /\ pc[s] \in {"greeting", "announcing", "idle", "locking"}
        /\ pc[s] \in {"idle", "locking"} => inGroup[s]
    BY <1>1, <2>1 DEF Current, Member, MembersAlive
  <2>3. pc[s] # "greeting"
    BY <1>1, <1>5, GreetingEnds
  <2>4. \/ view[s].group = FALSE /\ \E a \in Queue(s) : Welcome(a)
        \/ /\ view[s].group = TRUE
           /\ (\E a \in Queue(s) : Refreshed(a)) \/ Awaited(s) \/ UpToDate(s)
    BY <1>1, <2>1, <2>3 DEF Informed, Greeted
  <2>5. ASSUME Handle(s), NEW k, ApplyJoined(s, k),
               \/ k = "join" /\ view[s].group = FALSE
               \/ k = "change" /\ view[s].group = TRUE
               \/ view'[s] # view[s]
        PROVE  Goal
    <3>1. view'[s] = [group |-> TRUE, locked |-> locked, op |-> op[s]]
      BY <1>1, <2>5, Applied
    <3>2. locked' = locked
      BY <2>5 DEF Handle
    <3>3. op' = op
      <4>1. \/ op' = op
            \/ HandleEnd(s, Head(actions[s]))
        BY <2>5 DEF Handle, HandleJoined, HandleUser, HandlePerms
      <4>2. ~HandleEnd(s, Head(actions[s]))
        BY <1>2, Endings
      <4> QED BY <4>1, <4>2
    <3> QED BY <3>1, <3>2, <3>3 DEF UpToDate
  <2>6. \A a \in Queue(s) : a \in Queue(s)' \/ (Handle(s) /\ a = Head(actions[s]))
    BY <1>2, QueueSteps
  <2>7. ASSUME Handle(s), Welcome(Head(actions[s])) \/ Refreshed(Head(actions[s]))
        PROVE  \E k \in {"join", "change"} : /\ ApplyJoined(s, k)
                                             /\ Welcome(Head(actions[s])) => k = "join"
                                             /\ Refreshed(Head(actions[s])) => k = "change"
    <3> DEFINE a == Head(actions[s])
    <3>1. HandleJoined(s, a) \/ HandleUser(s, a) \/ HandlePerms(s, a) \/ HandleEnd(s, a)
      BY <2>7 DEF Handle
    <3>2. ~HandleEnd(s, a)
      BY <1>2, Endings
    <3>3. a.type \in {"joined", "perms"}
      BY <2>7 DEF Welcome, Refreshed
    <3>4. CASE a.type = "joined"
      BY <2>7, <3>1, <3>2, <3>4
         DEF HandleJoined, HandleUser, HandlePerms, Welcome, Refreshed
    <3>5. CASE a.type = "perms"
      BY <3>1, <3>2, <3>5 DEF HandleJoined, HandleUser, HandlePerms, Welcome, Refreshed
    <3> QED BY <3>3, <3>4, <3>5
  <2>8. ASSUME view'[s] # view[s] PROVE Goal
    <3>2. view'[s].group # FALSE
      BY <1>2, <2>8, Closings
    <3>3. PICK k : Handle(s) /\ ApplyJoined(s, k)
      BY <2>8, <3>2, ViewSteps
    <3> QED BY <2>5, <2>8, <3>3
  <2>9. CASE view'[s] = view[s] /\ view[s].group = FALSE
    <3>1. PICK a \in Queue(s) : Welcome(a)
      BY <2>4, <2>9
    <3>2. CASE a \in Queue(s)'
      BY <2>9, <3>1, <3>2
    <3>3. CASE Handle(s) /\ a = Head(actions[s])
      BY <2>5, <2>7, <2>9, <3>1, <3>3
    <3> QED BY <2>6, <3>2, <3>3
  <2>10. CASE view'[s] = view[s] /\ view[s].group = TRUE
    <3>1. Refreshed(PermsAction) /\ Refreshed(JoinedAction(s, "change"))
      BY DEF Refreshed, PermsAction, JoinedAction
    <3>2. CASE \E a \in Queue(s) : Refreshed(a)
      <4>1. PICK a \in Queue(s) : Refreshed(a)
        BY <3>2
      <4>2. CASE a \in Queue(s)'
        BY <2>10, <4>1, <4>2
      <4>3. CASE Handle(s) /\ a = Head(actions[s])
        BY <2>5, <2>7, <2>10, <4>1, <4>3
      <4> QED BY <2>6, <4>2, <4>3
    <3>3. CASE Awaited(s)
      <4>1. PICK t \in Sessions : pc[t] = "locking" /\ s \in todo[t]
        BY <3>3 DEF Awaited
      <4>2. CASE s \in todo'[t] /\ pc'[t] = pc[t]
        BY <2>10, <4>1, <4>2 DEF Awaited
      <4>3. CASE TellLocked(t, s)
        <5>1. actions' = PutJoined(actions, {s}, "change") /\ s \in {s} /\ pc[s] # "gone"
          BY <2>2, <4>3 DEF TellLocked
        <5>2. JoinedAction(s, "change") \in Items(actions'[s])
          BY <1>3, <5>1, PutJoinedReaches
        <5> QED BY <2>10, <3>1, <5>2 DEF Queue
      <4> QED BY <4>1, <4>2, <4>3, LoopsTell
    <3>4. CASE UpToDate(s)
      <4>1. CASE op'[s] # op[s]
        <5>1. PermsAction \in Queue(s)'
          BY <2>1, <2>2, <4>1, OpNotified
        <5> QED BY <2>10, <3>1, <5>1
      <4>2. CASE locked' # locked
        <5>1. JoinedAction(s, "change") \in Queue(s)' \/ Awaited(s)'
          BY <2>2, <4>2, LockNotified
        <5> QED BY <2>10, <3>1, <5>1
      <4>3. CASE op'[s] = op[s] /\ locked' = locked
        BY <2>10, <3>4, <4>3 DEF UpToDate
      <4> QED BY <4>1, <4>2, <4>3
    <3> QED BY <2>4, <2>10, <3>2, <3>3, <3>4
  <2> QED BY <1>3, <2>8, <2>9, <2>10
<1> QED BY <1>4, <1>5

(* Whatever the order in which the lock and the privileges change and the  *)
(* changes are announced, a browser of the group knows both once nothing   *)
(* is queued, as long as clients leave by closing their connections and no *)
(* join ends in a redirect.                                                *)
THEOREM ViewsAreExact ==
  ~Redirected /\ "leave" \notin Messages => (Spec => []ViewExact)
<1> SUFFICES ASSUME ~Redirected, "leave" \notin Messages PROVE Spec => []ViewExact
  OBVIOUS
<1> DEFINE Inv == MembersAlive /\ Untold /\ Informed /\ VictimWhileAdding
<1>1. Init => Inv
  <2> SUFFICES ASSUME Init PROVE Inv
    OBVIOUS
  <2>1. Informed
    BY ConstantsAssumption DEF Init, Informed, Greeted, Current
  <2>2. Untold
    BY InitUntold
  <2> QED BY <2>1, <2>2 DEF Init, MembersAlive, VictimWhileAdding
<1>2. TypeOK /\ Inv /\ [Next]_vars => Inv'
  BY MembersStay, UntoldStays, InformedStays, VictimsKept
<1>3. TypeOK /\ Inv /\ ReplacedIsClosed => ViewExact
  <2> SUFFICES ASSUME TypeOK, Inv, ReplacedIsClosed, Quiet, NEW s \in Sessions, Joined(s)
               PROVE  UpToDate(s)
    BY DEF ViewExact, UpToDate
  <2>1. /\ pc[s] \in {"idle", "gone"} /\ inGroup[s] /\ ~closing[s]
        /\ \A t \in Sessions : pc[t] \in {"idle", "gone"} /\ actions[t] = <<>>
    BY DEF Quiet, Joined
  <2>2. pc[s] = "idle"
    BY <2>1 DEF Untold
  <2>3. \A t \in Sessions : victim[t] # s
    BY <2>1, ConstantsAssumption DEF VictimWhileAdding
  <2>4. Current(s)
    BY <2>1, <2>2, <2>3 DEF ReplacedIsClosed
  <2>5. Queue(s) = {} /\ ~Awaited(s)
    BY <2>1, ItemsEmpty DEF Queue, Awaited
  <2> QED BY <2>1, <2>2, <2>4, <2>5 DEF Informed, Greeted
<1> QED BY <1>1, <1>2, <1>3, TypeCorrect, ReplacedAreClosed, PTL DEF Spec

-----------------------------------------------------------------------------
(* The table of users.                                                     *)
About(i, a) == a.type = "user" /\ a.id = i

(* AddClient has still to tell two members of each other.                  *)
Telling(s, t) == pc[s] \in {"greeting", "announcing"} /\ t \in todo[s]

(* A member is in a browser's table, or the browser will be told.          *)
Heard(s, t) ==
  \/ roster[s][IdOf[t]] # "absent"
  \/ \E a \in Queue(s) : About(IdOf[t], a)
  \/ Telling(s, t) \/ Telling(t, s)
  \/ s = t /\ pc[s] = "greeting"

(* Only a session that goes is deleted.                                    *)
Departures ==
  /\ \A s \in Sessions : \A a \in Queue(s) : a.kind = "delete" =>
       \E t \in Sessions : IdOf[t] = a.id /\ pc[t] \in {"leaving", "gone"}
  /\ \A r \in async : r.put.kind # "delete"

Acquainted ==
  \A s, t \in Sessions : Current(s) /\ Current(t) /\ ~closing[s] => Heard(s, t)

(* Nobody comes back while it is still being announced that it has left.   *)
OneSessionPerId == \A s, t \in Sessions : IdOf[s] = IdOf[t] => s = t

LEMMA DeparturesStay ==
  ASSUME ~Redirected, "leave" \notin Messages, TypeOK, [Next]_vars, Untold, Departures
  PROVE  Departures'
<1>1. ASSUME NEW t \in Sessions, pc[t] \in {"leaving", "gone"}
      PROVE  pc'[t] \in {"leaving", "gone"}
  <2>1. Moves(t) /\ (pc[t] = "leaving" => after[t] = "gone")
    BY PcSteps DEF Untold
  <2> QED BY <1>1, <2>1 DEF Moves
<1>2. ASSUME NEW s \in Sessions, NEW a \in Queue(s)', a.kind = "delete"
      PROVE  \E t \in Sessions : IdOf[t] = a.id /\ pc'[t] \in {"leaving", "gone"}
  <2>1. CASE a \in Queue(s)
    BY <1>1, <1>2, <2>1 DEF Departures
  <2>2. CASE Source(s, a)
    <3>1. \A r \in async : a # r.put
      BY <1>2 DEF Departures
    <3>2. \A x, y, z : /\ JoinedAction(x, "change").kind # "delete"
                       /\ JoinedAction(x, "join").kind # "delete"
                       /\ JoinedAction(x, "leave").kind # "delete"
                       /\ UserAction("add", y, z).kind # "delete"
                       /\ UserAction("change", y, z).kind # "delete"
      BY DEF JoinedAction, UserAction
    <3>3. PermsAction.kind # "delete" /\ KickAction.kind # "delete"
      BY DEF PermsAction, KickAction
    <3>4. PICK t \in Sessions : pc[t] = "leaving" /\ a = UserAction("delete", t, FALSE)
      BY <1>2, <2>2, <3>1, <3>2, <3>3 DEF Source
    <3>5. a.id = IdOf[t]
      BY <3>4 DEF UserAction
    <3> QED BY <1>1, <3>4, <3>5
  <2> QED BY <1>2, <2>1, <2>2, QueueSteps
<1>3. ASSUME NEW r \in async' PROVE r.put.kind # "delete"
  <2>1. KickAction.kind # "delete" /\ \A y, z : UserAction("change", y, z).kind # "delete"
    BY DEF KickAction, UserAction
  <2> QED BY <2>1, AsyncSteps DEF Departures
<1> QED BY <1>2, <1>3 DEF Departures

(* The table changes when a notification is handled, and empties when the  *)
(* connection closes.                                                      *)
LEMMA RosterSteps ==
  ASSUME TypeOK, [Next]_vars, NEW s \in Sessions, NEW i \in Ids
  PROVE  \/ roster'[s][i] = roster[s][i]
         \/ roster'[s][i] = "absent" /\ pc'[s] \in {"leaving", "gone"}
         \/ /\ Handle(s) /\ About(i, Head(actions[s]))
            /\ roster'[s][i] = Shown(Head(actions[s]))
<1> DEFINE Fine == \/ roster'[s][i] = roster[s][i]
                   \/ roster'[s][i] = "absent" /\ pc'[s] \in {"leaving", "gone"}
                   \/ /\ Handle(s) /\ About(i, Head(actions[s]))
                      /\ roster'[s][i] = Shown(Head(actions[s]))
<1> USE DEF adding, leaving, browser, counters
<1>1. roster \in [Sessions -> [Ids -> {"absent", "user", "op"}]]
  BY DEF TypeOK
<1>2. ASSUME NEW x \in Sessions, SocketClosed(x), pc'[x] \in {"leaving", "gone"}
      PROVE  Fine
  <2>1. roster' = [roster EXCEPT ![x] = [j \in Ids |-> "absent"]]
    BY <1>2 DEF SocketClosed
  <2> QED BY <1>1, <1>2, <2>1
<1>3. ASSUME NEW x \in Sessions, Disconnect(x) PROVE Fine
  BY <1>2, <1>3, Endings DEF Disconnect
<1>4. ASSUME NEW x \in Sessions, Handle(x) PROVE Fine
  <2> DEFINE a == Head(actions[x])
  <2>1. HandleJoined(x, a) \/ HandleUser(x, a) \/ HandlePerms(x, a) \/ HandleEnd(x, a)
    BY <1>4 DEF Handle
  <2>2. CASE HandleJoined(x, a) \/ HandlePerms(x, a)
    <3>1. roster' = roster
      BY <2>2 DEF HandleJoined, HandlePerms
    <3> QED BY <3>1
  <2>3. CASE HandleUser(x, a)
    <3>1. /\ a.type = "user"
          /\ roster' = roster \/ roster' = [roster EXCEPT ![x][a.id] = Shown(a)]
      BY <2>3 DEF HandleUser
    <3>2. CASE roster' = roster
      BY <3>2
    <3>3. CASE roster' = [roster EXCEPT ![x][a.id] = Shown(a)]
      <4>1. CASE x = s /\ a.id = i
        BY <1>1, <1>4, <3>1, <3>3, <4>1 DEF About
      <4>2. CASE ~(x = s /\ a.id = i)
        <5> HIDE DEF a
        <5>1. roster'[s][i] = roster[s][i]
          BY <1>1, <3>3, <4>2
        <5> QED BY <5>1
      <4> QED BY <4>1, <4>2
    <3> QED BY <3>1, <3>2, <3>3
  <2>4. CASE HandleEnd(x, a)
    <3>1. SocketClosed(x) /\ pc'[x] \in {"leaving", "gone"}
      BY <2>4, Endings DEF HandleEnd
    <3> QED BY <1>2, <3>1
  <2> QED BY <2>1, <2>2, <2>3, <2>4
<1>5. ASSUME NEW x \in Sessions,
             \/ Join(x) \/ Refuse(x) \/ Bar(x) \/ TurnAway(x) \/ Insert(x) \/ Greet(x)
             \/ Enter(x) \/ Left(x) \/ Leave(x) \/ Operate(x)
             \/ \E t \in Sessions : Look(x, t) \/ Announce(x, t) \/ TellLeft(x, t) \/ TellLocked(x, t)
      PROVE  roster' = roster
  BY <1>5 DEF Join, Refuse, Bar, TurnAway, Insert, Greet, Enter, Left, Leave, Operate,
     SetLocked, SetPermissions, Kick, Look, Announce, TellLeft, TellLocked
<1>6. ASSUME Update \/ (\E r \in async, t \in Sessions : Push(r, t)) \/ UNCHANGED vars
      PROVE  roster' = roster
  BY <1>6 DEF Update, Push, vars
<1>7. roster' = roster => Fine
  OBVIOUS
<1> HIDE DEF Fine
<1>8. Fine
  BY <1>3, <1>4, <1>5, <1>6, <1>7 DEF Next, Proceed
<1> QED BY <1>8 DEF Fine

(* AddClient tells both sides.                                             *)
LEMMA Announced ==
  ASSUME TypeOK, NEW s \in Sessions, NEW t \in Sessions, Announce(s, t),
         pc[s] # "gone", pc[t] # "gone"
  PROVE  /\ \E a \in Queue(s)' : About(IdOf[t], a)
         /\ \E a \in Queue(t)' : About(IdOf[s], a)
<1> DEFINE kind == IF victim[s] = None THEN "add" ELSE "change"
           b == UserAction("add", t, pp[s])
           c == UserAction(kind, s, shown[s])
           q == Put(actions, {s}, b)
<1>1. actions' = Put(q, {t}, c)
  BY DEF Announce
<1>2. kind \in {"add", "change"}
  OBVIOUS
<1>3. About(IdOf[t], b) /\ About(IdOf[s], c)
  BY DEF About, UserAction
<1> HIDE DEF kind
<1>4. b \in Action /\ c \in Action /\ actions \in [Sessions -> Seq(Action)]
  BY <1>2, ActionsTyped DEF TypeOK
<1> HIDE DEF b, c
<1>5. q \in [Sessions -> Seq(Action)]
  BY <1>4, PutTyped
<1>6. b \in Items(q[s])
  <2> HIDE DEF q
  <2>1. q = Put(actions, {s}, b) /\ s \in {s}
    BY DEF q
  <2> QED BY <1>4, <2>1, PutReaches
<1> HIDE DEF q
<1>7. b \in Items(actions'[s])
  BY <1>1, <1>4, <1>5, <1>6, PutItems
<1>8. c \in Items(actions'[t])
  <2>1. t \in {t}
    OBVIOUS
  <2> QED BY <1>1, <1>4, <1>5, <2>1, PutReaches
<1> QED BY <1>3, <1>7, <1>8 DEF Queue

LEMMA GreetedItself ==
  ASSUME TypeOK, NEW s \in Sessions, Greet(s)
  PROVE  \E a \in Queue(s)' : About(IdOf[s], a)
<1> DEFINE q == PutJoined(actions, {s}, "join")
           b == UserAction("add", s, op[s])
<1>1. actions' = Put(q, {s}, b) /\ pc[s] # "gone" /\ s \in {s}
  BY DEF Greet
<1>2. b \in Action /\ q \in [Sessions -> Seq(Action)]
  BY ActionsTyped, PutJoinedTyped DEF TypeOK
<1>3. About(IdOf[s], b)
  BY DEF About, UserAction
<1> HIDE DEF q, b
<1>4. b \in Items(actions'[s])
  BY <1>1, <1>2, PutReaches
<1> QED BY <1>3, <1>4 DEF Queue

LEMMA AcquaintedStay ==
  ASSUME ~Redirected, "leave" \notin Messages, OneSessionPerId, TypeOK, [Next]_vars,
         MembersAlive, MembersAlive', Departures, Acquainted
  PROVE  Acquainted'
<1> SUFFICES ASSUME NEW s \in Sessions, NEW t \in Sessions, Current(s)', Current(t)',
                    ~closing'[s]
             PROVE  Heard(s, t)'
  BY DEF Acquainted
<1>1. /\ \A x \in Sessions : IdOf[x] \in Ids /\ x # None
      /\ members \in [Ids -> Sessions \cup {None}]
      /\ todo \in [Sessions -> SUBSET Sessions]
      /\ actions[s] \in Seq(Action)
      /\ \A x, y \in Sessions : IdOf[x] = IdOf[y] => x = y
  BY ConstantsAssumption DEF TypeOK, OneSessionPerId
<1>2. /\ members'[IdOf[s]] = s /\ members'[IdOf[t]] = t
      /\ pc'[s] \in {"greeting", "announcing", "idle", "locking"}
      /\ pc'[t] \in {"greeting", "announcing", "idle", "locking"}
  BY <1>1 DEF Current, MembersAlive
<1>3. ASSUME NEW x \in Sessions, Insert(x) PROVE Heard(s, t)'
  <2>1. /\ members' = [members EXCEPT ![IdOf[x]] = x]
        /\ todo' = [todo EXCEPT ![x] = Others(members[IdOf[x]], x)]
        /\ pc'[x] = "greeting"
    BY <1>3 DEF Insert, TypeOK
  <2>2. ASSUME NEW y \in Sessions, y # x, members'[IdOf[y]] = y
        PROVE  Current(y) /\ y \in todo'[x]
    <3>1. IdOf[y] # IdOf[x] /\ Current(y)
      BY <1>1, <2>1, <2>2 DEF Current
    <3>2. y # members[IdOf[x]]
      BY <1>1, <3>1 DEF MembersAlive
    <3> QED BY <1>1, <2>1, <2>2, <3>1, <3>2 DEF Others, Member, Current
  <2>3. CASE x = s /\ x = t
    BY <2>1, <2>3 DEF Heard
  <2>4. CASE x = s /\ x # t
    BY <1>2, <2>1, <2>2, <2>4 DEF Heard, Telling
  <2>5. CASE x # s /\ x = t
    BY <1>2, <2>1, <2>2, <2>5 DEF Heard, Telling
  <2>6. CASE x # s /\ x # t
    <3>1. Current(s) /\ Current(t) /\ Heard(s, t)
      BY <1>2, <2>2, <2>6, ClosingStays DEF Acquainted
    <3>2. /\ roster' = roster /\ actions' = actions
          /\ pc'[s] = pc[s] /\ pc'[t] = pc[t] /\ todo'[s] = todo[s] /\ todo'[t] = todo[t]
      BY <1>1, <1>3, <2>1, <2>6 DEF Insert, browser, TypeOK
    <3> QED BY <3>1, <3>2 DEF Heard, Telling, Queue
  <2> QED BY <2>3, <2>4, <2>5, <2>6
<1>4. ASSUME \A x \in Sessions : ~Insert(x) PROVE Heard(s, t)'
  <2>1. ASSUME NEW y \in Sessions, members'[IdOf[y]] = y PROVE Current(y)
    <3>1. ASSUME NEW x \in Sessions, Goodbye(x) PROVE Current(y)
      BY <1>1, <2>1, <3>1 DEF Goodbye, Current
    <3> QED BY <1>4, <2>1, <3>1, MemberSteps DEF Current
  <2>2. Current(s) /\ Current(t) /\ ~closing[s]
    BY <1>2, <2>1, ClosingStays
  <2>3. /\ pc[s] \in {"greeting", "announcing", "idle", "locking"}
        /\ pc[t] \in {"greeting", "announcing", "idle", "locking"}
        /\ pc[s] = "idle" => inGroup[s]
    BY <1>1, <2>2 DEF Current, MembersAlive
  <2>4. \A a \in Queue(s) : About(IdOf[t], a) => a.kind # "delete"
    BY <1>1, <2>3 DEF Departures, About
  <2>5. Handle(s) => Head(actions[s]) \in Queue(s)
    BY <1>1, ItemsTail DEF Handle, Queue
  <2>6. ASSUME NEW a, a.kind # "delete" PROVE Shown(a) # "absent"
    BY <2>6 DEF Shown
  <2>7. CASE roster[s][IdOf[t]] # "absent"
    <3>1. roster'[s][IdOf[t]] # "absent"
      BY <1>1, <1>2, <2>4, <2>5, <2>6, <2>7, RosterSteps
    <3> QED BY <3>1 DEF Heard
  <2>8. CASE \E a \in Queue(s) : About(IdOf[t], a)
    <3>1. PICK a \in Queue(s) : About(IdOf[t], a)
      BY <2>8
    <3>2. CASE a \in Queue(s)'
      BY <3>1, <3>2 DEF Heard
    <3>3. CASE Handle(s) /\ a = Head(actions[s])
      <4>1. pc[s] = "idle" /\ inGroup[s] /\ a.type = "user" /\ a.id = IdOf[t]
        BY <2>3, <3>1, <3>3 DEF Handle, About
      <4>2. HandleUser(s, a)
        BY <3>3, <4>1 DEF Handle, HandleJoined, HandlePerms, HandleEnd
      <4>3. roster' = [roster EXCEPT ![s][IdOf[t]] = Shown(a)]
        BY <2>2, <4>1, <4>2 DEF HandleUser
      <4>4. roster'[s][IdOf[t]] = Shown(a)
        BY <1>1, <4>3 DEF TypeOK
      <4>5. roster'[s][IdOf[t]] # "absent"
        BY <2>4, <2>6, <3>1, <4>4
      <4> QED BY <4>5 DEF Heard
    <3> QED BY <1>2, <3>2, <3>3, QueueSteps
  <2>9. CASE Telling(s, t)
    <3>1. CASE Announce(s, t)
      BY <2>3, <3>1, Announced DEF Heard
    <3>2. CASE ~Announce(s, t)
      <4>1. Telling(s, t)'
        BY <2>9, <3>2, LoopsTell DEF Telling
      <4> QED BY <4>1 DEF Heard
    <3> QED BY <3>1, <3>2
  <2>10. CASE Telling(t, s)
    <3>1. CASE Announce(t, s)
      BY <2>3, <3>1, Announced DEF Heard
    <3>2. CASE ~Announce(t, s)
      <4>1. Telling(t, s)'
        BY <2>10, <3>2, LoopsTell DEF Telling
      <4> QED BY <4>1 DEF Heard
    <3> QED BY <3>1, <3>2
  <2>11. CASE s = t /\ pc[s] = "greeting"
    <3>1. CASE Greet(s)
      BY <2>11, <3>1, GreetedItself DEF Heard
    <3>2. CASE pc'[s] = pc[s]
      BY <2>11, <3>2 DEF Heard
    <3> QED BY <2>11, <3>1, <3>2, GreetingEnds
  <2> QED BY <2>2, <2>7, <2>8, <2>9, <2>10, <2>11 DEF Acquainted, Heard
<1> QED BY <1>3, <1>4

(* In a quiet moment, a session that believes to be in the group is in it. *)
LEMMA JoinedAreMembers ==
  ASSUME TypeOK, Untold, VictimWhileAdding, ReplacedIsClosed, Quiet,
         NEW s \in Sessions, Joined(s)
  PROVE  Current(s)
<1>1. pc[s] \in {"idle", "gone"} /\ inGroup[s] /\ ~closing[s]
  BY DEF Quiet, Joined
<1>2. pc[s] = "idle"
  BY <1>1 DEF Untold
<1>3. \A t \in Sessions : victim[t] # s
  BY ConstantsAssumption DEF VictimWhileAdding, Quiet
<1> QED BY <1>1, <1>2, <1>3 DEF ReplacedIsClosed

(* However joins, departures and the announcements of both interleave, in  *)
(* the end every member of the group is in every browser's table, as long  *)
(* as no browser comes back under its id (its old session's departure      *)
(* could be announced after its return), clients leave by closing their    *)
(* connections and no join ends in a redirect.                             *)
THEOREM RostersAreComplete ==
  ~Redirected /\ "leave" \notin Messages /\ OneSessionPerId
  => (Spec => []RosterComplete)
<1> SUFFICES ASSUME ~Redirected, "leave" \notin Messages, OneSessionPerId
             PROVE  Spec => []RosterComplete
  OBVIOUS
<1> DEFINE Inv == MembersAlive /\ Untold /\ VictimWhileAdding /\ Departures /\ Acquainted
<1>1. Init => Inv
  <2> SUFFICES ASSUME Init PROVE Inv
    OBVIOUS
  <2>1. Acquainted
    BY ConstantsAssumption DEF Init, Acquainted, Current
  <2>2. Departures
    BY ItemsEmpty DEF Init, Departures, Queue
  <2>3. Untold
    BY InitUntold
  <2> QED BY <2>1, <2>2, <2>3 DEF Init, MembersAlive, VictimWhileAdding
<1>2. TypeOK /\ Inv /\ [Next]_vars => Inv'
  BY MembersStay, UntoldStays, VictimsKept, DeparturesStay, AcquaintedStay
<1>3. TypeOK /\ Inv /\ ReplacedIsClosed => RosterComplete
  <2> SUFFICES ASSUME TypeOK, Inv, ReplacedIsClosed, Quiet, NEW s \in Sessions, Joined(s),
                      NEW i \in Ids, members[i] # None
               PROVE  roster[s][i] # "absent"
    BY DEF RosterComplete
  <2>1. Current(s) /\ ~closing[s]
    BY JoinedAreMembers DEF Joined
  <2>2. members[i] \in Sessions /\ IdOf[members[i]] = i /\ Current(members[i])
    BY DEF TypeOK, MembersAlive, Current
  <2>3. Heard(s, members[i])
    BY <2>1, <2>2 DEF Acquainted
  <2>4. Queue(s) = {} /\ pc[s] \in {"idle", "gone"} /\ pc[members[i]] \in {"idle", "gone"}
    BY <2>2, ItemsEmpty DEF Quiet, Queue
  <2> QED BY <2>2, <2>3, <2>4 DEF Heard, Telling
<1> QED BY <1>1, <1>2, <1>3, TypeCorrect, ReplacedAreClosed, PTL DEF Spec

-----------------------------------------------------------------------------
(* Resume tokens.  A session that replaces another has the token of the    *)
(* one it replaces, so that those that may still write to the browser all  *)
(* have the member's token.  With four sessions under one id that is not   *)
(* so: the second replaces the first, and before it has closed it is itself*)
(* replaced by the third, which leaves; the fourth is given a new token,   *)
(* and what the first is told then puts the old one back.                  *)
AtMostThreePerId ==
  ~\E q, r, s, t \in Sessions :
     /\ q # r /\ q # s /\ q # t /\ r # s /\ r # t /\ s # t
     /\ IdOf[q] = IdOf[r] /\ IdOf[r] = IdOf[s] /\ IdOf[s] = IdOf[t]

(* A session that has been inserted and has not begun to leave.            *)
Inside(s) ==
  \/ pc[s] \in {"greeting", "announcing"}
  \/ inGroup[s] /\ pc[s] \in {"idle", "locking"}

(* One that may still write to its browser.                                *)
Writes(s) == Inside(s) /\ ~closing[s]

Victims ==
  \A t \in Sessions : victim[t] # None => victim[t] # t /\ IdOf[victim[t]] = IdOf[t]

Unseen == \A s \in Sessions : view[s].group => inGroup[s] /\ pc[s] \in {"idle", "locking"}

Tokened == \A s \in Sessions : Inside(s) => token[s] # 0

(* Those that may write have the token of the member.                      *)
Shared ==
  \A s, r \in Sessions :
    Current(s) /\ Writes(r) /\ IdOf[r] = IdOf[s] => token[r] = token[s]

(* While somebody may still join under an id that no member has, nobody    *)
(* writes to its browser.                                                  *)
Silent ==
  \A u, r \in Sessions :
    Outside(u) /\ Writes(r) /\ IdOf[r] = IdOf[u] => members[IdOf[u]] # None

Tokens == Victims /\ Unseen /\ Tokened /\ Shared /\ Silent

LEMMA FreshIsNew == ASSUME TypeOK PROVE Fresh # 0
<1>1. IsFiniteSet(Sessions) /\ IsFiniteSet(Ids)
  BY ConstantsAssumption
<1>2. /\ token \in [Sessions -> Nat] /\ offered \in [Sessions -> Nat]
      /\ stored \in [Ids -> Nat]
  BY DEF TypeOK
<1>3. IsFiniteSet({token[s] : s \in Sessions})
  BY <1>1, <1>2, ValuesFinite
<1>4. IsFiniteSet({offered[s] : s \in Sessions})
  BY <1>1, <1>2, ValuesFinite
<1>5. IsFiniteSet({stored[i] : i \in Ids})
  BY <1>1, <1>2, ValuesFinite
<1>6. IsFiniteSet(Held)
  BY <1>3, <1>4, <1>5, FS_Union DEF Held
<1>7. \E n \in 1..Cardinality(Held) + 1 : n \notin Held
  BY <1>6, NumberLeft
<1>8. Cardinality(Held) \in Nat
  BY <1>6, FS_CardinalityType
<1> QED BY <1>7, <1>8 DEF Fresh

(* A token is only given in AddClient, to a session that is joining.       *)
LEMMA TokenSteps ==
  ASSUME TypeOK, [Next]_vars, NEW x \in Sessions
  PROVE  token'[x] = token[x] \/ Insert(x) \/ TurnAway(x)
<1> USE DEF adding, leaving, browser, counters
<1>1. ASSUME NEW s \in Sessions, TurnAway(s) \/ Insert(s), s # x
      PROVE  token'[x] = token[x]
  BY <1>1 DEF TurnAway, Insert, TypeOK
<1>2. ASSUME NEW s \in Sessions,
             \/ Join(s) \/ Refuse(s) \/ Bar(s) \/ Greet(s) \/ Handle(s)
             \/ Enter(s) \/ Left(s) \/ Leave(s) \/ Operate(s) \/ Disconnect(s)
             \/ \E t \in Sessions : Look(s, t) \/ Announce(s, t) \/ TellLeft(s, t) \/ TellLocked(s, t)
      PROVE  token' = token
  BY <1>2 DEF Join, Refuse, Bar, Greet, Enter, Left, Leave, Operate, Disconnect, Handle,
     SetLocked, SetPermissions, Kick, Look, Announce, TellLeft, TellLocked
<1>3. ASSUME Update \/ (\E r \in async, t \in Sessions : Push(r, t)) \/ UNCHANGED vars
      PROVE  token' = token
  BY <1>3 DEF Update, Push, vars
<1> QED BY <1>1, <1>2, <1>3 DEF Next, Proceed

(* A session replaces another when it is inserted, and closes it later.    *)
LEMMA VictimSteps ==
  ASSUME TypeOK, [Next]_vars, NEW x \in Sessions
  PROVE  victim'[x] = victim[x] \/ victim'[x] = None \/ Insert(x)
<1> USE DEF adding, leaving, browser, counters
<1>1. ASSUME NEW s \in Sessions, Insert(s), s # x PROVE victim'[x] = victim[x]
  BY <1>1 DEF Insert, TypeOK
<1>2. ASSUME NEW s \in Sessions, Enter(s)
      PROVE  victim'[x] = victim[x] \/ victim'[x] = None
  BY <1>2 DEF Enter, TypeOK
<1>3. ASSUME NEW s \in Sessions,
             \/ Join(s) \/ Refuse(s) \/ Bar(s) \/ Greet(s) \/ Handle(s) \/ TurnAway(s)
             \/ Left(s) \/ Leave(s) \/ Operate(s) \/ Disconnect(s)
             \/ \E t \in Sessions : Look(s, t) \/ Announce(s, t) \/ TellLeft(s, t) \/ TellLocked(s, t)
      PROVE  victim' = victim
  BY <1>3 DEF Join, Refuse, Bar, Greet, Left, Leave, Operate, Disconnect, Handle, TurnAway,
     SetLocked, SetPermissions, Kick, Look, Announce, TellLeft, TellLocked
<1>4. ASSUME Update \/ (\E r \in async, t \in Sessions : Push(r, t)) \/ UNCHANGED vars
      PROVE  victim' = victim
  BY <1>4 DEF Update, Push, vars
<1> QED BY <1>1, <1>2, <1>3, <1>4 DEF Next, Proceed

(* What a browser stores is the token of a session that writes to it.      *)
Stores(r) ==
  /\ pc[r] = "idle" /\ ~closing[r] /\ Queue(r) # {}
  /\ stored' = [stored EXCEPT ![IdOf[r]] = Remember(@, token[r])]
  /\ UNCHANGED <<members, pc, inGroup, token, closing>>
  /\ \A x \in Sessions \ {r} : view'[x] = view[x]

LEMMA StoredSteps ==
  ASSUME TypeOK, [Next]_vars
  PROVE  stored' = stored \/ \E r \in Sessions : Stores(r)
<1> USE DEF adding, leaving, browser, counters
<1>1. ASSUME NEW s \in Sessions, Handle(s), stored' # stored PROVE Stores(s)
  <2>1. Queue(s) # {}
    <3>1. actions[s] \in Seq(Action) /\ actions[s] # <<>>
      BY <1>1 DEF Handle, TypeOK
    <3> QED BY <3>1, ItemsTail DEF Queue
  <2>2. PICK a, k : /\ HandleJoined(s, a) \/ HandlePerms(s, a)
                    /\ ApplyJoined(s, k)
    BY <1>1 DEF Handle, HandleJoined, HandleUser, HandlePerms, HandleEnd
  <2>3. /\ ~closing[s] /\ stored' = [stored EXCEPT ![IdOf[s]] = Remember(@, token[s])]
        /\ \A x \in Sessions \ {s} : view'[x] = view[x]
    BY <1>1, <2>2 DEF ApplyJoined, TypeOK
  <2> QED BY <1>1, <2>1, <2>2, <2>3 DEF Stores, Handle, HandleJoined, HandlePerms
<1>2. ASSUME NEW s \in Sessions,
             \/ Join(s) \/ Refuse(s) \/ Bar(s) \/ TurnAway(s) \/ Insert(s) \/ Greet(s)
             \/ Enter(s) \/ Left(s) \/ Leave(s) \/ Operate(s) \/ Disconnect(s)
             \/ \E t \in Sessions : Look(s, t) \/ Announce(s, t) \/ TellLeft(s, t) \/ TellLocked(s, t)
      PROVE  stored' = stored
  BY <1>2 DEF Join, Refuse, Bar, TurnAway, Insert, Greet, Enter, Left, Leave, Operate,
     Disconnect, SetLocked, SetPermissions, Kick, Look, Announce, TellLeft, TellLocked
<1>3. ASSUME Update \/ (\E r \in async, t \in Sessions : Push(r, t)) \/ UNCHANGED vars
      PROVE  stored' = stored
  BY <1>3 DEF Update, Push, vars
<1> QED BY <1>1, <1>2, <1>3 DEF Next, Proceed

LEMMA InsideBefore ==
  ASSUME TypeOK, Untold, [Next]_vars, "leave" \notin Messages, NEW x \in Sessions,
         Inside(x)'
  PROVE  Inside(x) \/ Insert(x)
<1>1. Moves(x)
  BY PcSteps
<1>2. CASE pc[x] = "adding" /\ pc'[x] = "greeting"
  BY <1>2, SeatSteps
<1> QED BY <1>1, <1>2 DEF Moves, Inside, TypeOK, Untold

(* Nobody but a session that is joining is given a token, and it is not    *)
(* inside yet.                                                             *)
LEMMA TokenLasts ==
  ASSUME TypeOK, [Next]_vars, Untold, NEW x \in Sessions, Inside(x)
  PROVE  token'[x] = token[x]
<1>1. pc[x] # "adding"
  BY DEF Inside
<1> QED BY <1>1, TokenSteps DEF Insert, TurnAway

(* Insert, as far as tokens go.                                            *)
LEMMA Inserted ==
  ASSUME TypeOK, MembersAlive, Untold, NEW s \in Sessions, Insert(s)
  PROVE  /\ Outside(s) /\ members' = [members EXCEPT ![IdOf[s]] = s]
         /\ \A x \in Sessions : x # s => token'[x] = token[x]
         /\ members[IdOf[s]] = None => token'[s] = Fresh
         /\ members[IdOf[s]] # None =>
              /\ members[IdOf[s]] \in Sessions /\ members[IdOf[s]] # s
              /\ Current(members[IdOf[s]]) /\ Inside(members[IdOf[s]])
              /\ IdOf[members[IdOf[s]]] = IdOf[s]
              /\ token'[s] = token[members[IdOf[s]]] /\ token[members[IdOf[s]]] # 0
         /\ victim'[s] = members[IdOf[s]]
         /\ UNCHANGED <<inGroup, closing, stored, view>>
<1> DEFINE e == members[IdOf[s]]
<1>1. IdOf[s] \in Ids /\ None \notin Sessions
  BY ConstantsAssumption
<1>2. pc[s] = "adding" /\ ~inGroup[s]
  BY DEF Insert, Untold
<1>3. /\ members' = [members EXCEPT ![IdOf[s]] = s]
      /\ victim' = [victim EXCEPT ![s] = e]
      /\ token' = [token EXCEPT ![s] = IF e = None THEN Fresh ELSE token[e]]
      /\ UNCHANGED <<inGroup, closing, stored, view>>
  BY DEF Insert, browser
<1>4. ASSUME e # None
      PROVE  /\ e \in Sessions /\ e # s /\ Current(e) /\ Inside(e) /\ IdOf[e] = IdOf[s]
             /\ token[e] # 0
  <2>1. /\ e \in Sessions /\ IdOf[e] = IdOf[s] /\ Inside(e)
    BY <1>1, <1>4 DEF TypeOK, MembersAlive, Inside
  <2>2. e # s
    BY <1>2, <2>1 DEF Inside
  <2>3. token[e] # 0
    BY <1>4 DEF Insert, Barred, CanReplace
  <2> QED BY <2>1, <2>2, <2>3 DEF Current
<1> QED BY <1>1, <1>2, <1>3, <1>4 DEF Outside, TypeOK

(* Who holds its id after a step did before, or was inserted; a session    *)
(* that is inserted holds it.                                              *)
LEMMA SeatBefore ==
  ASSUME TypeOK, [Next]_vars, NEW t \in Sessions
  PROVE  /\ Current(t)' => Current(t) \/ Insert(t)
         /\ Insert(t) => members'[IdOf[t]] = t
<1>1. /\ t # None /\ IdOf[t] \in Ids
      /\ members \in [Ids -> Sessions \cup {None}]
      /\ \A x \in Sessions : IdOf[x] \in Ids
  BY ConstantsAssumption DEF TypeOK
<1>2. ASSUME NEW x \in Sessions, Insert(x), Current(t)' PROVE Current(t) \/ Insert(t)
  <2>1. members' = [members EXCEPT ![IdOf[x]] = x] /\ members'[IdOf[t]] = t
    BY <1>2 DEF Insert, Current
  <2>2. CASE IdOf[x] = IdOf[t]
    <3>1. x = t
      BY <1>1, <2>1, <2>2
    <3> QED BY <1>2, <3>1
  <2>3. CASE IdOf[x] # IdOf[t]
    BY <1>1, <2>1, <2>3 DEF Current
  <2> QED BY <2>2, <2>3
<1>3. ASSUME NEW x \in Sessions, Goodbye(x), Current(t)' PROVE Current(t)
  <2>1. members' = [members EXCEPT ![IdOf[x]] = None] /\ members'[IdOf[t]] = t
    BY <1>3 DEF Goodbye, Current
  <2>2. members'[IdOf[t]] = members[IdOf[t]]
    BY <1>1, <2>1
  <2> QED BY <2>1, <2>2 DEF Current
<1>4. ASSUME Insert(t) PROVE members'[IdOf[t]] = t
  <2>1. members' = [members EXCEPT ![IdOf[t]] = t]
    BY <1>4 DEF Insert
  <2> QED BY <1>1, <2>1
<1>5. ASSUME members' = members, Current(t)' PROVE Current(t)
  BY <1>5 DEF Current
<1> QED BY <1>2, <1>3, <1>4, <1>5, MemberSteps

LEMMA VictimsStay ==
  ASSUME TypeOK, MembersAlive, Untold, Victims, [Next]_vars
  PROVE  Victims'
<1> SUFFICES ASSUME NEW t \in Sessions, victim'[t] # None
             PROVE  victim'[t] # t /\ IdOf[victim'[t]] = IdOf[t]
  BY DEF Victims
<1>1. CASE Insert(t)
  BY <1>1, Inserted
<1>2. CASE ~Insert(t)
  BY <1>2, VictimSteps DEF Victims
<1> QED BY <1>1, <1>2

(* A session that ends has closed the socket of its browser.               *)
LEMMA EndedUnseen ==
  ASSUME TypeOK, [Next]_vars, "leave" \notin Messages, NEW x \in Sessions,
         pc[x] \in {"idle", "locking"}, pc'[x] \in {"leaving", "gone"}
  PROVE  view'[x].group = FALSE
<1> USE DEF adding, leaving, browser, counters
<1>1. ASSUME NEW s \in Sessions, s # x,
             Disconnect(s) \/ Handle(s)
      PROVE  pc'[x] = pc[x]
  BY <1>1 DEF Disconnect, Handle, HandleJoined, HandleUser, HandlePerms, HandleEnd,
     LeaveGroup, TypeOK
<1>2. ASSUME Disconnect(x) PROVE view'[x].group = FALSE
  BY <1>2 DEF Disconnect, SocketClosed, TypeOK
<1>3. ASSUME Handle(x) PROVE view'[x].group = FALSE \/ pc'[x] = pc[x]
  BY <1>3 DEF Handle, HandleJoined, HandleUser, HandlePerms, HandleEnd, SocketClosed, TypeOK
<1>4. ASSUME NEW s \in Sessions,
             \/ Join(s) \/ Refuse(s) \/ Bar(s) \/ TurnAway(s) \/ Insert(s) \/ Greet(s)
             \/ Enter(s)
             \/ \E t \in Sessions : Look(s, t) \/ Announce(s, t) \/ TellLeft(s, t) \/ TellLocked(s, t)
      PROVE  pc'[x] \notin {"leaving", "gone"}
  BY ZenonT(80), <1>4 DEF Join, Refuse, Bar, TurnAway, Insert, Greet, Enter, Look, Announce, TellLeft,
     TellLocked, TypeOK
<1>5. ASSUME NEW s \in Sessions, Left(s) PROVE pc'[x] \notin {"leaving", "gone"}
  BY <1>5 DEF Left, TypeOK
<1>6. ASSUME NEW s \in Sessions, Operate(s) PROVE pc'[x] \notin {"leaving", "gone"}
  BY <1>6, OperatePc
<1>7. ASSUME Update \/ (\E r \in async, t \in Sessions : Push(r, t)) \/ UNCHANGED vars
      PROVE  pc'[x] = pc[x]
  BY <1>7 DEF Update, Push, vars
<1> QED
  BY <1>1, <1>2, <1>3, <1>4, <1>5, <1>6, <1>7 DEF Next, Proceed, Leave

LEMMA UnseenStays ==
  ASSUME TypeOK, Untold, Unseen, [Next]_vars, "leave" \notin Messages
  PROVE  Unseen'
<1> SUFFICES ASSUME NEW x \in Sessions, view'[x].group
             PROVE  inGroup'[x] /\ pc'[x] \in {"idle", "locking"}
  BY DEF Unseen
<1>1. CASE view'[x] = view[x]
  <2>1. inGroup[x] /\ pc[x] \in {"idle", "locking"}
    BY <1>1 DEF Unseen
  <2>2. pc'[x] \notin {"leaving", "gone"}
    BY <2>1, EndedUnseen
  <2> QED BY <2>1, <2>2, PcSteps DEF Moves
<1>2. CASE Handle(x) /\ UNCHANGED <<pc, inGroup>>
  <2>1. pc[x] = "idle" /\ Queue(x) # {}
    <3>1. actions[x] \in Seq(Action) /\ actions[x] # <<>> /\ pc[x] = "idle"
      BY <1>2 DEF Handle, TypeOK
    <3> QED BY <3>1, ItemsTail DEF Queue
  <2>2. inGroup[x]
    BY <2>1 DEF Untold, Outside, Alone
  <2> QED BY <1>2, <2>1, <2>2
<1>3. ASSUME Handle(x) PROVE view'[x].group = FALSE \/ UNCHANGED <<pc, inGroup>>
  BY <1>3 DEF Handle, HandleJoined, HandleUser, HandlePerms, HandleEnd, SocketClosed, TypeOK
<1> QED BY <1>1, <1>2, <1>3, ViewSteps

LEMMA TokenedStays ==
  ASSUME TypeOK, MembersAlive, Untold, Tokened, [Next]_vars, "leave" \notin Messages
  PROVE  Tokened'
<1> SUFFICES ASSUME NEW x \in Sessions, Inside(x)' PROVE token'[x] # 0
  BY DEF Tokened
<1>1. CASE Inside(x)
  BY <1>1, TokenLasts DEF Tokened
<1>2. CASE Insert(x)
  BY <1>2, Inserted, FreshIsNew
<1> QED BY <1>1, <1>2, InsideBefore

(* A session that may write after a step could before, or was inserted.    *)
LEMMA WritesBefore ==
  ASSUME TypeOK, MembersAlive, Untold, [Next]_vars, "leave" \notin Messages,
         NEW x \in Sessions, Writes(x)'
  PROVE  Insert(x) \/ (Writes(x) /\ token'[x] = token[x])
<1>1. ~closing[x] /\ Inside(x)'
  BY ClosingStays DEF Writes
<1> QED BY <1>1, InsideBefore, TokenLasts DEF Writes

LEMMA SharedStays ==
  ASSUME ~Redirected, TypeOK, MembersAlive, Untold, Shared, Silent, [Next]_vars,
         "leave" \notin Messages
  PROVE  Shared'
<1> SUFFICES ASSUME NEW s \in Sessions, NEW r \in Sessions, Current(s)', Writes(r)',
                    IdOf[r] = IdOf[s], r # s
             PROVE  token'[r] = token'[s]
  BY DEF Shared
<1>0. \A x \in Sessions : IdOf[x] \in Ids /\ x # None
  BY ConstantsAssumption
<1>1. CASE Insert(s)
  <2>1. Writes(r) /\ token'[r] = token[r]
    <3>1. members'[IdOf[s]] = s
      BY DEF Current
    <3>2. ~Insert(r)
      BY <3>1, SeatBefore
    <3> QED BY <3>2, WritesBefore
  <2>2. Outside(s)
    BY <1>1, Inserted
  <2>3. members[IdOf[s]] # None
    BY <2>1, <2>2 DEF Silent
  <2>4. PICK e \in Sessions : Current(e) /\ IdOf[e] = IdOf[s] /\ token'[s] = token[e]
    BY <1>1, <2>3, Inserted
  <2> QED BY <2>1, <2>4 DEF Shared
<1>2. CASE ~Insert(s)
  <2>1. Current(s)
    BY <1>2, SeatBefore
  <2>2. Inside(s)
    BY <1>0, <2>1 DEF MembersAlive, Current, Inside
  <2>3. token'[s] = token[s]
    BY <2>2, TokenLasts
  <2>4. ~Insert(r)
    <3>1. members'[IdOf[s]] = s
      BY DEF Current
    <3> QED BY <3>1, SeatBefore
  <2> QED BY <2>1, <2>3, <2>4, WritesBefore DEF Shared
<1> QED BY <1>1, <1>2

LEMMA SilentStays ==
  ASSUME ~Redirected, TypeOK, MembersAlive, Untold, VictimWhileAdding, ReplacedIsClosed,
         Victims, Silent, AtMostThreePerId, [Next]_vars, "leave" \notin Messages
  PROVE  Silent'
<1> SUFFICES ASSUME NEW u \in Sessions, NEW r \in Sessions, Outside(u)', Writes(r)',
                    IdOf[r] = IdOf[u], members'[IdOf[u]] = None
             PROVE  FALSE
  BY DEF Silent
<1>0. \A x \in Sessions : IdOf[x] \in Ids /\ x # None
  BY ConstantsAssumption
<1>1. Outside(u)
  BY OutsideBefore
<1>2. Writes(r)
  <2>1. ~Insert(r)
    BY <1>0, SeatBefore
  <2> QED BY <2>1, WritesBefore
<1>3. members[IdOf[u]] # None
  BY <1>1, <1>2 DEF Silent
<1>4. PICK m \in Sessions : Goodbye(m) /\ IdOf[m] = IdOf[u]
  <2>1. members' # members
    BY <1>3
  <2>2. ASSUME NEW x \in Sessions, Insert(x) PROVE FALSE
    <3>1. members' = [members EXCEPT ![IdOf[x]] = x]
      BY <2>2 DEF Insert
    <3> QED BY <1>0, <1>3, <3>1 DEF TypeOK
  <2>3. ASSUME NEW x \in Sessions, Goodbye(x) PROVE IdOf[x] = IdOf[u]
    BY <1>0, <1>3, <2>3 DEF Goodbye, TypeOK
  <2> QED BY <2>1, <2>2, <2>3, MemberSteps
<1>5. pc[m] = "idle" /\ pc'[m] = "leaving" /\ inGroup[m] /\ Current(m)
  BY <1>4 DEF Goodbye, TypeOK
<1>6. r # m
  BY <1>5 DEF Writes, Inside
<1>7. ~Current(r) /\ ~closing[r] /\ Inside(r)
  BY <1>2, <1>4, <1>5, <1>6 DEF Current, Writes
<1>8. PICK t \in Sessions : victim[t] = r
  BY <1>7 DEF ReplacedIsClosed, Inside
<1>9. pc[t] \in {"greeting", "announcing"} /\ t # r /\ IdOf[t] = IdOf[r]
  BY <1>0, <1>8 DEF VictimWhileAdding, Victims
<1>10. t # m /\ t # u /\ u # r /\ u # m
  BY <1>1, <1>5, <1>7, <1>9 DEF Outside, Inside
<1> QED BY <1>4, <1>6, <1>9, <1>10 DEF AtMostThreePerId

LEMMA ResumableStays ==
  ASSUME ~Redirected, TypeOK, MembersAlive, Untold, Unseen, Tokened, Shared, Resumable,
         [Next]_vars, "leave" \notin Messages
  PROVE  Resumable'
<1> SUFFICES ASSUME NEW s \in Sessions, Current(s)', Joined(s)', view'[s].group
             PROVE  stored'[IdOf[s]] = token'[s]
  BY DEF Resumable
<1>0. \A x \in Sessions : IdOf[x] \in Ids /\ x # None
  BY ConstantsAssumption
<1>1. ~closing[s] /\ inGroup'[s]
  BY ClosingStays DEF Joined
<1>2. ~Insert(s)
  BY <1>1, Inserted DEF Outside
<1>3. Current(s)
  BY <1>2, SeatBefore
<1>4. Inside(s) /\ Writes(s) /\ token[s] # 0
  BY <1>0, <1>1, <1>3 DEF MembersAlive, Current, Inside, Writes, Tokened
<1>5. token'[s] = token[s]
  BY <1>4, TokenLasts
<1>6. ASSUME NEW r \in Sessions, Stores(r) PROVE stored'[IdOf[s]] = token[s]
  <2>1. Inside(r) /\ Writes(r)
    <3>1. ~Outside(r)
      BY <1>6 DEF Stores, Untold, Alone
    <3> QED BY <1>6, <3>1 DEF Outside, Stores, Inside, Writes
  <2>2. CASE IdOf[r] = IdOf[s]
    <3>1. token[r] = token[s]
      BY <1>3, <2>1, <2>2 DEF Shared
    <3>2. stored'[IdOf[s]] = Remember(stored[IdOf[s]], token[r])
      BY <1>0, <1>6, <2>2 DEF Stores, TypeOK
    <3> QED BY <1>4, <3>1, <3>2 DEF Remember
  <2>3. CASE IdOf[r] # IdOf[s]
    <3>1. stored'[IdOf[s]] = stored[IdOf[s]] /\ view'[s] = view[s] /\ inGroup[s]
      BY <1>0, <1>1, <1>6, <2>3 DEF Stores, TypeOK
    <3> QED BY <1>1, <1>3, <3>1 DEF Resumable, Joined
  <2> QED BY <2>2, <2>3
<1>7. CASE stored' = stored
  <2>1. CASE view[s].group
    <3>1. Joined(s)
      BY <1>1, <2>1 DEF Joined, Unseen
    <3> QED BY <1>3, <1>5, <1>7, <2>1, <3>1 DEF Resumable
  <2>2. CASE ~view[s].group
    <3>1. PICK k : ApplyJoined(s, k)
      BY <2>2, ViewSteps DEF TypeOK
    <3>2. stored' = [stored EXCEPT ![IdOf[s]] = Remember(@, token[s])]
      BY <2>2, <3>1 DEF ApplyJoined
    <3>3. stored'[IdOf[s]] = token[s]
      BY <1>0, <1>4, <3>2 DEF Remember, TypeOK
    <3> QED BY <1>5, <3>3
  <2> QED BY <2>1, <2>2
<1> QED BY <1>5, <1>6, <1>7, StoredSteps

(* With a redirect in the description nobody believes to be in the group.  *)
LEMMA RedirectedStay ==
  ASSUME Redirected, "leave" \notin Messages, TypeOK, [Next]_vars,
         \A s \in Sessions : ~inGroup[s]
  PROVE  \A s \in Sessions : ~inGroup'[s]
BY PcSteps DEF Moves

(* However connections break and come back and whatever is queued for      *)
(* whom: a browser that has been told it is in the group has stored the    *)
(* token that the member under its id is recognised by, as long as no id   *)
(* has more than three sessions and clients leave by closing their         *)
(* connections (AddClient, handleAction, applyJoinedMessage).              *)
THEOREM TokensAreStored ==
  AtMostThreePerId /\ "leave" \notin Messages => (Spec => []Resumable)
<1> SUFFICES ASSUME AtMostThreePerId, "leave" \notin Messages PROVE Spec => []Resumable
  OBVIOUS
<1> DEFINE Inv == IF Redirected THEN \A s \in Sessions : ~inGroup[s]
                  ELSE MembersAlive /\ Untold /\ VictimWhileAdding /\ Tokens /\ Resumable
<1>1. Init => Inv
  <2> SUFFICES ASSUME Init PROVE Inv
    OBVIOUS
  <2>1. \A s \in Sessions : ~Current(s) /\ ~Inside(s) /\ ~inGroup[s]
    BY ConstantsAssumption DEF Init, Current, Inside
  <2>2. Victims /\ Unseen
    BY DEF Init, Victims, Unseen
  <2> QED BY <2>1, <2>2, InitUntold DEF Init, MembersAlive, VictimWhileAdding, Tokens,
         Tokened, Shared, Silent, Writes, Resumable
<1>2. TypeOK /\ ReplacedIsClosed /\ Inv /\ [Next]_vars => Inv'
  <2> SUFFICES ASSUME TypeOK, ReplacedIsClosed, Inv, [Next]_vars PROVE Inv'
    OBVIOUS
  <2>1. CASE Redirected
    BY <2>1, RedirectedStay
  <2>2. CASE ~Redirected
    <3>1. MembersAlive /\ Untold /\ VictimWhileAdding /\ Tokens /\ Resumable
      BY <2>2
    <3>2. MembersAlive' /\ Untold' /\ VictimWhileAdding'
      BY <2>2, <3>1, MembersStay, UntoldStays, VictimsKept
    <3>3. Victims' /\ Unseen' /\ Tokened'
      BY <3>1, VictimsStay, UnseenStays, TokenedStays DEF Tokens
    <3>4. Shared' /\ Silent' /\ Resumable'
      BY <2>2, <3>1, SharedStays, SilentStays, ResumableStays DEF Tokens
    <3> QED BY <2>2, <3>2, <3>3, <3>4 DEF Tokens
  <2> QED BY <2>1, <2>2
<1>3. Inv => Resumable
  BY DEF Resumable, Joined
<1> QED BY <1>1, <1>2, <1>3, TypeCorrect, ReplacedAreClosed, PTL DEF Spec
=============================================================================
