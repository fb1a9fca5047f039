--------------------------- MODULE OrgSeatsProofs ---------------------------
(***************************************************************************)
(* Proofs about OrgSeats for any users, requests, plans and bounds: the    *)
(* types and the lock, that an owner remains, that invites are unique and  *)
(* for outsiders, that the membership grows by open invites, and members   *)
(* and projects only within the plan.                                      *)
(***************************************************************************)
EXTENDS OrgSeats, FiniteSetTheorems, TLAPS

-----------------------------------------------------------------------------
(* Types, and the lock.                                                    *)

InviteType == [state : {"absent", "open", "revoked", "accepted"},
               user : Users, role : Roles, expires : 0 .. MaxTime + Ttl]
ReqType == [pc : Steps, user : Users, role : Roles, by : Managers,
            inv : {0} \cup Invites, at : 0 .. MaxTime]

\* A request that has not started, and an invite that was not made, are well typed.
LEMMA IdleType == Idle \in ReqType /\ Absent \in InviteType
  BY SeatsAssumption DEF Idle, Absent, ReqType, InviteType, Steps, Roles, Managers, Ttl

\* An invite's end lies within the bounded time.
LEMMA ExpiryType == ASSUME NEW t \in 0 .. MaxTime PROVE Expiry(t) \in 0 .. MaxTime + Ttl
  BY SeatsAssumption DEF Expiry, Ttl

\* The organization starts well typed.
LEMMA InitType == Init => TypeOK
  BY IdleType, SeatsAssumption, SMTT(30)
  DEF Init, TypeOK, InviteType, ReqType, Idle, Roles, Locked

\* Ending a request keeps the types of the requests and of the lock.
LEMMA EndType ==
    ASSUME TypeOK, NEW r \in Requests, req[r].pc # "idle", End(r)
    PROVE  /\ req' \in [Requests -> ReqType]
           /\ lock' \in Requests \cup {None}
           /\ \A x \in Requests : lock' = x <=> req'[x].pc \in Locked
<1>1. req' = [req EXCEPT ![r] = Idle] /\ lock' = IF lock = r THEN None ELSE lock
  BY DEF End
<1>2. req' \in [Requests -> ReqType] /\ lock' \in Requests \cup {None}
  BY <1>1, IdleType DEF TypeOK, ReqType
<1>3. ASSUME NEW x \in Requests
      PROVE  lock' = x <=> req'[x].pc \in Locked
  <2>1. CASE x = r
    BY <1>1, <2>1, SeatsAssumption DEF TypeOK, Idle, Locked
  <2>2. CASE x # r
    BY <1>1, <2>2, SeatsAssumption DEF TypeOK
  <2> QED BY <2>1, <2>2
<1> QED BY <1>2, <1>3

\* So does a step that neither takes nor holds the lock.
LEMMA BeginType ==
    ASSUME TypeOK, NEW r \in Requests, NEW rec \in ReqType, rec.pc \notin Locked,
           Begin(r, rec), lock' = lock
    PROVE  /\ req' \in [Requests -> ReqType]
           /\ \A x \in Requests : lock' = x <=> req'[x].pc \in Locked
<1>1. req[r].pc \notin Locked
  BY DEF Begin, Locked
<1> QED BY <1>1 DEF TypeOK, Begin, ReqType

\* And a step that takes the free lock, or goes on under it.
LEMMA LockType ==
    ASSUME TypeOK, NEW r \in Requests, NEW rec \in ReqType, rec.pc \in Locked,
           lock = None \/ lock = r, lock' = r,
           req' = [req EXCEPT ![r] = rec]
    PROVE  /\ req' \in [Requests -> ReqType]
           /\ \A x \in Requests : lock' = x <=> req'[x].pc \in Locked
<1>1. \A x \in Requests : x # r => req[x].pc \notin Locked
  BY SeatsAssumption DEF TypeOK
<1> QED BY <1>1 DEF TypeOK, ReqType

\* Every step keeps the types.
LEMMA NextType == TypeOK /\ [Next]_vars => TypeOK'
<1> SUFFICES ASSUME TypeOK, [Next]_vars PROVE TypeOK'
  OBVIOUS
<1> USE DEF InviteType, ReqType
<1>0. now \in 0 .. MaxTime /\ MaxTime \in Nat
  BY SeatsAssumption DEF TypeOK
<1>1. ASSUME NEW r \in Requests, CreateStart(r) PROVE TypeOK'
  <2> DEFINE rec == [Idle EXCEPT !.pc = "create", !.at = now]
  <2>1. rec \in ReqType /\ rec.pc \notin Locked
    BY <1>0, IdleType DEF Steps, Locked
  <2>2. Begin(r, rec) /\ lock' = lock
    BY <1>1 DEF CreateStart
  <2> HIDE DEF rec
  <2> QED BY <1>1, <2>1, <2>2, BeginType DEF CreateStart, TypeOK
<1>2. ASSUME NEW r \in Requests, NEW u \in Users, CreateAllowed(r, u) PROVE TypeOK'
  <2> DEFINE rec == [req[r] EXCEPT !.pc = "find", !.user = u]
  <2>1. rec \in ReqType /\ rec.pc \in Locked
    BY DEF TypeOK, Steps, Locked
  <2>2. req' = [req EXCEPT ![r] = rec] /\ lock = None /\ lock' = r
    BY <1>2 DEF CreateAllowed, CanLock, TypeOK
  <2> HIDE DEF rec
  <2> QED BY <1>2, <2>1, <2>2, LockType DEF CreateAllowed, TypeOK
<1>3. ASSUME NEW r \in Requests, CreateRefused(r) PROVE TypeOK'
  BY <1>3, EndType DEF CreateRefused, TypeOK
<1>4. ASSUME NEW r \in Requests, CreateFind(r) PROVE TypeOK'
  <2>1. PICK i \in {0} \cup Invites :
            req' = [req EXCEPT ![r].pc = "write", ![r].inv = i]
    BY <1>4 DEF CreateFind
  <2> DEFINE rec == [req[r] EXCEPT !.pc = "write", !.inv = i]
  <2>2. rec \in ReqType /\ rec.pc \in Locked
    BY DEF TypeOK, Steps, Locked
  <2>3. req' = [req EXCEPT ![r] = rec]
    BY <2>1 DEF TypeOK
  <2>4. lock = r /\ lock' = r
    BY <1>4 DEF CreateFind, TypeOK, Locked
  <2> HIDE DEF rec
  <2> QED BY <1>4, <2>2, <2>3, <2>4, LockType DEF CreateFind, TypeOK
<1>5. ASSUME NEW r \in Requests, NEW g \in Roles, CreateWrite(r, g) PROVE TypeOK'
  <2>1. req[r].user \in Users /\ Expiry(req[r].at) \in 0 .. MaxTime + Ttl
    BY ExpiryType DEF TypeOK
  <2>2. invite' \in [Invites -> InviteType]
    <3>1. CASE req[r].inv = 0
      BY <1>5, <2>1, <3>1 DEF CreateWrite, TypeOK
    <3>2. CASE req[r].inv # 0
      BY <1>5, <2>1, <3>2 DEF CreateWrite, TypeOK
    <3> QED BY <3>1, <3>2
  <2> QED BY <1>5, <2>2, EndType DEF CreateWrite, TypeOK
<1>6. ASSUME NEW i \in Invites, Revoke(i) PROVE TypeOK'
  BY <1>6 DEF Revoke, TypeOK
<1>7. ASSUME NEW i \in Invites, Resend(i) PROVE TypeOK'
  BY <1>7, ExpiryType DEF Resend, TypeOK
<1>8. ASSUME NEW r \in Requests, NEW i \in Invites, AcceptStart(r, i) PROVE TypeOK'
  <2> DEFINE rec == [Idle EXCEPT !.pc = "accept", !.user = invite[i].user,
                                 !.role = invite[i].role, !.inv = i, !.at = now]
  <2>1. rec \in ReqType /\ rec.pc \notin Locked
    BY <1>0, IdleType DEF TypeOK, Steps, Locked
  <2>2. Begin(r, rec) /\ lock' = lock
    BY <1>8 DEF AcceptStart
  <2> HIDE DEF rec
  <2> QED BY <1>8, <2>1, <2>2, BeginType DEF AcceptStart, TypeOK
<1>9. ASSUME NEW r \in Requests, AcceptAllowed(r) PROVE TypeOK'
  <2> DEFINE rec == [req[r] EXCEPT !.pc = "claim"]
  <2>1. rec \in ReqType /\ rec.pc \in Locked
    BY DEF TypeOK, Steps, Locked
  <2>2. req' = [req EXCEPT ![r] = rec] /\ lock = None /\ lock' = r
    BY <1>9 DEF AcceptAllowed, CanLock, TypeOK
  <2> HIDE DEF rec
  <2> QED BY <1>9, <2>1, <2>2, LockType DEF AcceptAllowed, TypeOK
<1>10. ASSUME NEW r \in Requests, AcceptFull(r) PROVE TypeOK'
  BY <1>10, EndType DEF AcceptFull, TypeOK
<1>11. ASSUME NEW r \in Requests, AcceptClaim(r) PROVE TypeOK'
  <2>1. invite' \in [Invites -> InviteType] /\ role' \in [Users -> Roles \cup {"none"}]
    <3>1. CASE UNCHANGED <<invite, role>>
      BY <3>1 DEF TypeOK
    <3>2. CASE /\ invite' = [invite EXCEPT ![req[r].inv].state = "accepted"]
               /\ role' = [role EXCEPT ![req[r].user] = IF @ = "none" THEN req[r].role ELSE @]
      <4>1. /\ req[r].role \in Roles /\ invite \in [Invites -> InviteType]
            /\ role \in [Users -> Roles \cup {"none"}]
        BY DEF TypeOK
      <4>2. role' \in [Users -> Roles \cup {"none"}]
        BY <3>2, <4>1
      <4>3. \A i \in Invites : [invite[i] EXCEPT !.state = "accepted"] \in InviteType
        BY <4>1
      <4>4. invite' \in [Invites -> InviteType]
        BY <3>2, <4>1, <4>3
      <4> QED BY <4>2, <4>4
    <3> QED BY <1>11, <3>1, <3>2 DEF AcceptClaim
  <2> QED BY <1>11, <2>1, EndType DEF AcceptClaim, TypeOK
<1>12. ASSUME NEW r \in Requests, NEW a \in Users, ManageStart(r, a) PROVE TypeOK'
  <2> DEFINE rec == [Idle EXCEPT !.pc = "manage", !.by = role[a]]
  <2>1. rec \in ReqType /\ rec.pc \notin Locked
    BY <1>12, IdleType DEF ManageStart, Steps, Locked
  <2>2. Begin(r, rec) /\ lock' = lock
    BY <1>12 DEF ManageStart
  <2> HIDE DEF rec
  <2> QED BY <1>12, <2>1, <2>2, BeginType DEF ManageStart, TypeOK
<1>13. ASSUME NEW r \in Requests, NEW u \in Users, NEW g \in Roles, ChangeRole(r, u, g)
       PROVE  TypeOK'
  <2>1. role' \in [Users -> Roles \cup {"none"}]
    BY <1>13 DEF ChangeRole, TypeOK
  <2> QED BY <1>13, <2>1, EndType DEF ChangeRole, TypeOK
<1>14. ASSUME NEW r \in Requests, NEW u \in Users, RemoveMember(r, u) PROVE TypeOK'
  <2>1. role' \in [Users -> Roles \cup {"none"}]
    BY <1>14 DEF RemoveMember, TypeOK
  <2> QED BY <1>14, <2>1, EndType DEF RemoveMember, TypeOK
<1>15. ASSUME NEW p \in Plans, SetPlan(p) PROVE TypeOK'
  BY <1>15 DEF SetPlan, TypeOK
<1>16. ASSUME NEW r \in Requests, Abort(r) PROVE TypeOK'
  BY <1>16, EndType DEF Abort, TypeOK
<1>17. CASE Tick
  BY <1>0, <1>17 DEF Tick, TypeOK
<1>18. CASE UNCHANGED vars
  BY <1>18 DEF vars, TypeOK
<1>19. ASSUME NEW r \in Requests, ProjectStart(r) PROVE TypeOK'
  <2> DEFINE rec == [Idle EXCEPT !.pc = "add"]
  <2>1. rec \in ReqType /\ rec.pc \notin Locked
    BY IdleType DEF Steps, Locked
  <2>2. Begin(r, rec) /\ lock' = lock
    BY <1>19 DEF ProjectStart
  <2> HIDE DEF rec
  <2> QED BY <1>19, <2>1, <2>2, BeginType DEF ProjectStart, TypeOK
<1>20. ASSUME NEW r \in Requests, ProjectAllowed(r) PROVE TypeOK'
  <2> DEFINE rec == [req[r] EXCEPT !.pc = "insert"]
  <2>1. rec \in ReqType /\ rec.pc \in Locked
    BY DEF TypeOK, Steps, Locked
  <2>2. req' = [req EXCEPT ![r] = rec] /\ lock = None /\ lock' = r
    BY <1>20 DEF ProjectAllowed, CanLock, TypeOK
  <2> HIDE DEF rec
  <2> QED BY <1>20, <2>1, <2>2, LockType DEF ProjectAllowed, TypeOK
<1>21. ASSUME NEW r \in Requests, ProjectRefused(r) PROVE TypeOK'
  BY <1>21, EndType DEF ProjectRefused, TypeOK
<1>22. ASSUME NEW r \in Requests, ProjectInsert(r) PROVE TypeOK'
  <2>1. projects' \in 0 .. MaxProjects
    BY <1>22, SeatsAssumption DEF ProjectInsert, TypeOK
  <2> QED BY <1>22, <2>1, EndType DEF ProjectInsert, TypeOK
<1>23. CASE ProjectRemove
  <2>1. projects' \in 0 .. MaxProjects
    BY <1>23, SeatsAssumption DEF ProjectRemove, TypeOK
  <2> QED BY <1>23, <2>1 DEF ProjectRemove, TypeOK
<1> QED
  BY <1>1, <1>2, <1>3, <1>4, <1>5, <1>6, <1>7, <1>8, <1>9, <1>10, <1>11, <1>12,
     <1>13, <1>14, <1>15, <1>16, <1>17, <1>18, <1>19, <1>20, <1>21, <1>22, <1>23
  DEF Next, Create, Accept, Manage, AddProject

\* Types hold, and the lock is held by the request inside its transaction.
THEOREM TypeCorrect == Spec => []TypeOK
  BY InitType, NextType, PTL DEF Spec

-----------------------------------------------------------------------------
(* An owner remains.                                                       *)

\* The operations that leave the members alone.
LEMMA RoleStable ==
    ASSUME [Next]_vars
    PROVE  \/ role' = role
           \/ \E r \in Requests : AcceptClaim(r)
           \/ \E r \in Requests, u \in Users, g \in Roles : ChangeRole(r, u, g)
           \/ \E r \in Requests, u \in Users : RemoveMember(r, u)
  BY DEF Next, Create, Accept, Manage, AddProject, vars, CreateStart, CreateAllowed,
         CreateRefused, CreateFind, CreateWrite, AcceptStart, AcceptAllowed, AcceptFull,
         ManageStart, ProjectStart, ProjectAllowed, ProjectRefused, ProjectInsert,
         ProjectRemove, Abort, Revoke, Resend, SetPlan, Tick

\* When the count is not one or less, an owner has another one beside.
LEMMA AnotherOwner ==
    ASSUME NEW u \in Owners, ~ LastOwner
    PROVE  \E v \in Owners : v # u
<1> SUFFICES ASSUME Owners = {u} PROVE FALSE
  OBVIOUS
<1>1. Cardinality({u}) = 1
  BY FS_Singleton
<1>2. Cardinality(Owners) = 1
  BY <1>1
<1> QED BY <1>2 DEF LastOwner

\* Every step keeps an owner: the last one is demoted or removed by nobody.
LEMMA OwnerStep == TypeOK /\ OwnerRemains /\ [Next]_vars => OwnerRemains'
<1> SUFFICES ASSUME TypeOK, OwnerRemains, [Next]_vars PROVE OwnerRemains'
  OBVIOUS
<1>1. CASE role' = role
  BY <1>1 DEF OwnerRemains, Owners
<1>2. ASSUME NEW r \in Requests, AcceptClaim(r) PROVE OwnerRemains'
  BY <1>2 DEF AcceptClaim, OwnerRemains, Owners, TypeOK
<1>3. ASSUME NEW r \in Requests, NEW u \in Users, NEW g \in Roles, ChangeRole(r, u, g)
      PROVE  OwnerRemains'
  <2>1. PICK o \in Owners : u \in Owners /\ ~ LastOwner => o # u
    BY AnotherOwner DEF OwnerRemains
  <2>2. CASE o = u
    BY <1>3, <2>1, <2>2 DEF ChangeRole, OwnerRemains, Owners, TypeOK
  <2>3. CASE o # u
    BY <1>3, <2>3 DEF ChangeRole, OwnerRemains, Owners, TypeOK
  <2> QED BY <2>2, <2>3
<1>4. ASSUME NEW r \in Requests, NEW u \in Users, RemoveMember(r, u) PROVE OwnerRemains'
  <2>1. PICK o \in Owners : u \in Owners /\ ~ LastOwner => o # u
    BY AnotherOwner DEF OwnerRemains
  <2>2. CASE o = u
    BY <1>4, <2>1, <2>2 DEF RemoveMember, OwnerRemains, Owners, TypeOK
  <2>3. CASE o # u
    BY <1>4, <2>3 DEF RemoveMember, OwnerRemains, Owners, TypeOK
  <2> QED BY <2>2, <2>3
<1> QED BY <1>1, <1>2, <1>3, <1>4, RoleStable

\* Whatever role changes and removals interleave, an owner remains.
THEOREM OwnerTheorem == Spec => []OwnerRemains
<1>1. Init => OwnerRemains
  BY SeatsAssumption DEF Init, OwnerRemains, Owners
<1> QED BY <1>1, InitType, NextType, OwnerStep, PTL DEF Spec

-----------------------------------------------------------------------------
(* What a transaction that holds the lock knows.                           *)

\* The address it invites is no member's, and once it found no open invite of
\* the address there is none.
CreateKnows ==
    \A r \in Requests :
        /\ req[r].pc \in {"find", "write"} => role[req[r].user] = "none"
        /\ req[r].pc = "write" /\ req[r].inv = 0 =>
              \A i \in Invites : Open(i) => invite[i].user # req[r].user

\* The invite it accepts was created for its user.
AcceptKnows ==
    \A r \in Requests : req[r].pc \in {"accept", "claim"} =>
        /\ req[r].inv \in Invites
        /\ invite[req[r].inv].state # "absent"
        /\ invite[req[r].inv].user = req[r].user

\* The seat it counted is still free.
ClaimFits ==
    \A r \in Requests : req[r].pc = "claim" => Cardinality(Members) < Limit[plan]

Knows == TypeOK /\ CreateKnows /\ AcceptKnows /\ ClaimFits /\ OneOpenInvite /\ NoInviteForMember

\* Of two requests, one is outside its transaction.
LEMMA OneHolder ==
    ASSUME TypeOK, NEW r \in Requests, lock = None \/ lock = r,
           NEW x \in Requests, x # r
    PROVE  req[x].pc \notin Locked
  BY SeatsAssumption DEF TypeOK

\* A request that ends is idle, and the others are where they were.
LEMMA EndIdle ==
    ASSUME TypeOK, NEW r \in Requests, End(r)
    PROVE  req'[r] = Idle /\ \A x \in Requests : x # r => req'[x] = req[x]
  BY DEF TypeOK, End

\* Nothing has been read yet when the organization is founded.
LEMMA InitKnows == Init => Knows
<1> SUFFICES ASSUME Init PROVE Knows
  OBVIOUS
<1>1. \A r \in Requests : req[r].pc = "idle"
  BY DEF Init, Idle
<1>2. \A i \in Invites : ~ Open(i)
  BY DEF Init, Absent, Open
<1> QED BY <1>1, <1>2, InitType
  DEF Knows, CreateKnows, AcceptKnows, ClaimFits, OneOpenInvite, NoInviteForMember

Learnt == CreateKnows /\ AcceptKnows /\ ClaimFits /\ OneOpenInvite /\ NoInviteForMember

\* No invite opens, and none changes its user.
NoneOpens ==
    \A i \in Invites :
        /\ invite'[i].user = invite[i].user
        /\ invite'[i].state = "open" => invite[i].state = "open"
        /\ invite'[i].state = "absent" => invite[i].state = "absent"

\* A step that opens no invite and lets nobody in teaches and spoils nothing.
LEMMA QuietStep ==
    ASSUME Knows, role' = role, plan' = plan, NoneOpens,
           \A x \in Requests :
              req'[x] = req[x] \/ req'[x].pc \in {"idle", "create", "manage", "add", "insert"}
    PROVE  Learnt'
<1> USE DEF Knows, Learnt, NoneOpens, Open
<1>1. CreateKnows'
  BY DEF CreateKnows
<1>2. AcceptKnows'
  BY DEF AcceptKnows
<1>3. ClaimFits'
  <2>1. Cardinality(Members)' = Cardinality(Members)
    BY DEF Members
  <2> QED BY <2>1 DEF ClaimFits
<1>4. OneOpenInvite' /\ NoInviteForMember'
  BY DEF OneOpenInvite, NoInviteForMember
<1> QED BY <1>1, <1>2, <1>3, <1>4

\* createInvite, past the seat check: the address is no member's.
LEMMA CreateAllowedStep ==
    ASSUME Knows, NEW r \in Requests, NEW u \in Users, CreateAllowed(r, u)
    PROVE  Learnt'
<1> USE DEF Knows, Learnt, Open
<1>1. req'[r].pc = "find" /\ req'[r].user = u /\ \A x \in Requests : x # r => req'[x] = req[x]
  BY DEF CreateAllowed, TypeOK, ReqType
<1>2. role' = role /\ plan' = plan /\ invite' = invite /\ role[u] = "none"
  BY DEF CreateAllowed, Invitable
<1>3. CreateKnows' /\ AcceptKnows'
  BY <1>1, <1>2 DEF CreateKnows, AcceptKnows
<1>4. ClaimFits'
  BY <1>1, <1>2 DEF ClaimFits, Members
<1> QED BY <1>2, <1>3, <1>4 DEF OneOpenInvite, NoInviteForMember

\* createInvite, past the look for an open invite: it knows which one there is, or none.
LEMMA CreateFindStep ==
    ASSUME Knows, NEW r \in Requests, CreateFind(r)
    PROVE  Learnt'
<1> USE DEF Knows, Learnt, Open
<1>1. PICK i \in {0} \cup Invites :
        /\ req' = [req EXCEPT ![r].pc = "write", ![r].inv = i]
        /\ i = 0 => \A j \in Invites : Open(j) => invite[j].user # req[r].user
  <2> DEFINE open == {j \in Invites : Open(j) /\ invite[j].user = req[r].user}
  <2>1. PICK i \in IF open = {} THEN {0} ELSE open :
            req' = [req EXCEPT ![r].pc = "write", ![r].inv = i]
    BY DEF CreateFind
  <2>2. CASE open = {}
    BY <2>1, <2>2
  <2>3. CASE open # {}
    <3>1. i \in Invites /\ i # 0
      BY <2>1, <2>3, SeatsAssumption DEF Invites
    <3> QED BY <2>1, <3>1
  <2> QED BY <2>2, <2>3
<1>2. /\ req'[r].pc = "write" /\ req'[r].inv = i /\ req'[r].user = req[r].user
      /\ \A x \in Requests : x # r => req'[x] = req[x]
  BY <1>1 DEF TypeOK
<1>3. role' = role /\ plan' = plan /\ invite' = invite /\ req[r].pc = "find"
  BY DEF CreateFind
<1>4. CreateKnows'
  <2> SUFFICES ASSUME NEW x \in Requests
               PROVE  /\ req'[x].pc \in {"find", "write"} => role'[req'[x].user] = "none"
                      /\ req'[x].pc = "write" /\ req'[x].inv = 0 =>
                            \A j \in Invites : Open(j)' => invite'[j].user # req'[x].user
    BY DEF CreateKnows
  <2>1. CASE x = r
    <3>1. role[req[r].user] = "none"
      BY <1>3 DEF CreateKnows
    <3>2. i = 0 => \A j \in Invites : Open(j) => invite[j].user # req[r].user
      BY <1>1
    <3>3. req'[x].user = req[r].user /\ req'[x].inv = i
      BY <1>2, <2>1
    <3> QED BY <1>3, <3>1, <3>2, <3>3
  <2>2. CASE x # r
    <3>1. req'[x] = req[x]
      BY <1>2, <2>2
    <3> QED BY <1>3, <3>1 DEF CreateKnows
  <2> QED BY <2>1, <2>2
<1>5. AcceptKnows' /\ ClaimFits'
  BY <1>2, <1>3 DEF AcceptKnows, ClaimFits, Members
<1> QED BY <1>3, <1>4, <1>5 DEF OneOpenInvite, NoInviteForMember

\* createInvite writes: what it knew keeps the open invites unique.
LEMMA CreateWriteStep ==
    ASSUME Knows, NEW r \in Requests, NEW g \in Roles, CreateWrite(r, g)
    PROVE  Learnt'
<1>1. req'[r] = Idle /\ \A x \in Requests : x # r => req'[x] = req[x]
  BY EndIdle DEF CreateWrite, Knows
<1>2. role' = role /\ plan' = plan /\ req[r].pc = "write"
  BY DEF CreateWrite
<1>3. CASE req[r].inv # 0
  <2>1. NoneOpens
    BY <1>3 DEF CreateWrite, NoneOpens, Knows, TypeOK
  <2> QED BY <1>1, <1>2, <2>1, QuietStep DEF Idle
<1>4. CASE req[r].inv = 0
  <2> DEFINE u == req[r].user
  <2>1. PICK i \in Invites :
            /\ invite[i].state = "absent"
            /\ invite'[i].state = "open" /\ invite'[i].user = u
            /\ \A j \in Invites : j # i => invite'[j] = invite[j]
    <3>1. PICK i \in Invites :
              /\ invite[i].state = "absent"
              /\ invite' = [invite EXCEPT ![i] = [state |-> "open", user |-> u, role |-> g,
                                                 expires |-> Expiry(req[r].at)]]
      BY <1>4 DEF CreateWrite
    <3>2. invite \in [Invites -> InviteType]
      <4>1. TypeOK
        BY DEF Knows
      <4> QED BY <4>1 DEF TypeOK, InviteType
    <3> QED BY <3>1, <3>2
  <2>2. role[u] = "none" /\ \A j \in Invites : Open(j) => invite[j].user # u
    BY <1>2, <1>4 DEF Knows, CreateKnows
  <2> HIDE DEF u
  <2>3. \A x \in Requests : x # r => req[x].pc \notin Locked
    BY <1>2, OneHolder DEF Knows, TypeOK, Locked
  <2>4. CreateKnows' /\ ClaimFits'
    BY <1>1, <2>3 DEF CreateKnows, ClaimFits, Idle, Locked
  <2>5. AcceptKnows'
    BY <1>1, <2>1 DEF Knows, AcceptKnows, Idle
  <2>6. OneOpenInvite' /\ NoInviteForMember'
    BY <1>2, <2>1, <2>2 DEF Knows, OneOpenInvite, NoInviteForMember, Open
  <2> QED BY <2>4, <2>5, <2>6 DEF Learnt
<1> QED BY <1>3, <1>4

\* acceptInvite, with the invite read before the lock: it knows nothing yet of the rest.
LEMMA AcceptStartStep ==
    ASSUME Knows, NEW r \in Requests, NEW i \in Invites, AcceptStart(r, i)
    PROVE  Learnt'
<1>1. /\ req'[r].pc = "accept" /\ req'[r].inv = i /\ req'[r].user = invite[i].user
      /\ \A x \in Requests : x # r => req'[x] = req[x]
  BY DEF AcceptStart, Begin, Idle, Knows, TypeOK
<1>2. role' = role /\ plan' = plan /\ invite' = invite /\ Open(i)
  BY DEF AcceptStart
<1>3. CreateKnows' /\ AcceptKnows'
  BY <1>1, <1>2 DEF Knows, CreateKnows, AcceptKnows, Open
<1>4. ClaimFits'
  BY <1>1, <1>2 DEF Knows, ClaimFits, Members
<1> QED BY <1>2, <1>3, <1>4 DEF Knows, Learnt, OneOpenInvite, NoInviteForMember, Open

\* The pending invites counted beside the members are not less than none.
LEMMA FewerMembers ==
    ASSUME NEW r \in Requests, SeatFree(r), plan \in Plans
    PROVE  Cardinality(Members) < Limit[plan]
<1> DEFINE pending == {i \in Invites : Open(i) /\ invite[i].expires > req[r].at}
<1>1. IsFiniteSet(Invites) /\ IsFiniteSet(Users)
  BY FS_Interval, SeatsAssumption DEF Invites
<1>2. IsFiniteSet(pending) /\ IsFiniteSet(Members)
  BY <1>1, FS_Subset DEF Members
<1> HIDE DEF pending
<1>3. Cardinality(pending) \in Nat /\ Cardinality(Members) \in Nat
  BY <1>2, FS_CardinalityType
<1>4. Cardinality(Members) + Cardinality(pending) < Limit[plan] /\ Limit[plan] \in Nat
  BY SeatsAssumption DEF SeatFree, Seats, pending, Plans
<1> QED BY <1>3, <1>4

\* acceptInvite, past the seat check: it knows the members fit the plan.
LEMMA AcceptAllowedStep ==
    ASSUME Knows, NEW r \in Requests, AcceptAllowed(r)
    PROVE  Learnt'
<1>1. /\ req'[r].pc = "claim" /\ req'[r].inv = req[r].inv /\ req'[r].user = req[r].user
      /\ \A x \in Requests : x # r => req'[x] = req[x]
  BY DEF AcceptAllowed, Knows, TypeOK
<1>2. role' = role /\ plan' = plan /\ invite' = invite /\ req[r].pc = "accept"
  BY DEF AcceptAllowed
<1>3. CreateKnows' /\ AcceptKnows'
  BY <1>1, <1>2 DEF Knows, CreateKnows, AcceptKnows, Open
<1>4. ClaimFits'
  <2>1. Cardinality(Members) < Limit[plan]
    BY FewerMembers DEF AcceptAllowed, AcceptFits, Knows, TypeOK
  <2>2. Members' = Members
    BY <1>2 DEF Members
  <2> QED BY <1>1, <1>2, <2>1, <2>2 DEF Knows, ClaimFits
<1> QED BY <1>2, <1>3, <1>4 DEF Knows, Learnt, OneOpenInvite, NoInviteForMember, Open

\* acceptInvite claims the invite, if still open, and adds the member.
LEMMA AcceptClaimStep ==
    ASSUME Knows, NEW r \in Requests, AcceptClaim(r)
    PROVE  Learnt'
<1> DEFINE i == req[r].inv
           u == req[r].user
<1>1. req'[r] = Idle /\ \A x \in Requests : x # r => req'[x] = req[x]
  BY EndIdle DEF AcceptClaim, Knows
<1>2. plan' = plan /\ i \in Invites /\ u \in Users /\ invite[i].user = u
  BY DEF AcceptClaim, Knows, AcceptKnows, TypeOK
<1>3. CASE ~ Open(i)
  <2>1. role' = role /\ invite' = invite
    BY <1>3 DEF AcceptClaim, Claimable
  <2> QED BY <1>1, <1>2, <2>1, QuietStep DEF Idle, NoneOpens
<1>4. CASE Open(i)
  <2>1. /\ invite' = [invite EXCEPT ![i].state = "accepted"]
        /\ \A v \in Users : v # u => role'[v] = role[v]
    BY <1>4 DEF AcceptClaim, Claimable, Knows, TypeOK
  <2>2. /\ \A j \in Invites : invite'[j].user = invite[j].user
        /\ \A j \in Invites : invite'[j].state = "open" => invite[j].state = "open" /\ j # i
        /\ \A j \in Invites : invite'[j].state = "absent" => invite[j].state = "absent"
    BY <2>1 DEF Knows, TypeOK
  <2>3. \A x \in Requests : x # r => req[x].pc \notin Locked
    BY OneHolder DEF AcceptClaim, Knows, TypeOK, Locked
  <2>4. CreateKnows' /\ ClaimFits'
    BY <1>1, <2>3 DEF CreateKnows, ClaimFits, Idle, Locked
  <2>5. AcceptKnows'
    BY <1>1, <2>2 DEF Knows, AcceptKnows, Idle
  <2>6. OneOpenInvite'
    BY <2>2 DEF Knows, OneOpenInvite, Open
  <2>7. NoInviteForMember'
    <3> SUFFICES ASSUME NEW j \in Invites, invite'[j].state = "open"
                 PROVE  role'[invite[j].user] = "none"
      BY <2>2 DEF NoInviteForMember, Open
    <3>1. Open(j) /\ j # i /\ invite[j].user \in Users
      BY <2>2 DEF Open, Knows, TypeOK
    <3>2. invite[j].user # u
      BY <1>2, <1>4, <3>1 DEF Knows, OneOpenInvite
    <3> QED BY <2>1, <3>1, <3>2 DEF Knows, NoInviteForMember
  <2> QED BY <2>4, <2>5, <2>6, <2>7 DEF Learnt
<1> QED BY <1>3, <1>4

\* Role changes and removals let nobody in.
LEMMA ManageStep ==
    ASSUME Knows, NEW r \in Requests, lock = None, End(r),
           role' \in [Users -> Roles \cup {"none"}],
           \A v \in Users : role[v] = "none" => role'[v] = "none",
           UNCHANGED <<plan, invite>>
    PROVE  Learnt'
<1>1. req'[r] = Idle /\ \A x \in Requests : x # r => req'[x] = req[x]
  BY EndIdle DEF Knows
<1>2. \A x \in Requests : req[x].pc \notin Locked
  BY SeatsAssumption DEF Knows, TypeOK
<1>3. CreateKnows' /\ ClaimFits'
  BY <1>1, <1>2 DEF CreateKnows, ClaimFits, Idle, Locked
<1>4. AcceptKnows'
  BY <1>1 DEF Knows, AcceptKnows, Idle
<1>5. OneOpenInvite' /\ NoInviteForMember'
  BY DEF Knows, OneOpenInvite, NoInviteForMember, Open, TypeOK
<1> QED BY <1>3, <1>4, <1>5 DEF Learnt

\* Every step keeps what the requests know, and the uniqueness of open invites.
LEMMA NextKnows == Knows /\ [Next]_vars => Knows'
<1> SUFFICES ASSUME Knows, [Next]_vars PROVE Learnt'
  BY NextType DEF Knows, Learnt
<1> USE DEF NoneOpens
<1>1. ASSUME NEW r \in Requests, CreateStart(r) PROVE Learnt'
  BY <1>1, QuietStep DEF CreateStart, Begin, Idle, Knows, TypeOK
<1>2. ASSUME NEW r \in Requests, CreateRefused(r) PROVE Learnt'
  BY <1>2, QuietStep, EndIdle DEF CreateRefused, Idle, Knows
<1>3. ASSUME NEW i \in Invites, Revoke(i) PROVE Learnt'
  BY <1>3, QuietStep DEF Revoke, Knows, TypeOK
<1>4. ASSUME NEW i \in Invites, Resend(i) PROVE Learnt'
  BY <1>4, QuietStep DEF Resend, Knows, TypeOK
<1>5. ASSUME NEW r \in Requests, AcceptFull(r) PROVE Learnt'
  BY <1>5, QuietStep, EndIdle DEF AcceptFull, Idle, Knows
<1>6. ASSUME NEW r \in Requests, NEW a \in Users, ManageStart(r, a) PROVE Learnt'
  BY <1>6, QuietStep DEF ManageStart, Begin, Idle, Knows, TypeOK
<1>7. ASSUME NEW r \in Requests, Abort(r) PROVE Learnt'
  BY <1>7, QuietStep, EndIdle DEF Abort, Idle, Knows
<1>8. CASE Tick
  BY <1>8, QuietStep DEF Tick
<1>9. CASE UNCHANGED vars
  BY <1>9, QuietStep DEF vars
<1>10. ASSUME NEW p \in Plans, SetPlan(p) PROVE Learnt'
  <2>1. \A x \in Requests : req[x].pc \notin Locked
    BY <1>10, SeatsAssumption DEF SetPlan, CanLock, Knows, TypeOK
  <2> QED BY <1>10, <2>1
    DEF SetPlan, Learnt, Knows, CreateKnows, AcceptKnows, ClaimFits, OneOpenInvite,
        NoInviteForMember, Open, Locked
<1>11. ASSUME NEW r \in Requests, NEW u \in Users, NEW g \in Roles, ChangeRole(r, u, g)
       PROVE  Learnt'
  <2>1. role' \in [Users -> Roles \cup {"none"}]
    BY <1>11, NextType DEF Knows, TypeOK
  <2>2. \A v \in Users : role[v] = "none" => role'[v] = "none"
    BY <1>11 DEF ChangeRole, Knows, TypeOK
  <2> QED BY <1>11, <2>1, <2>2, ManageStep DEF ChangeRole, CanLock
<1>12. ASSUME NEW r \in Requests, NEW u \in Users, RemoveMember(r, u) PROVE Learnt'
  <2>1. role' \in [Users -> Roles \cup {"none"}]
    BY <1>12, NextType DEF Knows, TypeOK
  <2>2. \A v \in Users : role[v] = "none" => role'[v] = "none"
    BY <1>12 DEF RemoveMember, Knows, TypeOK
  <2> QED BY <1>12, <2>1, <2>2, ManageStep DEF RemoveMember, CanLock
<1>13. ASSUME NEW r \in Requests, ProjectStart(r) PROVE Learnt'
  BY <1>13, QuietStep DEF ProjectStart, Begin, Idle, Knows, TypeOK
<1>14. ASSUME NEW r \in Requests, ProjectAllowed(r) PROVE Learnt'
  BY <1>14, QuietStep DEF ProjectAllowed, Knows, TypeOK
<1>15. ASSUME NEW r \in Requests, ProjectRefused(r) PROVE Learnt'
  BY <1>15, QuietStep, EndIdle DEF ProjectRefused, Idle, Knows
<1>16. ASSUME NEW r \in Requests, ProjectInsert(r) PROVE Learnt'
  BY <1>16, QuietStep, EndIdle DEF ProjectInsert, Idle, Knows
<1>17. CASE ProjectRemove
  BY <1>17, QuietStep DEF ProjectRemove
<1> QED
  BY <1>1, <1>2, <1>3, <1>4, <1>5, <1>6, <1>7, <1>8, <1>9, <1>10, <1>11, <1>12,
     <1>13, <1>14, <1>15, <1>16, <1>17,
     CreateAllowedStep, CreateFindStep, CreateWriteStep, AcceptStartStep,
     AcceptAllowedStep, AcceptClaimStep
  DEF Next, Create, Accept, Manage, AddProject

\* What a request inside its transaction has read of invites and members stays
\* true while it holds the organization's lock (PlanEntitlementsService.lockPlan).
THEOREM KnowsTheorem == Spec => []Knows
  BY InitKnows, NextKnows, PTL DEF Spec

\* An address never has two open invites.
THEOREM OneOpenInviteTheorem == Spec => []OneOpenInvite
<1>1. Knows => OneOpenInvite
  BY DEF Knows
<1> QED BY <1>1, KnowsTheorem, PTL

\* A member never has an open invite.
THEOREM NoInviteForMemberTheorem == Spec => []NoInviteForMember
<1>1. Knows => NoInviteForMember
  BY DEF Knows
<1> QED BY <1>1, KnowsTheorem, PTL

-----------------------------------------------------------------------------
(* How the membership grows.                                               *)

\* A step that makes a member is the claim of an open invite of that user.
LEMMA JoinIsClaim ==
    ASSUME Knows, [Next]_vars, NEW u \in Users, role[u] = "none", role'[u] # "none"
    PROVE  \E r \in Requests :
              /\ req[r].pc = "claim" /\ AcceptClaim(r)
              /\ req[r].user = u /\ Open(req[r].inv)
<1>1. \A r \in Requests, v \in Users, g \in Roles : ChangeRole(r, v, g) => role'[u] = "none"
  BY DEF ChangeRole, Knows, TypeOK
<1>2. \A r \in Requests, v \in Users : RemoveMember(r, v) => role'[u] = "none"
  BY DEF RemoveMember, Knows, TypeOK
<1>3. PICK r \in Requests : AcceptClaim(r)
  BY <1>1, <1>2, RoleStable
<1>4. req[r].pc = "claim" /\ req[r].user = u /\ Open(req[r].inv)
  BY <1>3 DEF AcceptClaim, Claimable, Knows, TypeOK
<1> QED BY <1>3, <1>4

\* A claim adds a member only within the plan's limit.
LEMMA MembersFit ==
    ASSUME Knows, [Next]_vars, ~ (Members' \subseteq Members)
    PROVE  Cardinality(Members') <= Limit[plan']
<1>1. PICK u \in Users : role[u] = "none" /\ role'[u] # "none"
  BY DEF Members
<1>2. PICK r \in Requests : req[r].pc = "claim" /\ AcceptClaim(r) /\ req[r].user = u
  BY <1>1, JoinIsClaim
<1>3. Members' = Members \cup {u} /\ u \notin Members /\ plan' = plan
  BY <1>1, <1>2 DEF AcceptClaim, Members, Knows, TypeOK
<1>4. IsFiniteSet(Members)
  BY SeatsAssumption, FS_Subset DEF Members
<1>5. Cardinality(Members') = Cardinality(Members) + 1 /\ Cardinality(Members) \in Nat
  BY <1>3, <1>4, FS_AddElement, FS_CardinalityType
<1>6. Cardinality(Members) < Limit[plan] /\ Limit[plan] \in Nat
  BY <1>2, SeatsAssumption DEF Knows, ClaimFits, TypeOK, Plans
<1> QED BY <1>3, <1>5, <1>6

\* The project it counted for is still within the plan.
InsertFits == \A r \in Requests : req[r].pc = "insert" => ProjectFits

\* The operations that leave the projects and the plan alone put nobody where
\* a project is inserted.
LEMMA ProjectsStable ==
    ASSUME TypeOK, [Next]_vars
    PROVE  \/ /\ plan' = plan /\ projects' = projects
              /\ \A x \in Requests : req'[x].pc = "insert" => req[x].pc = "insert"
           \/ \E r \in Requests : ProjectAllowed(r) \/ ProjectInsert(r)
           \/ \E p \in Plans : SetPlan(p)
           \/ ProjectRemove
<1> DEFINE Quiet == /\ plan' = plan /\ projects' = projects
                    /\ \A x \in Requests : req'[x].pc = "insert" => req[x].pc = "insert"
<1>0. ASSUME NEW r \in Requests, End(r)
      PROVE  \A x \in Requests : req'[x].pc = "insert" => req[x].pc = "insert"
  BY <1>0, EndIdle DEF Idle
<1>1. ASSUME NEW r \in Requests, Create(r) PROVE Quiet
  <2>1. CASE CreateStart(r)
    BY <2>1 DEF CreateStart, Begin, Idle, TypeOK
  <2>2. ASSUME NEW u \in Users, CreateAllowed(r, u) PROVE Quiet
    BY <2>2 DEF CreateAllowed, TypeOK
  <2>3. CASE CreateRefused(r)
    BY <1>0, <2>3 DEF CreateRefused
  <2>4. CASE CreateFind(r)
    BY <2>4 DEF CreateFind, TypeOK
  <2>5. ASSUME NEW g \in Roles, CreateWrite(r, g) PROVE Quiet
    BY <1>0, <2>5 DEF CreateWrite
  <2> QED BY <1>1, <2>1, <2>2, <2>3, <2>4, <2>5 DEF Create
<1>2. ASSUME NEW r \in Requests, Accept(r) PROVE Quiet
  <2>1. ASSUME NEW i \in Invites, AcceptStart(r, i) PROVE Quiet
    BY <2>1 DEF AcceptStart, Begin, Idle, TypeOK
  <2>2. CASE AcceptAllowed(r)
    BY <2>2 DEF AcceptAllowed, TypeOK
  <2>3. CASE AcceptFull(r) \/ AcceptClaim(r)
    BY <1>0, <2>3 DEF AcceptFull, AcceptClaim
  <2> QED BY <1>2, <2>1, <2>2, <2>3 DEF Accept
<1>3. ASSUME NEW r \in Requests, Manage(r) PROVE Quiet
  <2>1. ASSUME NEW a \in Users, ManageStart(r, a) PROVE Quiet
    BY <2>1 DEF ManageStart, Begin, Idle, TypeOK
  <2>2. ASSUME NEW u \in Users, NEW g \in Roles, ChangeRole(r, u, g) PROVE Quiet
    BY <1>0, <2>2 DEF ChangeRole
  <2>3. ASSUME NEW u \in Users, RemoveMember(r, u) PROVE Quiet
    BY <1>0, <2>3 DEF RemoveMember
  <2> QED BY <1>3, <2>1, <2>2, <2>3 DEF Manage
<1>4. ASSUME NEW r \in Requests, ProjectStart(r) \/ ProjectRefused(r) \/ Abort(r) PROVE Quiet
  BY <1>0, <1>4 DEF ProjectStart, ProjectRefused, Abort, Begin, Idle, TypeOK
<1>5. ASSUME NEW i \in Invites, Revoke(i) \/ Resend(i) PROVE Quiet
  BY <1>5 DEF Revoke, Resend
<1>6. CASE Tick \/ UNCHANGED vars
  BY <1>6 DEF Tick, vars
<1> QED BY <1>1, <1>2, <1>3, <1>4, <1>5, <1>6 DEF Next, AddProject

\* What a project's transaction counted stays true while it holds the lock.
LEMMA InsertStep == TypeOK /\ InsertFits /\ [Next]_vars => InsertFits'
<1> SUFFICES ASSUME TypeOK, InsertFits, [Next]_vars PROVE InsertFits'
  OBVIOUS
<1>0. projects \in Nat /\ (ProjectLimit[plan] # None => ProjectLimit[plan] \in Nat)
  BY SeatsAssumption DEF TypeOK, Plans
<1>1. CASE /\ plan' = plan /\ projects' = projects
           /\ \A x \in Requests : req'[x].pc = "insert" => req[x].pc = "insert"
  BY <1>1 DEF InsertFits, ProjectFits
<1>2. ASSUME NEW r \in Requests, ProjectAllowed(r) PROVE InsertFits'
  BY <1>2 DEF ProjectAllowed, InsertFits, ProjectFits
<1>3. ASSUME NEW r \in Requests, ProjectInsert(r) PROVE InsertFits'
  <2>1. req'[r].pc = "idle" /\ \A x \in Requests : x # r => req'[x] = req[x]
    BY <1>3, EndIdle DEF ProjectInsert, Idle
  <2>2. \A x \in Requests : x # r => req[x].pc \notin Locked
    BY <1>3, OneHolder DEF ProjectInsert, TypeOK, Locked
  <2> QED BY <2>1, <2>2 DEF InsertFits, Locked
<1>4. ASSUME NEW p \in Plans, SetPlan(p) PROVE InsertFits'
  <2>1. \A x \in Requests : req[x].pc # "insert"
    BY <1>4, SeatsAssumption DEF SetPlan, CanLock, TypeOK, Locked
  <2> QED BY <1>4, <2>1 DEF SetPlan, InsertFits
<1>5. CASE ProjectRemove
  BY <1>0, <1>5 DEF ProjectRemove, InsertFits, ProjectFits
<1> QED BY <1>1, <1>2, <1>3, <1>4, <1>5, ProjectsStable

\* A project is added only within the plan's limit.
LEMMA ProjectsFit ==
    ASSUME TypeOK, InsertFits, [Next]_vars, projects' > projects, ProjectLimit[plan'] # None
    PROVE  projects' <= ProjectLimit[plan']
<1>1. projects \in Nat /\ (ProjectLimit[plan] # None => ProjectLimit[plan] \in Nat)
  BY SeatsAssumption DEF TypeOK, Plans
<1>2. PICK r \in Requests : ProjectInsert(r)
  BY <1>1, ProjectsStable DEF ProjectAllowed, SetPlan, ProjectRemove
<1> QED BY <1>1, <1>2 DEF ProjectInsert, InsertFits, ProjectFits

\* A member or a project is added only within the plan's limits.
THEOREM GrowthTheorem == Spec => GrowthFits
<1>1. Init => InsertFits
  BY DEF Init, Idle, InsertFits
<1>2. Knows => TypeOK
  BY DEF Knows
<1>3. Knows /\ InsertFits /\ [Next]_vars =>
         [/\ ~ (Members' \subseteq Members) => Cardinality(Members') <= Limit[plan']
          /\ projects' > projects /\ ProjectLimit[plan'] # None =>
                projects' <= ProjectLimit[plan']]_vars
  BY <1>2, MembersFit, ProjectsFit
<1> QED BY <1>1, <1>2, <1>3, InsertStep, KnowsTheorem, PTL DEF Spec, GrowthFits

\* Nobody joins by an invite that was revoked or used before.
THEOREM JoinTheorem == Spec => JoinsByOpenInvite
<1>1. Knows /\ [Next]_vars =>
         [\A u \in Members' \ Members : \E i \in Invites :
             Open(i) /\ invite[i].user = u /\ invite'[i].state = "accepted"]_vars
  <2> SUFFICES ASSUME Knows, [Next]_vars, NEW u \in Members' \ Members
               PROVE  \E i \in Invites :
                         Open(i) /\ invite[i].user = u /\ invite'[i].state = "accepted"
    OBVIOUS
  <2>1. u \in Users /\ role[u] = "none" /\ role'[u] # "none"
    BY DEF Members
  <2>2. PICK r \in Requests : /\ req[r].pc = "claim" /\ AcceptClaim(r)
                              /\ req[r].user = u /\ Open(req[r].inv)
    BY <2>1, JoinIsClaim
  <2>3. req[r].inv \in Invites /\ invite[req[r].inv].user = u
    BY <2>2 DEF Knows, AcceptKnows
  <2>4. invite'[req[r].inv].state = "accepted"
    BY <2>2, <2>3 DEF AcceptClaim, Claimable, Knows, TypeOK
  <2> QED BY <2>2, <2>3, <2>4
<1> QED BY <1>1, KnowsTheorem, PTL DEF Spec, JoinsByOpenInvite
=============================================================================
