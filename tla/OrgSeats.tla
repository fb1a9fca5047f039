------------------------------ MODULE OrgSeats ------------------------------
(***************************************************************************)
(* The members of one organization, their invites and its projects         *)
(* (apps/api/src/modules/invites, modules/organizations, modules/projects):*)
(* invites are created, resent, revoked and accepted, members change role  *)
(* or leave, projects come and go, and somebody changes the plan, all at   *)
(* once.  A transaction that counts seats, owners or projects holds the    *)
(* organization's row (SELECT ... FOR UPDATE); revoking, resending and     *)
(* deleting a project take no lock.  A statement sees what is committed    *)
(* when it runs (READ COMMITTED).                                          *)
(***************************************************************************)
EXTENDS Naturals, FiniteSets

CONSTANTS
    Users,       \* each with an address of its own
    Founder,     \* the user whose first visit made the organization
    Requests,    \* requests the API serves at once
    Limit,       \* plan -> PLAN_LIMITS[plan].members
    ProjectLimit, \* plan -> PLAN_LIMITS[plan].projects, None for no limit
    MaxInvites,  \* bound: invite rows
    MaxProjects, \* bound: projects
    MaxTime,     \* bound: the clock
    None

ASSUME SeatsAssumption ==
    /\ IsFiniteSet(Users) /\ Founder \in Users /\ None \notin Requests
    /\ \A p \in DOMAIN Limit : Limit[p] \in Nat \ {0}
    /\ \A p \in DOMAIN Limit : ProjectLimit[p] = None \/ ProjectLimit[p] \in Nat
    /\ MaxInvites \in Nat /\ MaxProjects \in Nat /\ MaxTime \in Nat

Plans    == DOMAIN Limit
Invites  == 1 .. MaxInvites
Roles    == {"owner", "admin", "member"}
Managers == {"owner", "admin"}
Ttl      == 1                    \* INVITE_TTL_MS

VARIABLES
    plan,    \* organization.plan
    role,    \* user -> role of the org_member row, "none" without one
    invite,  \* org_invite rows; a row not yet created is "absent"
    projects, \* how many project rows the organization has
    lock,    \* the request whose transaction holds the organization's row
    req,     \* request -> its step and what it has read
    now

vars == <<plan, role, invite, projects, lock, req, now>>

Idle   == [pc |-> "idle", user |-> Founder, role |-> "member", by |-> "owner", inv |-> 0, at |-> 0]
Absent == [state |-> "absent", user |-> Founder, role |-> "member", expires |-> 0]

Members == {u \in Users : role[u] # "none"}
Owners  == {u \in Users : role[u] = "owner"}
Open(i) == invite[i].state = "open"

----------------------------------------------------------------------------
(* PlanEntitlementsService                                                 *)

\* Mutant: lockPlan reads the plan without FOR UPDATE.
NoLock == TRUE
\* SELECT ... FOR UPDATE waits for the transaction that holds the row.
CanLock == lock = None

\* countSeats, with the clock the request read when it began.
Seats(r) == Cardinality(Members)
            + Cardinality({i \in Invites : Open(i) /\ invite[i].expires > req[r].at})

SeatFree(r) == Seats(r) < Limit[plan]

\* Mutant: an accepted invite is not counted again.
AcceptUnchecked(r) == TRUE
\* acceptInvite asks as createInvite does: the invite at hand counts too.
AcceptFits(r) == SeatFree(r)

----------------------------------------------------------------------------
(* InvitesService.createInvite                                             *)

\* Mutant: the expiry is counted twice.
LateExpiry(t) == t + 2 * Ttl
Expiry(t) == t + Ttl

Begin(r, rec) == req[r].pc = "idle" /\ req' = [req EXCEPT ![r] = rec]
End(r) == req' = [req EXCEPT ![r] = Idle] /\ lock' = IF lock = r THEN None ELSE lock

\* The address and the role asked for are chosen when they are first used.
CreateStart(r) ==
    /\ \E a \in Users : role[a] \in Managers
    /\ Begin(r, [Idle EXCEPT !.pc = "create", !.at = now])
    /\ UNCHANGED <<plan, role, invite, projects, lock, now>>

\* Mutant: nobody looks for a member with that address.
InvitesAnyone(u) == TRUE
\* No member has the address.
Invitable(u) == role[u] = "none"

CreateAllowed(r, u) ==
    /\ req[r].pc = "create" /\ CanLock
    /\ SeatFree(r) /\ Invitable(u)
    /\ lock' = r /\ req' = [req EXCEPT ![r].pc = "find", ![r].user = u]
    /\ UNCHANGED <<plan, role, invite, projects, now>>

CreateRefused(r) ==
    /\ req[r].pc = "create" /\ CanLock
    /\ \E u \in Users : ~ (SeatFree(r) /\ Invitable(u))
    /\ End(r)
    /\ UNCHANGED <<plan, role, invite, projects, now>>

\* The address's open invite, expired or not, is refreshed; 0: none is open.
CreateFind(r) ==
    /\ req[r].pc = "find"
    /\ LET open == {i \in Invites : Open(i) /\ invite[i].user = req[r].user}
       IN  \E i \in IF open = {} THEN {0} ELSE open :
               req' = [req EXCEPT ![r].pc = "write", ![r].inv = i]
    /\ UNCHANGED <<plan, role, invite, projects, lock, now>>

\* The update is by id alone: a row revoked meanwhile stays revoked.
CreateWrite(r, g) ==
    /\ req[r].pc = "write"
    /\ IF req[r].inv = 0
       THEN \E i \in Invites :
                /\ invite[i].state = "absent"
                /\ \A j \in Invites : j < i => invite[j].state # "absent"
                /\ invite' = [invite EXCEPT ![i] =
                       [state |-> "open", user |-> req[r].user, role |-> g,
                        expires |-> Expiry(req[r].at)]]
       ELSE invite' = [invite EXCEPT ![req[r].inv].role = g,
                                     ![req[r].inv].expires = Expiry(req[r].at)]
    /\ End(r)
    /\ UNCHANGED <<plan, role, projects, now>>

----------------------------------------------------------------------------
(* revokeInvite, resendInvite: one conditional update each.                *)

Revoke(i) ==
    /\ Open(i)
    /\ invite' = [invite EXCEPT ![i].state = "revoked"]
    /\ UNCHANGED <<plan, role, projects, lock, req, now>>

\* No seat is counted: an expired invite takes one again.
Resend(i) ==
    /\ Open(i)
    /\ invite' = [invite EXCEPT ![i].expires = Expiry(now)]
    /\ UNCHANGED <<plan, role, projects, lock, req, now>>

----------------------------------------------------------------------------
(* acceptInvite                                                            *)

\* The invite is read before the organization is locked.
AcceptStart(r, i) ==
    /\ Open(i) /\ invite[i].expires > now
    /\ Begin(r, [Idle EXCEPT !.pc = "accept", !.user = invite[i].user,
                             !.role = invite[i].role, !.inv = i, !.at = now])
    /\ UNCHANGED <<plan, role, invite, projects, lock, now>>

AcceptAllowed(r) ==
    /\ req[r].pc = "accept" /\ CanLock
    /\ AcceptFits(r)
    /\ lock' = r /\ req' = [req EXCEPT ![r].pc = "claim"]
    /\ UNCHANGED <<plan, role, invite, projects, now>>

AcceptFull(r) ==
    /\ req[r].pc = "accept" /\ CanLock
    /\ ~ AcceptFits(r)
    /\ End(r)
    /\ UNCHANGED <<plan, role, invite, projects, now>>

\* Mutant: the claim is an update by id.
ClaimsAny(i) == TRUE
\* The claim is conditional: revoked or accepted meanwhile, it finds no row.
Claimable(i) == Open(i)

AcceptClaim(r) ==
    /\ req[r].pc = "claim"
    /\ LET i == req[r].inv  u == req[r].user
       IN  IF Claimable(i)
           THEN /\ invite' = [invite EXCEPT ![i].state = "accepted"]
                /\ role' = [role EXCEPT ![u] = IF @ = "none" THEN req[r].role ELSE @]
           ELSE UNCHANGED <<invite, role>>
    /\ End(r)
    /\ UNCHANGED <<plan, projects, now>>

----------------------------------------------------------------------------
(* MembersService; the caller's role is the one its guard read, and the    *)
(* member and the role asked for are chosen when they are used.            *)

ManageStart(r, a) ==
    /\ role[a] \in Managers
    /\ Begin(r, [Idle EXCEPT !.pc = "manage", !.by = role[a]])
    /\ UNCHANGED <<plan, role, invite, projects, lock, now>>

\* Mutant: the last owner counts as enough.
OwnersFew == Cardinality(Owners) = 0
LastOwner == Cardinality(Owners) <= 1

ChangeRole(r, u, g) ==
    /\ req[r].pc = "manage" /\ CanLock
    /\ role' = IF \/ role[u] = "none"
                  \/ "owner" \in {role[u], g} /\ req[r].by # "owner"
                  \/ role[u] = "owner" /\ g # "owner" /\ LastOwner
               THEN role ELSE [role EXCEPT ![u] = g]
    /\ End(r)
    /\ UNCHANGED <<plan, invite, projects, now>>

RemoveMember(r, u) ==
    /\ req[r].pc = "manage" /\ CanLock
    /\ role' = IF role[u] = "owner" /\ (req[r].by # "owner" \/ LastOwner)
               THEN role ELSE [role EXCEPT ![u] = "none"]
    /\ End(r)
    /\ UNCHANGED <<plan, invite, projects, now>>

----------------------------------------------------------------------------
(* ProjectsService: any member creates a project, a manager deletes one.   *)

\* A plan without a limit is not counted against.
ProjectFits == ProjectLimit[plan] # None => projects < ProjectLimit[plan]

ProjectStart(r) ==
    /\ Begin(r, [Idle EXCEPT !.pc = "add"])
    /\ UNCHANGED <<plan, role, invite, projects, lock, now>>

ProjectAllowed(r) ==
    /\ req[r].pc = "add" /\ CanLock
    /\ ProjectFits
    /\ lock' = r /\ req' = [req EXCEPT ![r].pc = "insert"]
    /\ UNCHANGED <<plan, role, invite, projects, now>>

ProjectRefused(r) ==
    /\ req[r].pc = "add" /\ CanLock
    /\ ~ ProjectFits
    /\ End(r)
    /\ UNCHANGED <<plan, role, invite, projects, now>>

\* With a connection of another organization, or a name that is taken, the
\* transaction leaves nothing behind: Abort.
ProjectInsert(r) ==
    /\ req[r].pc = "insert" /\ projects < MaxProjects
    /\ projects' = projects + 1
    /\ End(r)
    /\ UNCHANGED <<plan, role, invite, now>>

ProjectRemove ==
    /\ \E a \in Users : role[a] \in Managers
    /\ projects > 0
    /\ projects' = projects - 1
    /\ UNCHANGED <<plan, role, invite, lock, req, now>>

----------------------------------------------------------------------------
(* The rest of the system                                                  *)

\* An operator updates the plan, which waits for the row's lock too.
SetPlan(p) ==
    /\ p # plan /\ CanLock
    /\ plan' = p
    /\ UNCHANGED <<role, invite, projects, lock, req, now>>

\* A query fails or the connection is lost: the transaction is rolled back.
Abort(r) ==
    /\ req[r].pc # "idle"
    /\ End(r)
    /\ UNCHANGED <<plan, role, invite, projects, now>>

Tick ==
    /\ now < MaxTime
    /\ now' = now + 1
    /\ UNCHANGED <<plan, role, invite, projects, lock, req>>

----------------------------------------------------------------------------
Init ==
    /\ plan \in Plans
    /\ role = [u \in Users |-> IF u = Founder THEN "owner" ELSE "none"]
    /\ invite = [i \in Invites |-> Absent]
    /\ projects = 0
    /\ lock = None
    /\ req = [r \in Requests |-> Idle]
    /\ now = 0

Create(r) ==
    \/ CreateStart(r) \/ CreateRefused(r) \/ CreateFind(r)
    \/ \E u \in Users : CreateAllowed(r, u)
    \/ \E g \in Roles \ {"owner"} : CreateWrite(r, g)

Accept(r) ==
    \/ \E i \in Invites : AcceptStart(r, i)
    \/ AcceptAllowed(r) \/ AcceptFull(r) \/ AcceptClaim(r)

Manage(r) ==
    \/ \E a \in Users : ManageStart(r, a)
    \/ \E u \in Users, g \in Roles : ChangeRole(r, u, g)
    \/ \E u \in Users : RemoveMember(r, u)

AddProject(r) == ProjectStart(r) \/ ProjectAllowed(r) \/ ProjectRefused(r) \/ ProjectInsert(r)

Next ==
    \/ \E r \in Requests : Create(r) \/ Accept(r) \/ Manage(r) \/ AddProject(r) \/ Abort(r)
    \/ \E i \in Invites : Revoke(i) \/ Resend(i)
    \/ \E p \in Plans : SetPlan(p)
    \/ ProjectRemove
    \/ Tick

Spec == Init /\ [][Next]_vars

----------------------------------------------------------------------------
(* Properties                                                              *)

Steps  == {"idle", "create", "find", "write", "accept", "claim", "manage", "add", "insert"}
Locked == {"find", "write", "claim", "insert"}

\* Types; an invite never outlives its time to live, and the lock is held by
\* exactly the request that is inside its transaction.
TypeOK ==
    /\ plan \in Plans /\ now \in 0 .. MaxTime
    /\ projects \in 0 .. MaxProjects
    /\ role \in [Users -> Roles \cup {"none"}]
    /\ invite \in [Invites -> [state : {"absent", "open", "revoked", "accepted"},
                               user : Users, role : Roles, expires : 0 .. MaxTime + Ttl]]
    /\ req \in [Requests -> [pc : Steps, user : Users, role : Roles, by : Managers,
                             inv : {0} \cup Invites, at : 0 .. MaxTime]]
    /\ lock \in Requests \cup {None}
    /\ \A r \in Requests : lock = r <=> req[r].pc \in Locked

\* No interleaving of role changes and removals, by owners who may have lost
\* their role since, leaves the organization without an owner.
OwnerRemains == Owners # {}

\* An address has one open invite at most, whoever invites it at once: an
\* older one still open would be a second way in.
OneOpenInvite ==
    \A i, j \in Invites : Open(i) /\ Open(j) /\ invite[i].user = invite[j].user => i = j

\* Nobody who is a member already has an open invite, which could bring a
\* removed member back.
NoInviteForMember == \A i \in Invites : Open(i) => role[invite[i].user] = "none"

\* A member or a project is added only within the limits of the plan of that
\* moment, after a downgrade or an expired invite's revival too.
GrowthFits ==
    [][/\ ~ (Members' \subseteq Members) => Cardinality(Members') <= Limit[plan']
       /\ projects' > projects /\ ProjectLimit[plan'] # None =>
             projects' <= ProjectLimit[plan']]_vars

\* A user becomes a member only by an invite that was open until that step:
\* a revocation that answered ok is never overtaken.
JoinsByOpenInvite ==
    [][\A u \in Members' \ Members : \E i \in Invites :
          Open(i) /\ invite[i].user = u /\ invite'[i].state = "accepted"]_vars

\* invites.controller.ts:60 tells who is refused: the organization has
\* reached the member limit for its plan.
RefusedAtTheLimit ==
    [][\A r \in Requests : AcceptFull(r) => Cardinality(Members) >= Limit[plan]]_vars
=============================================================================
