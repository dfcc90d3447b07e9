----------------------------- MODULE SeatLimits -----------------------------
(***************************************************************************)
(* The plan's limits on users and branches (assertCanCreateUser,           *)
(* assertCanCreateBranch) and the requests they gate: creating, updating   *)
(* and deleting staff accounts, creating branches from the studio, and the *)
(* platform's own branch creation, which raises the limit first.  Every    *)
(* awaited database call is a step: the limit, the usage and the row to    *)
(* write are three different moments.                                      *)
(***************************************************************************)
EXTENDS Integers, FiniteSets

CONSTANTS
  Clients,        \* slots for concurrent requests of the studio
  Platforms,      \* slots for concurrent requests of the platform owner; a slot
                  \* in both serves either, one at a time
  UserIds,        \* staff accounts, existing or to be created
  BranchIds,      \* branches, existing or to be created
  Owner,          \* the account provisioning creates
  HomeBranch,     \* the branch provisioning creates
  OfficeRole,     \* stands for every role that takes a seat
  CreatedAs,      \* the role each account is created with; an id is not used twice
  RolePatches,    \* what an account update may send as the role
  RaiseChoices,   \* what the platform may send as raiseLimitIfNeeded
  InitialPlan,    \* status and effective limits when the model starts
  PlanPatches,    \* [field, value] pairs the platform may save
  Null,           \* the database's null
  Absent          \* a JavaScript undefined: the field was not sent

Requests == Clients \cup Platforms
Mechanic == "MECHANIC"
Roles    == {OfficeRole, Mechanic}
Limit    == Nat \cup {Null}
Account  == [role : Roles, active : BOOLEAN]

\* status, effectiveMaxUsers and effectiveMaxBranches of the subscription row.
SubStatus == {"ACTIVE", "PAST_DUE", "EXPIRED", "CANCELLED", "TRIAL"}

Plan == [status : SubStatus, maxUsers : Limit, maxBranches : Limit]

ASSUME SeatAssumption ==
  /\ IsFiniteSet(Clients) /\ IsFiniteSet(UserIds) /\ IsFiniteSet(BranchIds)
  /\ Owner \in UserIds /\ HomeBranch \in BranchIds
  /\ OfficeRole # Mechanic
  /\ CreatedAs \in [UserIds -> Roles] /\ CreatedAs[Owner] = OfficeRole
  /\ RolePatches \subseteq Roles \cup {Absent}
  /\ RaiseChoices \subseteq BOOLEAN
  /\ InitialPlan \in Plan
  /\ \A patch \in PlanPatches :
       \/ patch[1] = "status" /\ patch[2] \in SubStatus
       \/ patch[1] \in {"maxUsers", "maxBranches"} /\ patch[2] \in Limit
  /\ Null \notin Nat /\ Null \notin Account
  /\ Absent \notin Roles /\ Absent \notin BOOLEAN /\ Absent \notin BranchIds

VARIABLES
  users,     \* User rows: an account, or Null where there is none
  branches,  \* Branch rows
  plan,      \* what the subscription row says
  pc,        \* per request: the awaited call it is about to make
  body,      \* per request: what the client sent
  copy       \* per request: its copy of the subscription row

vars == <<users, branches, plan, pc, body, copy>>
rows == <<users, branches, plan>>

-----------------------------------------------------------------------------
\* countActiveUsersForOrg: mechanics take no seat.
TakesSeat(row) == row # Null /\ row.active /\ row.role # Mechanic

SeatHolders == {u \in UserIds : TakesSeat(users[u])}

\* Mutant: one more than the limit.
WithinLimit_OffByOne(used, max) == max = Null \/ used <= max

\* canCreateWithLimit
WithinLimit(used, max) == max = Null \/ used < max

\* Whether a row that is switched on must pass the user gate.
Gated(active, role) == active /\ role # Mechanic

\* Mutant: a field that was not sent is saved too.
Sent_Always(field, old) == field

\* A PATCH field that was not sent keeps its value.
Sent(field, old) == IF field = Absent THEN old ELSE field

Idle(p) == pc[p] = "idle"

Goto(p, s) == pc' = [pc EXCEPT ![p] = s]

Done(p) ==
  /\ pc'   = [pc EXCEPT ![p] = "idle"]
  /\ body' = [body EXCEPT ![p] = Null]
  /\ copy' = [copy EXCEPT ![p] = Null]

\* provisionOrganization: one branch, one active owner.
Init ==
  /\ users = [u \in UserIds |->
                IF u = Owner THEN [role |-> CreatedAs[u], active |-> TRUE] ELSE Null]
  /\ branches = {HomeBranch}
  /\ plan = InitialPlan
  /\ pc   = [p \in Requests |-> "idle"]
  /\ body = [p \in Requests |-> Null]
  /\ copy = [p \in Requests |-> Null]

-----------------------------------------------------------------------------
(* Staff accounts *)

UserCreate(c, u, active) ==
  /\ Idle(c)
  /\ body' = [body EXCEPT ![c] = [create |-> TRUE, user |-> u,
                                  role |-> CreatedAs[u], active |-> active]]
  /\ Goto(c, IF Gated(active, CreatedAs[u]) THEN "user.limit" ELSE "user.write")
  /\ UNCHANGED <<rows, copy>>

\* The gate is asked only when the account was inactive and becomes active.
UserUpdate(c, u, role, active) ==
  LET current == users[u]
      gated   == /\ ~current.active
                 /\ Gated(Sent(active, current.active), Sent(role, current.role))
  IN  /\ Idle(c)
      /\ current # Null
      /\ body' = [body EXCEPT ![c] = [create |-> FALSE, user |-> u,
                                      role |-> role, active |-> active]]
      /\ Goto(c, IF gated THEN "user.limit" ELSE "user.write")
      /\ UNCHANGED <<rows, copy>>

UserLimit(c) ==
  /\ pc[c] = "user.limit"
  /\ copy' = [copy EXCEPT ![c] = plan]
  /\ Goto(c, "user.count")
  /\ UNCHANGED <<rows, body>>

UserCount(c) ==
  /\ pc[c] = "user.count"
  /\ IF WithinLimit(Cardinality(SeatHolders), copy[c].maxUsers)
     THEN Goto(c, "user.write") /\ UNCHANGED <<body, copy>>
     ELSE Done(c)
  /\ UNCHANGED rows

\* The insert fails on a taken id, the update on a missing one.
UserWrite(c) ==
  LET u == body[c].user
  IN  /\ pc[c] = "user.write"
      /\ \/ /\ body[c].create
            /\ users[u] = Null
            /\ users' = [users EXCEPT ![u] = [role |-> body[c].role,
                                              active |-> body[c].active]]
         \/ /\ ~body[c].create
            /\ users[u] # Null
            /\ users' = [users EXCEPT ![u] =
                           [role   |-> Sent(body[c].role, users[u].role),
                            active |-> Sent(body[c].active, users[u].active)]]
         \/ /\ body[c].create <=> users[u] # Null
            /\ UNCHANGED users
      /\ Done(c)
      /\ UNCHANGED <<branches, plan>>

UserDelete(c, u) ==
  /\ Idle(c)
  /\ users[u] # Null
  /\ users' = [users EXCEPT ![u] = Null]
  /\ UNCHANGED <<branches, plan, pc, body, copy>>

-----------------------------------------------------------------------------
(* Branches *)

\* upsertBranchApi: an existing branch is only updated.
BranchCreate(c, b) ==
  /\ Idle(c)
  /\ body' = [body EXCEPT ![c] = [branch |-> b]]
  /\ Goto(c, IF b \in branches THEN "branch.write" ELSE "branch.limit")
  /\ UNCHANGED <<rows, copy>>

BranchLimit(c) ==
  /\ pc[c] = "branch.limit"
  /\ copy' = [copy EXCEPT ![c] = plan]
  /\ Goto(c, "branch.count")
  /\ UNCHANGED <<rows, body>>

\* canCreateBranch of toEntitlement
BranchCount(c) ==
  /\ pc[c] = "branch.count"
  /\ IF /\ copy[c].status \in {"ACTIVE", "PAST_DUE"}
        /\ WithinLimit(Cardinality(branches), copy[c].maxBranches)
     THEN Goto(c, "branch.write") /\ UNCHANGED <<body, copy>>
     ELSE Done(c)
  /\ UNCHANGED rows

BranchWrite(p) ==
  /\ pc[p] = "branch.write"
  /\ branches' = branches \cup {body[p].branch}
  /\ Done(p)
  /\ UNCHANGED <<users, plan>>

\* The row goes; what may block the deletion of a branch is not looked at here.
BranchDelete(c, b) ==
  /\ Idle(c)
  /\ b \in branches
  /\ branches' = branches \ {b}
  /\ UNCHANGED <<users, plan, pc, body, copy>>

-----------------------------------------------------------------------------
(* The platform owner *)

\* postPlatformOrganizationBranch; the gate itself is skipped.
GrantBegin(p, b, raise) ==
  /\ Idle(p)
  /\ body' = [body EXCEPT ![p] = [branch |-> b]]
  /\ Goto(p, IF raise THEN "grant.limit" ELSE "branch.write")
  /\ UNCHANGED <<rows, copy>>

GrantLimit(p) ==
  /\ pc[p] = "grant.limit"
  /\ copy' = [copy EXCEPT ![p] = plan]
  /\ Goto(p, "grant.count")
  /\ UNCHANGED <<rows, body>>

\* Mutant: the limit is not raised when it is just reached.
GrantCount_OffByOne(p) ==
  LET used == Cardinality(branches)
      max  == copy[p].maxBranches
  IN  /\ pc[p] = "grant.count"
      /\ \/ /\ max # Null /\ used > max
            /\ body' = [body EXCEPT ![p] = [branch |-> body[p].branch,
                                            field |-> "maxBranches", value |-> used + 1]]
            /\ Goto(p, "plan.read")
         \/ /\ max = Null \/ used <= max
            /\ Goto(p, "branch.write")
            /\ UNCHANGED body
      /\ UNCHANGED <<rows, copy>>

GrantCount(p) ==
  LET used == Cardinality(branches)
      max  == copy[p].maxBranches
  IN  /\ pc[p] = "grant.count"
      /\ \/ /\ ~WithinLimit(used, max)
            /\ body' = [body EXCEPT ![p] = [branch |-> body[p].branch,
                                            field |-> "maxBranches", value |-> used + 1]]
            /\ Goto(p, "plan.read")
         \/ /\ WithinLimit(used, max)
            /\ Goto(p, "branch.write")
            /\ UNCHANGED body
      /\ UNCHANGED <<rows, copy>>

\* patchOrganizationSubscription, from the platform's subscription form.
PlanPatchBegin(p, field, value) ==
  /\ Idle(p)
  /\ body' = [body EXCEPT ![p] = [branch |-> Absent, field |-> field, value |-> value]]
  /\ Goto(p, "plan.read")
  /\ UNCHANGED <<rows, copy>>

PlanRead(p) ==
  /\ pc[p] = "plan.read"
  /\ copy' = [copy EXCEPT ![p] = plan]
  /\ Goto(p, "plan.write")
  /\ UNCHANGED <<rows, body>>

\* Every column is written back, from the copy where it was not sent.
PlanWrite(p) ==
  /\ pc[p] = "plan.write"
  /\ plan' = [copy[p] EXCEPT ![body[p].field] = body[p].value]
  /\ IF body[p].branch = Absent
     THEN Done(p)
     ELSE Goto(p, "branch.write") /\ UNCHANGED <<body, copy>>
  /\ UNCHANGED <<users, branches>>

-----------------------------------------------------------------------------
\* The request is cut off between two awaits, or refused for another reason.
Abandon(p) ==
  /\ ~Idle(p)
  /\ Done(p)
  /\ UNCHANGED rows

UserStep(c) ==
  \/ \E u \in UserIds, active \in BOOLEAN : UserCreate(c, u, active)
  \/ \E u \in UserIds, role \in RolePatches, active \in BOOLEAN \cup {Absent} :
       UserUpdate(c, u, role, active)
  \/ UserLimit(c)
  \/ UserCount(c)
  \/ UserWrite(c)
  \/ \E u \in UserIds : UserDelete(c, u)

BranchStep(c) ==
  \/ \E b \in BranchIds : BranchCreate(c, b)
  \/ BranchLimit(c)
  \/ BranchCount(c)
  \/ BranchWrite(c)
  \/ \E b \in BranchIds : BranchDelete(c, b)

PlatformStep(p) ==
  \/ \E b \in BranchIds \ branches, raise \in RaiseChoices : GrantBegin(p, b, raise)
  \/ GrantLimit(p)
  \/ GrantCount(p)
  \/ BranchWrite(p)
  \/ \E patch \in PlanPatches : PlanPatchBegin(p, patch[1], patch[2])
  \/ PlanRead(p)
  \/ PlanWrite(p)

Next ==
  \/ \E c \in Clients : UserStep(c) \/ BranchStep(c)
  \/ \E p \in Platforms : PlatformStep(p)
  \/ \E p \in Requests : Abandon(p)

Spec == Init /\ [][Next]_vars

-----------------------------------------------------------------------------
(* Properties *)

Steps == {"idle", "user.limit", "user.count", "user.write",
          "branch.limit", "branch.count", "branch.write",
          "grant.limit", "grant.count", "plan.read", "plan.write"}

\* Every row keeps to its columns' types.
TypeOK ==
  /\ users \in [UserIds -> Account \cup {Null}]
  /\ branches \in SUBSET BranchIds
  /\ plan \in Plan
  /\ pc \in [Requests -> Steps]
  /\ copy \in [Requests -> Plan \cup {Null}]

\* However the studio's requests interleave, the accounts taking a seat exceed the
\* plan's limit by less than the number of concurrent requests (no role changes, no
\* change of plan).
UserOvershootBounded ==
  plan.maxUsers # Null =>
    Cardinality(SeatHolders) <= plan.maxUsers + Cardinality(Clients) - 1

\* The same of the workshop's branches.
BranchOvershootBounded ==
  plan.maxBranches # Null =>
    Cardinality(branches) <= plan.maxBranches + Cardinality(Clients) - 1

\* A step that takes a seat or adds a branch stays within the plan's limit, the
\* platform's own branch creation included: it has raised the limit by then.
AddedWithinLimits ==
  [][/\ Cardinality(SeatHolders') > Cardinality(SeatHolders) =>
          plan.maxUsers = Null \/ Cardinality(SeatHolders') <= plan.maxUsers
     /\ Cardinality(branches') > Cardinality(branches) =>
          plan.maxBranches = Null \/ Cardinality(branches') <= plan.maxBranches]_vars
=============================================================================
