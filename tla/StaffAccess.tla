---------------------------- MODULE StaffAccess ----------------------------
(***************************************************************************)
(* The accounts of a workshop's employees and what they may do (auth.ts,   *)
(* staff-access.ts, staff-role-defaults.ts, rbac.ts, user-api.controller). *)
(* An account has a role and permission keys.  A sign-in copies both into  *)
(* a token, and a request is judged by its token.  A permission key is a   *)
(* module and an action; the base key of a module has the action "ALL".    *)
(* Seat limits are those of SeatLimits, suspension is SubscriptionBilling's.*)
(***************************************************************************)
EXTENDS Requests, FiniteSets

CONSTANTS
  Staff,
  Modules,          \* PERMISSION_KEYS
  GranularModules,  \* GRANULAR_PERMISSION_MODULES
  UpsertModules,    \* UPSERT_VIA_PUT_MODULES
  RoleModules,      \* ROLE_DEFAULT_MODULE_KEYS: role -> modules
  FirstAccounts,    \* accounts that there may be at first: functions on Staff
  StaffPatches      \* bodies of PUT /users/:id: partial records

ASSUME ModulesAssumption == UpsertModules \cup {"STAFF"} \subseteq GranularModules /\ GranularModules \subseteq Modules

\* A behaviour begins with accounts as they are found, whoever computed their permissions.
ASSUME FirstAccountsAssumption ==
  /\ Null # "without"
  /\ \A f \in FirstAccounts : DOMAIN f = Staff /\ \A s \in Staff : f[s] # Null => f[s].level = Null

VARIABLES
  accounts,  \* per employee: [role, perms, level] or Null; level is a ghost, the
             \* access level that the permissions were last computed for
  tokens     \* per employee: the account as the last sign-in read it, or Null

staffVars == <<accounts, tokens>>

StaffInit ==
  /\ accounts \in FirstAccounts
  /\ tokens = [s \in Staff |-> Null]

-----------------------------------------------------------------------------
(* Permissions                                                              *)

Actions == {"CREATE", "VIEW", "EDIT", "DELETE"}

ActionOf == [GET |-> "VIEW", POST |-> "CREATE", PUT |-> "EDIT", DELETE |-> "DELETE"]
Bypasses(role) == role \in {"SUPER_ADMIN", "ADMIN"}

\* hasPermissionForMethod
Allowed(account, m, method) ==
  LET keys == {k[2] : k \in {k \in account.perms : k[1] = m}} IN
  \/ Bypasses(account.role)
  \/ {"ALL", ActionOf[method]} \cap keys # {}
  \/ method = "PUT" /\ m \in UpsertModules /\ "CREATE" \in keys
  \/ m \notin GranularModules /\ Actions \cap keys # {}

\* expandLegacyBaseKeys
Expanded(perms) ==
  {k \in perms : k[2] # "ALL"}
  \cup {<<k[1], a>> : k \in {k \in perms : k[2] = "ALL"}, a \in Actions \ {"DELETE"}}

\* Mutant: the keys for deletions are kept.
ForLevel_Deletes(perms, level) ==
  IF level = "without" THEN {k \in Expanded(perms) : k[2] # "EDIT"}
  ELSE Expanded(perms) \cup {<<k[1], "EDIT">> : k \in {k \in Expanded(perms) : k[2] # "DELETE"}}

\* permissionsForStaffAccessLevel
ForLevel(perms, level) ==
  LET kept == {k \in Expanded(perms) : k[2] # "DELETE"} IN
  IF level = "without" THEN {k \in kept : k[2] # "EDIT"}
  ELSE kept \cup {<<k[1], "EDIT">> : k \in kept}

\* resolvePermissionsOnCreate, without permissions in the request
Defaults(role, level) ==
  ForLevel({<<m, a>> : m \in RoleModules[role], a \in {"CREATE", "VIEW"}}, level)

-----------------------------------------------------------------------------
(* Requests                                                                 *)

\* The next request is judged by what was so at the sign-in.
SignIn(s) ==
  /\ accounts[s] # Null
  /\ tokens' = [tokens EXCEPT ![s] = accounts[s]]
  /\ UNCHANGED <<accounts, requestVars>>

ManagesStaff(role) == Bypasses(role) \/ role = "MANAGER"

\* A request of the employee by, about the account of s.
Send(c, label, method, by, s, body) ==
  /\ tokens[by] # Null
  /\ Allowed(tokens[by], "STAFF", method)
  /\ Arrive(c, label, [by |-> by, token |-> tokens[by], of |-> s, body |-> body, perms |-> Null])
  /\ UNCHANGED staffVars

PostUser(c) ==
  \E by, s \in Staff, role \in DOMAIN RoleModules, level \in {"with", "without"} :
    Send(c, "staff.post", "POST", by, s, [role |-> role, level |-> level])

MayAssign(role) == role = "SUPER_ADMIN"

PostCheck(c) ==
  LET role == req[c].token.role IN
  /\ pc[c] = "staff.post"
  /\ IF Bypasses(role) /\ MayAssign(role) THEN Goto(c, "staff.create", req[c]) ELSE Answer(c)
  /\ UNCHANGED staffVars

\* The seat limit may refuse it; an id that is taken does.
PostCreate(c) ==
  LET r == req[c] IN
  /\ pc[c] = "staff.create"
  /\ \/ /\ accounts[r.of] = Null
        /\ accounts' = [accounts EXCEPT ![r.of] =
             [role |-> r.body.role, perms |-> Defaults(r.body.role, r.body.level), level |-> r.body.level]]
     \/ UNCHANGED accounts
  /\ Answer(c)
  /\ UNCHANGED tokens

PutUser(c) ==
  \E by, s \in Staff, patch \in StaffPatches : Send(c, "staff.put", "PUT", by, s, patch)

Has(r, field) == field \in DOMAIN r.body

MayPut(r) ==
  /\ ManagesStaff(r.token.role)
  /\ Has(r, "role") =>
       /\ r.of # r.by
       /\ \/ accounts[r.of] = Null
          \/ accounts[r.of].role = r.body.role
          \/ MayAssign(r.token.role)
  /\ Has(r, "perms") \/ Has(r, "level") =>
       \/ Bypasses(r.token.role)
       \/ {<<"STAFF", "ALL">>, <<"STAFF", "EDIT">>} \cap r.token.perms # {}

PutCheck(c) ==
  /\ pc[c] = "staff.put"
  /\ IF MayPut(req[c]) THEN Goto(c, "staff.read", req[c]) ELSE Answer(c)
  /\ UNCHANGED staffVars

\* updateUserApi: the permissions that are written come from the account as read here.
PutRead(c) ==
  LET r == req[c] IN
  /\ pc[c] = "staff.read"
  /\ IF accounts[r.of] = Null THEN Answer(c)
     ELSE Goto(c, "staff.write", [r EXCEPT !.perms = accounts[r.of].perms])
  /\ UNCHANGED staffVars

Patched(account, r) ==
  LET base == IF Has(r, "perms") THEN r.body.perms ELSE r.perms IN
  [role  |-> IF Has(r, "role") THEN r.body.role ELSE account.role,
   perms |-> IF Has(r, "level") THEN ForLevel(base, r.body.level)
             ELSE IF Has(r, "perms") THEN base ELSE account.perms,
   level |-> IF Has(r, "level") THEN r.body.level
             ELSE IF Has(r, "perms") THEN Null ELSE account.level]

\* An account that is gone by now cannot be updated.
PutWrite(c) ==
  LET r == req[c] IN
  /\ pc[c] = "staff.write"
  /\ accounts' = IF accounts[r.of] = Null THEN accounts
                 ELSE [accounts EXCEPT ![r.of] = Patched(@, r)]
  /\ Answer(c)
  /\ UNCHANGED tokens

DeleteUser(c) ==
  \E by, s \in Staff : by # s /\ Send(c, "staff.find", "DELETE", by, s, Null)

DeleteFind(c) ==
  LET r == req[c] IN
  /\ pc[c] = "staff.find"
  /\ IF \/ accounts[r.of] = Null \/ ~ ManagesStaff(r.token.role)
        \/ accounts[r.of].role = "SUPER_ADMIN" /\ r.token.role # "SUPER_ADMIN"
     THEN Answer(c) ELSE Goto(c, "staff.remove", r)
  /\ UNCHANGED staffVars

\* The account is deleted after its attendance; a token lives on.
DeleteAccount(c) ==
  /\ pc[c] = "staff.remove"
  /\ accounts' = [accounts EXCEPT ![req[c].of] = Null]
  /\ Answer(c)
  /\ UNCHANGED tokens

StaffStep ==
  \/ \E s \in Staff : SignIn(s)
  \/ \E c \in Clients :
       \/ PostUser(c) \/ PostCheck(c) \/ PostCreate(c)
       \/ PutUser(c) \/ PutCheck(c) \/ PutRead(c) \/ PutWrite(c)
       \/ DeleteUser(c) \/ DeleteFind(c) \/ DeleteAccount(c)

StaffSpec == StaffInit /\ RequestInit /\ [][StaffStep]_<<staffVars, requestVars>>

-----------------------------------------------------------------------------
(* Properties                                                               *)

AccountType ==
  [role : DOMAIN RoleModules \cup {"SUPER_ADMIN", "ADMIN"},
   perms : SUBSET (Modules \X (Actions \cup {"ALL"})), level : {"with", "without", Null}]

StaffTypeOK ==
  /\ accounts \in [Staff -> AccountType \cup {Null}]
  /\ tokens \in [Staff -> AccountType \cup {Null}]

\* Who signed in after "Without Edit Access" was chosen for them deletes nothing of
\* a module with granular keys, and edits only where a creation is a PUT too,
\* however their keys were given and changed before (permissionsForStaffAccessLevel,
\* hasPermissionForMethod).
WithoutEditKeepsOut ==
  \A s \in Staff : tokens[s] # Null /\ tokens[s].level = "without" /\ ~ Bypasses(tokens[s].role) =>
    \A m \in GranularModules :
      /\ ~ Allowed(tokens[s], m, "DELETE")
      /\ m \notin UpsertModules => ~ Allowed(tokens[s], m, "PUT")
=============================================================================
