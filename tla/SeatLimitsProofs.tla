-------------------------- MODULE SeatLimitsProofs --------------------------
(* The theorems about SeatLimits, for every value of its constants. *)
EXTENDS SeatLimits, FiniteSetTheorems, FunctionTheorems, TLAPS

-----------------------------------------------------------------------------
(* What a request holds at each of its steps. *)

UserSteps   == {"user.limit", "user.count", "user.write"}
BranchSteps == {"branch.limit", "branch.count", "branch.write",
                "grant.limit", "grant.count"}
PlanSteps   == {"plan.read", "plan.write"}
CopySteps   == {"user.count", "branch.count", "grant.count", "plan.write"}

UserForm == [create : BOOLEAN, user : UserIds,
             role : Roles \cup {Absent}, active : BOOLEAN \cup {Absent}]

\* What a column may be set to.
Saves(field, value) ==
  \/ field = "status" /\ value \in SubStatus
  \/ field \in {"maxUsers", "maxBranches"} /\ value \in Limit

Fits(p) ==
  /\ pc[p] \in UserSteps =>
       /\ body[p] \in UserForm
       /\ body[p].create => body[p].role \in Roles /\ body[p].active \in BOOLEAN
  /\ pc[p] \in BranchSteps => body[p].branch \in BranchIds
  /\ pc[p] \in PlanSteps =>
       /\ body[p].branch \in BranchIds \cup {Absent}
       /\ Saves(body[p].field, body[p].value)
  /\ pc[p] \in CopySteps => copy[p] \in Plan

\* TypeOK made inductive.
Typed ==
  /\ TypeOK
  /\ body = [p \in Requests |-> body[p]]
  /\ \A p \in Requests : Fits(p)

USE DEF UserSteps, BranchSteps, PlanSteps, CopySteps

\* A request that is idle fits whatever it holds.
LEMMA InitTyped == Init => Typed
BY SeatAssumption DEF Init, Typed, TypeOK, Fits, Account, Roles, Steps

\* A step changes one request; the others keep what they hold.
LEMMA OthersFit ==
  ASSUME Typed, NEW p \in Requests, NEW q \in Requests, q # p,
         pc'   = [pc EXCEPT ![p] = pc'[p]],
         body' = [body EXCEPT ![p] = body'[p]],
         copy' = [copy EXCEPT ![p] = copy'[p]]
  PROVE  Fits(q)'
BY DEF Typed, TypeOK, Fits

\* A request that ends, having left well-typed rows, keeps the invariant.
LEMMA DoneTyped ==
  ASSUME Typed, NEW p \in Requests, Done(p),
         users' \in [UserIds -> Account \cup {Null}],
         branches' \in SUBSET BranchIds,
         plan' \in Plan
  PROVE  Typed'
<1>1. TypeOK' /\ body' = [q \in Requests |-> body'[q]]
  BY DEF Typed, TypeOK, Done, Steps
<1>2. \A q \in Requests : q # p => Fits(q)'
  BY OthersFit DEF Typed, TypeOK, Done
<1>3. Fits(p)'
  BY DEF Typed, TypeOK, Done, Fits
<1> QED  BY <1>1, <1>2, <1>3 DEF Typed

\* A request that goes on to a step it is fit for keeps the invariant.
LEMMA GotoTyped ==
  ASSUME Typed, NEW p \in Requests, NEW s \in Steps, Goto(p, s),
         UNCHANGED rows,
         body' = [body EXCEPT ![p] = body'[p]],
         copy' = [copy EXCEPT ![p] = copy'[p]],
         copy'[p] \in Plan \cup {Null},
         Fits(p)'
  PROVE  Typed'
<1>1. TypeOK' /\ body' = [q \in Requests |-> body'[q]]
  BY DEF Typed, TypeOK, Goto, rows
<1>2. \A q \in Requests : q # p => Fits(q)'
  BY OthersFit DEF Typed, TypeOK, Goto
<1> QED  BY <1>1, <1>2 DEF Typed

-----------------------------------------------------------------------------
(* Each kind of request keeps the invariant. *)

LEMMA UserStepTyped ==
  ASSUME Typed, NEW c \in Clients, UserStep(c)
  PROVE  Typed'
<1> USE DEF Requests
<1>1. ASSUME NEW u \in UserIds, NEW active \in BOOLEAN, UserCreate(c, u, active)
      PROVE  Typed'
  <2>1. CreatedAs[u] \in Roles
    BY SeatAssumption
  <2>2. Fits(c)'
    BY <1>1, <2>1 DEF UserCreate, Typed, TypeOK, Fits, Goto, UserForm, Idle
  <2> QED  BY <1>1, <2>2, GotoTyped DEF UserCreate, Typed, TypeOK, Steps, Idle
<1>2. ASSUME NEW u \in UserIds, NEW role \in RolePatches,
             NEW active \in BOOLEAN \cup {Absent}, UserUpdate(c, u, role, active)
      PROVE  Typed'
  <2>1. role \in Roles \cup {Absent}
    BY SeatAssumption
  <2>2. Fits(c)'
    BY <1>2, <2>1 DEF UserUpdate, Typed, TypeOK, Fits, Goto, UserForm, Idle
  <2> QED  BY <1>2, <2>2, GotoTyped DEF UserUpdate, Typed, TypeOK, Steps, Idle
<1>3. CASE UserLimit(c)
  <2>1. Fits(c)'
    BY <1>3 DEF UserLimit, Typed, TypeOK, Fits, Goto, rows
  <2> QED  BY <1>3, <2>1, GotoTyped DEF UserLimit, Typed, TypeOK, Steps
<1>4. CASE UserCount(c)
  <2>1. CASE Done(c)
    BY <1>4, <2>1, DoneTyped DEF UserCount, Typed, TypeOK, rows
  <2>2. CASE Goto(c, "user.write") /\ UNCHANGED <<body, copy>>
    <3>1. Fits(c)'
      BY <1>4, <2>2 DEF UserCount, Typed, TypeOK, Fits, Goto
    <3> QED  BY <1>4, <2>2, <3>1, GotoTyped DEF UserCount, Typed, TypeOK, Steps
  <2> QED  BY <1>4, <2>1, <2>2 DEF UserCount
<1>5. CASE UserWrite(c)
  <2>1. body[c] \in UserForm
    BY <1>5 DEF UserWrite, Typed, Fits
  <2>2. users' \in [UserIds -> Account \cup {Null}]
    <3> DEFINE u == body[c].user
    <3>1. CASE UNCHANGED users
      BY <3>1 DEF Typed, TypeOK
    <3>2. ASSUME NEW row \in Account, users' = [users EXCEPT ![u] = row]
          PROVE  users' \in [UserIds -> Account \cup {Null}]
      BY <3>2 DEF Typed, TypeOK
    <3>3. CASE body[c].create /\ users' = [users EXCEPT ![u] = [role |-> body[c].role,
                                                              active |-> body[c].active]]
      <4>1. [role |-> body[c].role, active |-> body[c].active] \in Account
        BY <1>5, <3>3 DEF UserWrite, Typed, Fits, Account
      <4> QED  BY <3>2, <3>3, <4>1
    <3>4. CASE /\ ~body[c].create /\ users[u] # Null
               /\ users' = [users EXCEPT ![u] =
                              [role   |-> Sent(body[c].role, users[u].role),
                               active |-> Sent(body[c].active, users[u].active)]]
      <4>1. u \in UserIds /\ users[u] \in Account
        BY <2>1, <3>4 DEF UserForm, Typed, TypeOK
      <4>2. users[u].role \in Roles /\ users[u].active \in BOOLEAN
        BY <4>1 DEF Account
      <4>3. body[c].role \in Roles \cup {Absent} /\ body[c].active \in BOOLEAN \cup {Absent}
        BY <2>1 DEF UserForm
      <4>4. /\ Sent(body[c].role, users[u].role) \in Roles
            /\ Sent(body[c].active, users[u].active) \in BOOLEAN
        BY <4>2, <4>3 DEF Sent
      <4>5. [role   |-> Sent(body[c].role, users[u].role),
             active |-> Sent(body[c].active, users[u].active)] \in Account
        BY <4>4 DEF Account
      <4> QED  BY <3>2, <3>4, <4>5
    <3> QED  BY <1>5, <3>1, <3>3, <3>4 DEF UserWrite
  <2> QED  BY <1>5, <2>2, DoneTyped DEF UserWrite, Typed, TypeOK
<1>6. ASSUME NEW u \in UserIds, UserDelete(c, u)
      PROVE  Typed'
  BY <1>6 DEF UserDelete, Typed, TypeOK, Fits
<1> QED  BY <1>1, <1>2, <1>3, <1>4, <1>5, <1>6 DEF UserStep

LEMMA BranchStepTyped ==
  ASSUME Typed, NEW c \in Clients, BranchStep(c)
  PROVE  Typed'
<1> USE DEF Requests
<1>1. ASSUME NEW b \in BranchIds, BranchCreate(c, b)
      PROVE  Typed'
  <2>1. Fits(c)'
    BY <1>1 DEF BranchCreate, Typed, TypeOK, Fits, Goto, Idle
  <2> QED  BY <1>1, <2>1, GotoTyped DEF BranchCreate, Typed, TypeOK, Steps, Idle
<1>2. CASE BranchLimit(c)
  <2>1. Fits(c)'
    BY <1>2 DEF BranchLimit, Typed, TypeOK, Fits, Goto, rows
  <2> QED  BY <1>2, <2>1, GotoTyped DEF BranchLimit, Typed, TypeOK, Steps
<1>3. CASE BranchCount(c)
  <2>1. CASE Done(c)
    BY <1>3, <2>1, DoneTyped DEF BranchCount, Typed, TypeOK, rows
  <2>2. CASE Goto(c, "branch.write") /\ UNCHANGED <<body, copy>>
    <3>1. Fits(c)'
      BY <1>3, <2>2 DEF BranchCount, Typed, TypeOK, Fits, Goto
    <3> QED  BY <1>3, <2>2, <3>1, GotoTyped DEF BranchCount, Typed, TypeOK, Steps
  <2> QED  BY <1>3, <2>1, <2>2 DEF BranchCount
<1>4. CASE BranchWrite(c)
  BY <1>4, DoneTyped DEF BranchWrite, Typed, TypeOK, Fits
<1>5. ASSUME NEW b \in BranchIds, BranchDelete(c, b)
      PROVE  Typed'
  BY <1>5 DEF BranchDelete, Typed, TypeOK, Fits
<1> QED  BY <1>1, <1>2, <1>3, <1>4, <1>5 DEF BranchStep

LEMMA PlatformStepTyped ==
  ASSUME Typed, NEW p \in Platforms, PlatformStep(p)
  PROVE  Typed'
<1> USE DEF Requests
<1>1. ASSUME NEW b \in BranchIds, NEW raise, GrantBegin(p, b, raise)
      PROVE  Typed'
  <2>1. Fits(p)'
    BY <1>1 DEF GrantBegin, Typed, TypeOK, Fits, Goto, Idle
  <2> QED  BY <1>1, <2>1, GotoTyped DEF GrantBegin, Typed, TypeOK, Steps, Idle
<1>2. CASE GrantLimit(p)
  <2>1. Fits(p)'
    BY <1>2 DEF GrantLimit, Typed, TypeOK, Fits, Goto, rows
  <2> QED  BY <1>2, <2>1, GotoTyped DEF GrantLimit, Typed, TypeOK, Steps
<1>3. CASE GrantCount(p)
  <2>1. Cardinality(branches) + 1 \in Limit
    <3>1. IsFiniteSet(branches)
      BY SeatAssumption, FS_Subset DEF Typed, TypeOK
    <3>2. Cardinality(branches) \in Nat
      BY <3>1, FS_CardinalityType
    <3> QED  BY <3>2 DEF Limit
  <2>2. Fits(p)'
    <3>1. body[p].branch \in BranchIds
      BY <1>3 DEF GrantCount, Typed, Fits
    <3>2. CASE Goto(p, "branch.write") /\ UNCHANGED body
      BY <1>3, <3>1, <3>2 DEF Goto, Typed, TypeOK, Fits
    <3>3. CASE /\ body' = [body EXCEPT ![p] =
                    [branch |-> body[p].branch, field |-> "maxBranches",
                     value |-> Cardinality(branches) + 1]]
               /\ Goto(p, "plan.read")
      <4>1. pc'[p] = "plan.read"
        BY <3>3 DEF Goto, Typed, TypeOK
      <4>2. /\ body'[p].branch = body[p].branch /\ body'[p].field = "maxBranches"
            /\ body'[p].value = Cardinality(branches) + 1
        BY <3>3 DEF Typed
      <4>3. Saves(body'[p].field, body'[p].value)
        BY <2>1, <4>2 DEF Saves
      <4> QED  BY <3>1, <4>1, <4>2, <4>3 DEF Fits
    <3> QED  BY <1>3, <3>2, <3>3 DEF GrantCount
  <2> QED  BY <1>3, <2>2, GotoTyped DEF GrantCount, Typed, TypeOK, Steps
<1>4. CASE BranchWrite(p)
  BY <1>4, DoneTyped DEF BranchWrite, Typed, TypeOK, Fits
<1>5. ASSUME NEW patch \in PlanPatches, PlanPatchBegin(p, patch[1], patch[2])
      PROVE  Typed'
  <2>1. Saves(patch[1], patch[2])
    BY SeatAssumption DEF Saves
  <2>2. Fits(p)'
    BY <1>5, <2>1 DEF PlanPatchBegin, Typed, TypeOK, Fits, Goto, Idle
  <2> QED  BY <1>5, <2>2, GotoTyped DEF PlanPatchBegin, Typed, TypeOK, Steps, Idle
<1>6. CASE PlanRead(p)
  <2>1. Fits(p)'
    BY <1>6 DEF PlanRead, Typed, TypeOK, Fits, Goto, rows
  <2> QED  BY <1>6, <2>1, GotoTyped DEF PlanRead, Typed, TypeOK, Steps
<1>7. CASE PlanWrite(p)
  <2>1. copy[p] \in Plan /\ Saves(body[p].field, body[p].value)
    BY <1>7 DEF PlanWrite, Typed, Fits
  <2>2. plan' \in Plan
    BY <1>7, <2>1 DEF PlanWrite, Saves, Plan
  <2>3. CASE Done(p)
    BY <1>7, <2>2, <2>3, DoneTyped DEF PlanWrite, Typed, TypeOK
  <2>4. CASE body[p].branch # Absent /\ Goto(p, "branch.write") /\ UNCHANGED <<body, copy>>
    BY <1>7, <2>2, <2>4 DEF PlanWrite, Typed, TypeOK, Fits, Goto, Steps
  <2> QED  BY <1>7, <2>3, <2>4 DEF PlanWrite
<1> QED  BY <1>1, <1>2, <1>3, <1>4, <1>5, <1>6, <1>7 DEF PlatformStep

LEMMA NextTyped == Typed /\ [Next]_vars => Typed'
<1> SUFFICES ASSUME Typed, [Next]_vars PROVE Typed'
  OBVIOUS
<1>1. CASE \E c \in Clients : UserStep(c) \/ BranchStep(c)
  BY <1>1, UserStepTyped, BranchStepTyped
<1>2. CASE \E p \in Platforms : PlatformStep(p)
  BY <1>2, PlatformStepTyped
<1>3. CASE \E p \in Requests : Abandon(p)
  BY <1>3, DoneTyped DEF Abandon, Typed, TypeOK, rows
<1>4. CASE UNCHANGED vars
  BY <1>4 DEF Typed, TypeOK, Fits, vars
<1> QED  BY <1>1, <1>2, <1>3, <1>4 DEF Next

\* Every row, and what every request holds, keeps to its type, whatever requests
\* are made and however they interleave.
THEOREM TypesKept == Spec => []TypeOK
<1>1. Typed => TypeOK
  BY DEF Typed
<1> QED  BY <1>1, InitTyped, NextTyped, PTL DEF Spec

-----------------------------------------------------------------------------
(* How far overlapping requests of the studio exceed a limit. *)

\* The limits stay as they are, accounts keep their roles, and the workshop may
\* have its owner and its first branch.
StudioOnly ==
  /\ Platforms = {} /\ Clients # {}
  /\ RolePatches = {Absent}
  /\ InitialPlan.maxUsers # 0 /\ InitialPlan.maxBranches # 0

\* What the requests know under StudioOnly: the plan, and the role of an account.
Settled ==
  /\ Typed
  /\ plan = InitialPlan
  /\ \A c \in Clients :
       /\ pc[c] \in CopySteps => copy[c] = InitialPlan
       /\ pc[c] \in UserSteps =>
            body[c].role = IF body[c].create THEN CreatedAs[body[c].user] ELSE Absent
  /\ \A u \in UserIds : users[u] # Null => users[u].role = CreatedAs[u]

LEMMA SettledInit == StudioOnly /\ Init => Settled
BY InitTyped, SeatAssumption DEF StudioOnly, Init, Settled, Requests

LEMMA SettledNext == StudioOnly /\ Settled /\ [Next]_vars => Settled'
<1> SUFFICES ASSUME StudioOnly, Settled, [Next]_vars PROVE Settled'
  OBVIOUS
<1> USE DEF StudioOnly, Requests
<1>0. Typed'
  BY NextTyped DEF Settled
<1>1. ASSUME NEW c \in Clients, UserStep(c) PROVE Settled'
  <2>1. ASSUME NEW u \in UserIds, NEW active \in BOOLEAN, UserCreate(c, u, active)
        PROVE  Settled'
    BY <1>0, <2>1 DEF UserCreate, Settled, Typed, TypeOK, Goto, rows, Idle
  <2>2. ASSUME NEW u \in UserIds, NEW role \in RolePatches,
               NEW active \in BOOLEAN \cup {Absent}, UserUpdate(c, u, role, active)
        PROVE  Settled'
    BY <1>0, <2>2 DEF UserUpdate, Settled, Typed, TypeOK, Goto, rows, Idle
  <2>3. CASE UserLimit(c)
    BY <1>0, <2>3 DEF UserLimit, Settled, Typed, TypeOK, Goto, rows
  <2>4. CASE UserCount(c)
    BY <1>0, <2>4 DEF UserCount, Settled, Typed, TypeOK, Goto, Done, rows
  <2>5. CASE UserWrite(c)
    <3>1. body[c] \in UserForm /\ plan' = InitialPlan
      BY <2>5 DEF UserWrite, Settled, Typed, Fits
    <3>2. \A u \in UserIds : users'[u] # Null => users'[u].role = CreatedAs[u]
      BY <2>5, <3>1, SeatAssumption
         DEF UserWrite, Settled, Typed, TypeOK, UserForm, Sent, Account
    <3> QED  BY <1>0, <2>5, <3>1, <3>2 DEF UserWrite, Settled, Typed, TypeOK, Done
  <2>6. ASSUME NEW u \in UserIds, UserDelete(c, u) PROVE Settled'
    BY <1>0, <2>6 DEF UserDelete, Settled, Typed, TypeOK
  <2> QED  BY <1>1, <2>1, <2>2, <2>3, <2>4, <2>5, <2>6 DEF UserStep
<1>2. ASSUME NEW c \in Clients, BranchStep(c) PROVE Settled'
  <2>1. ASSUME NEW b \in BranchIds, BranchCreate(c, b) PROVE Settled'
    BY <1>0, <2>1 DEF BranchCreate, Settled, Typed, TypeOK, Goto, rows, Idle
  <2>2. CASE BranchLimit(c)
    BY <1>0, <2>2 DEF BranchLimit, Settled, Typed, TypeOK, Goto, rows
  <2>3. CASE BranchCount(c)
    BY <1>0, <2>3 DEF BranchCount, Settled, Typed, TypeOK, Goto, Done, rows
  <2>4. CASE BranchWrite(c)
    BY <1>0, <2>4 DEF BranchWrite, Settled, Typed, TypeOK, Done
  <2>5. ASSUME NEW b \in BranchIds, BranchDelete(c, b) PROVE Settled'
    BY <1>0, <2>5 DEF BranchDelete, Settled, Typed, TypeOK
  <2> QED  BY <1>2, <2>1, <2>2, <2>3, <2>4, <2>5 DEF BranchStep
<1>3. CASE \E p \in Requests : Abandon(p)
  BY <1>0, <1>3 DEF Abandon, Settled, Typed, TypeOK, Done, rows
<1>4. CASE UNCHANGED vars
  BY <1>0, <1>4 DEF Settled, vars
<1> QED  BY <1>1, <1>2, <1>3, <1>4 DEF Next

\* A function takes no more values than it has arguments.
LEMMA ImageBound ==
  ASSUME NEW S, IsFiniteSet(S), NEW f
  PROVE  /\ IsFiniteSet({f[x] : x \in S})
         /\ Cardinality({f[x] : x \in S}) <= Cardinality(S)
<1> DEFINE T == {f[x] : x \in S}
           g == [x \in S |-> f[x]]
<1>1. g \in Surjection(S, T)
  BY DEF Surjection
<1> QED  BY <1>1, FS_Surjection

\* Below the limit, one thing claimed by each request exceeds it by less than their
\* number.
LEMMA Overshoot ==
  ASSUME NEW S, IsFiniteSet(S), NEW max \in Nat, Cardinality(S) < max,
         NEW f, NEW T \in SUBSET {f[c] : c \in Clients}
  PROVE  Cardinality(S \cup T) <= max + Cardinality(Clients) - 1
<1>1. IsFiniteSet(Clients)
  BY SeatAssumption
<1>2. IsFiniteSet(T) /\ Cardinality(T) <= Cardinality(Clients)
  <2>1. /\ IsFiniteSet({f[c] : c \in Clients})
        /\ Cardinality({f[c] : c \in Clients}) <= Cardinality(Clients)
    BY <1>1, ImageBound
  <2>2. IsFiniteSet(T) /\ Cardinality(T) <= Cardinality({f[c] : c \in Clients})
    BY <2>1, FS_Subset
  <2> QED  BY <1>1, <2>1, <2>2, FS_CardinalityType
<1>3. /\ IsFiniteSet(S \cup T) /\ IsFiniteSet(S \cap T)
      /\ Cardinality(S \cup T) = Cardinality(S) + Cardinality(T) - Cardinality(S \cap T)
  BY <1>2, FS_Union, FS_Intersection
<1>4. /\ Cardinality(S) \in Nat /\ Cardinality(T) \in Nat /\ Cardinality(Clients) \in Nat
      /\ Cardinality(S \cup T) \in Nat /\ Cardinality(S \cap T) \in Nat
  BY <1>1, <1>2, <1>3, FS_CardinalityType
<1> QED  BY <1>2, <1>3, <1>4

\* The accounts for which a request has passed the gate, or needed not ask it.
Claims(c) ==
  /\ pc[c] = "user.write"
  /\ body[c].active = TRUE /\ CreatedAs[body[c].user] # Mechanic

Claimed == {body[c].user : c \in {d \in Clients : Claims(d)}}

\* The accounts that take a seat now or once the pending writes are done.
SeatsOrClaims == SeatHolders \cup Claimed

\* UserOvershootBounded made inductive: pending writes count as seats.
SeatsBounded ==
  InitialPlan.maxUsers # Null =>
    Cardinality(SeatsOrClaims) <= InitialPlan.maxUsers + Cardinality(Clients) - 1

LEMMA SeatsFinite == Typed => IsFiniteSet(SeatHolders) /\ IsFiniteSet(SeatsOrClaims)
<1> SUFFICES ASSUME Typed PROVE SeatHolders \subseteq UserIds /\ Claimed \subseteq UserIds
  BY FS_Subset, SeatAssumption DEF SeatsOrClaims
<1> QED  BY DEF Typed, Fits, UserForm, SeatHolders, Claimed, Claims, Requests

LEMMA SeatsFiniteNext == Typed' => IsFiniteSet(SeatsOrClaims')
<1>1. Typed => IsFiniteSet(SeatsOrClaims)
  BY SeatsFinite
<1>2. (Typed => IsFiniteSet(SeatsOrClaims))'
  BY <1>1, PTL
<1> QED  BY <1>2

LEMMA SeatsBoundedInit == StudioOnly /\ Init => SeatsBounded
<1> SUFFICES ASSUME StudioOnly, Init, InitialPlan.maxUsers # Null PROVE SeatsBounded
  BY DEF SeatsBounded
<1>1. Claimed = {}
  BY DEF Init, Claimed, Claims, Requests
<1>2. SeatHolders \subseteq {Owner}
  BY DEF Init, SeatHolders, TakesSeat
<1>3. IsFiniteSet({Owner}) /\ Cardinality({Owner}) = 1
  BY FS_Singleton
<1>4. Cardinality(SeatsOrClaims) \in Nat /\ Cardinality(SeatsOrClaims) <= 1
  <2>1. SeatsOrClaims \in SUBSET {Owner}
    BY <1>1, <1>2 DEF SeatsOrClaims
  <2>2. IsFiniteSet(SeatsOrClaims) /\ Cardinality(SeatsOrClaims) <= Cardinality({Owner})
    BY <1>3, <2>1, FS_Subset
  <2> QED  BY <1>3, <2>2, FS_CardinalityType
<1>5. Cardinality(Clients) \in Nat /\ Cardinality(Clients) # 0
  BY SeatAssumption, FS_CardinalityType, FS_EmptySet DEF StudioOnly
<1>6. InitialPlan.maxUsers \in Nat /\ InitialPlan.maxUsers # 0
  BY SeatAssumption DEF StudioOnly, Plan, Limit
<1> QED  BY <1>4, <1>5, <1>6 DEF SeatsBounded

\* Only a request that passes the gate adds to the seats and claims.
LEMMA ClaimsGrowAtGate ==
  ASSUME StudioOnly, Settled, Settled', [Next]_vars,
         ~ \E c \in Clients : UserCount(c)
  PROVE  SeatsOrClaims' \subseteq SeatsOrClaims
<1> USE DEF StudioOnly, Requests
<1>1. ASSUME NEW c \in Clients, UserStep(c) PROVE SeatsOrClaims' \subseteq SeatsOrClaims
  <2>1. ASSUME NEW u \in UserIds, NEW active \in BOOLEAN, UserCreate(c, u, active)
        PROVE  SeatsOrClaims' \subseteq SeatsOrClaims
    BY <2>1, SeatAssumption DEF UserCreate, Settled, Typed, TypeOK, Goto, rows, Idle, Gated,
       SeatsOrClaims, SeatHolders, TakesSeat, Claimed, Claims
  <2>2. ASSUME NEW u \in UserIds, NEW active \in BOOLEAN \cup {Absent},
               UserUpdate(c, u, Absent, active)
        PROVE  SeatsOrClaims' \subseteq SeatsOrClaims
    <3>1. users' = users /\ \A d \in Clients : d # c => (Claims(d)' <=> Claims(d)) /\ body'[d] = body[d]
      BY <2>2 DEF UserUpdate, Settled, Typed, TypeOK, Goto, rows, Idle, Claims
    <3>2. users[u].role = CreatedAs[u]
      BY <2>2 DEF UserUpdate, Settled
    <3>3. Claims(c)' => body'[c].user = u /\ TakesSeat(users[u])
      <4> SUFFICES ASSUME Claims(c)' PROVE body'[c].user = u /\ TakesSeat(users[u])
        OBVIOUS
      <4>1. /\ body'[c].user = u /\ body'[c].active = active
            /\ pc'[c] = "user.write" /\ active = TRUE /\ CreatedAs[u] # Mechanic
        BY <2>2 DEF UserUpdate, Settled, Typed, TypeOK, Claims
      <4>2. ~(~users[u].active /\ Gated(Sent(active, users[u].active), Sent(Absent, users[u].role)))
        BY <2>2, <4>1 DEF UserUpdate, Goto, Settled, Typed, TypeOK
      <4>3. Sent(active, users[u].active) = TRUE /\ Sent(Absent, users[u].role) # Mechanic
        BY <3>2, <4>1, SeatAssumption DEF Sent
      <4>4. users[u].active
        BY <4>2, <4>3 DEF Gated
      <4> QED  BY <2>2, <3>2, <4>1, <4>4 DEF UserUpdate, TakesSeat
    <3> QED  BY <3>1, <3>3 DEF SeatsOrClaims, SeatHolders, Claimed
  <2>3. CASE UserLimit(c)
    BY <2>3 DEF UserLimit, Settled, Typed, TypeOK, Goto, rows,
       SeatsOrClaims, SeatHolders, TakesSeat, Claimed, Claims
  <2>4. CASE UserWrite(c)
    <3>1. \A d \in Clients : Claims(d)' => Claims(d) /\ body'[d] = body[d]
      BY <2>4 DEF UserWrite, Settled, Typed, TypeOK, Done, Claims
    <3>2. \A u \in UserIds : TakesSeat(users'[u]) =>
            TakesSeat(users[u]) \/ (u = body[c].user /\ Claims(c))
      BY <2>4, SeatAssumption DEF UserWrite, Settled, Typed, TypeOK, Sent, Claims, TakesSeat, Account
    <3> QED  BY <3>1, <3>2 DEF SeatsOrClaims, SeatHolders, Claimed
  <2>5. ASSUME NEW u \in UserIds, UserDelete(c, u)
        PROVE  SeatsOrClaims' \subseteq SeatsOrClaims
    BY <2>5 DEF UserDelete, Settled, Typed, TypeOK,
       SeatsOrClaims, SeatHolders, TakesSeat, Claimed, Claims
  <2> QED  BY <1>1, <2>1, <2>2, <2>3, <2>4, <2>5 DEF UserStep
<1>2. ASSUME NEW c \in Clients, BranchStep(c) PROVE SeatsOrClaims' \subseteq SeatsOrClaims
  <2>1. users' = users
    BY <1>2 DEF BranchStep, BranchCreate, BranchLimit, BranchCount, BranchWrite, BranchDelete, rows
  <2>2. \A d \in Clients : Claims(d)' => Claims(d) /\ body'[d] = body[d]
    BY <1>2 DEF BranchStep, BranchCreate, BranchLimit, BranchCount, BranchWrite, BranchDelete,
       Settled, Typed, TypeOK, Goto, Done, Idle, Claims
  <2> QED  BY <2>1, <2>2 DEF SeatsOrClaims, SeatHolders, Claimed
<1>3. CASE \E p \in Requests : Abandon(p)
  <2>1. users' = users
    BY <1>3 DEF Abandon, rows
  <2>2. \A d \in Clients : Claims(d)' => Claims(d) /\ body'[d] = body[d]
    BY <1>3 DEF Abandon, Settled, Typed, TypeOK, Done, Claims
  <2> QED  BY <2>1, <2>2 DEF SeatsOrClaims, SeatHolders, Claimed
<1>4. CASE UNCHANGED vars
  BY <1>4 DEF vars, SeatsOrClaims, SeatHolders, TakesSeat, Claimed, Claims
<1> QED  BY <1>1, <1>2, <1>3, <1>4 DEF Next

LEMMA SeatsBoundedNext ==
  StudioOnly /\ Settled /\ Settled' /\ SeatsBounded /\ [Next]_vars => SeatsBounded'
<1> SUFFICES ASSUME StudioOnly, Settled, Settled', SeatsBounded, [Next]_vars,
                    InitialPlan.maxUsers # Null
             PROVE  SeatsBounded'
  BY DEF SeatsBounded
<1>1. InitialPlan.maxUsers \in Nat /\ Cardinality(Clients) \in Nat
  BY SeatAssumption, FS_CardinalityType DEF Plan, Limit
<1>2. IsFiniteSet(SeatsOrClaims) /\ IsFiniteSet(SeatsOrClaims') /\ IsFiniteSet(SeatHolders)
  BY SeatsFinite, SeatsFiniteNext DEF Settled
<1>3. ASSUME SeatsOrClaims' \subseteq SeatsOrClaims PROVE SeatsBounded'
  BY <1>1, <1>2, <1>3, FS_Subset, FS_CardinalityType DEF SeatsBounded
<1>4. ASSUME NEW c \in Clients, UserCount(c) PROVE SeatsBounded'
  <2>1. SeatHolders' = SeatHolders
    BY <1>4 DEF UserCount, rows, SeatHolders, TakesSeat
  <2>2. CASE WithinLimit(Cardinality(SeatHolders), copy[c].maxUsers)
    <3>1. copy[c].maxUsers = InitialPlan.maxUsers
      BY <1>4 DEF UserCount, Settled
    <3>2. Cardinality(SeatHolders) < InitialPlan.maxUsers
      BY <2>2, <3>1 DEF WithinLimit
    <3> DEFINE f == [d \in Clients |-> body'[d].user]
    <3>3. Claimed' \subseteq {f[d] : d \in Clients}
      BY DEF Claimed
    <3> HIDE DEF f
    <3>4. Cardinality(SeatHolders \cup Claimed') <= InitialPlan.maxUsers + Cardinality(Clients) - 1
      BY <1>1, <1>2, <3>2, <3>3, Overshoot
    <3> QED  BY <2>1, <3>4 DEF SeatsBounded, SeatsOrClaims
  <2>3. CASE ~WithinLimit(Cardinality(SeatHolders), copy[c].maxUsers)
    <3>1. \A d \in Clients : Claims(d)' => Claims(d) /\ body'[d] = body[d]
      BY <1>4, <2>3 DEF UserCount, Settled, Typed, TypeOK, Done, Claims, Requests
    <3> QED  BY <1>3, <2>1, <3>1 DEF SeatsOrClaims, Claimed
  <2> QED  BY <2>2, <2>3
<1> QED  BY <1>3, <1>4, ClaimsGrowAtGate

\* However the studio's requests interleave, and however often they are cut off, the
\* accounts taking a seat exceed the plan's limit by less than the number of requests
\* that can run at once.
THEOREM UserOvershoot == ASSUME StudioOnly PROVE Spec => []UserOvershootBounded
<1>1. Init => Settled /\ SeatsBounded
  BY SettledInit, SeatsBoundedInit
<1>2. Settled /\ SeatsBounded /\ [Next]_vars => (Settled /\ SeatsBounded)'
  BY SettledNext, SeatsBoundedNext
<1>3. Settled /\ SeatsBounded => UserOvershootBounded
  <2> SUFFICES ASSUME Settled, SeatsBounded, plan.maxUsers # Null
               PROVE  Cardinality(SeatHolders) <= plan.maxUsers + Cardinality(Clients) - 1
    BY DEF UserOvershootBounded
  <2>1. Cardinality(SeatHolders) <= Cardinality(SeatsOrClaims)
    BY SeatsFinite, FS_Subset DEF Settled, SeatsOrClaims
  <2>2. /\ InitialPlan.maxUsers \in Nat /\ Cardinality(Clients) \in Nat
        /\ Cardinality(SeatHolders) \in Nat /\ Cardinality(SeatsOrClaims) \in Nat
    BY SeatsFinite, SeatAssumption, FS_CardinalityType DEF Settled, Plan, Limit
  <2> QED  BY <2>1, <2>2 DEF Settled, SeatsBounded
<1> QED  BY <1>1, <1>2, <1>3, PTL DEF Spec

-----------------------------------------------------------------------------
(* The same of branches. *)

\* The branches that requests are about to insert.
Reserved == {body[c].branch : c \in {d \in Clients : pc[d] = "branch.write"}}

\* BranchOvershootBounded made inductive: pending inserts count as branches.
BranchesBounded ==
  InitialPlan.maxBranches # Null =>
    Cardinality(branches \cup Reserved)
      <= InitialPlan.maxBranches + Cardinality(Clients) - 1

LEMMA BranchesFinite ==
  Typed => IsFiniteSet(branches) /\ IsFiniteSet(branches \cup Reserved)
<1> SUFFICES ASSUME Typed PROVE branches \subseteq BranchIds /\ Reserved \subseteq BranchIds
  BY FS_Subset, SeatAssumption
<1> QED  BY DEF Typed, TypeOK, Fits, Reserved, Requests

LEMMA BranchesFiniteNext == Typed' => IsFiniteSet((branches \cup Reserved)')
<1>1. Typed => IsFiniteSet(branches \cup Reserved)
  BY BranchesFinite
<1>2. (Typed => IsFiniteSet(branches \cup Reserved))'
  BY <1>1, PTL
<1> QED  BY <1>2

LEMMA BranchesBoundedInit == StudioOnly /\ Init => BranchesBounded
<1> SUFFICES ASSUME StudioOnly, Init, InitialPlan.maxBranches # Null PROVE BranchesBounded
  BY DEF BranchesBounded
<1>1. branches \cup Reserved = {HomeBranch}
  BY DEF Init, Reserved, Requests
<1>2. Cardinality(branches \cup Reserved) = 1
  BY <1>1, FS_Singleton
<1>3. Cardinality(Clients) \in Nat /\ Cardinality(Clients) # 0
  BY SeatAssumption, FS_CardinalityType, FS_EmptySet DEF StudioOnly
<1>4. InitialPlan.maxBranches \in Nat /\ InitialPlan.maxBranches # 0
  BY SeatAssumption DEF StudioOnly, Plan, Limit
<1> QED  BY <1>2, <1>3, <1>4 DEF BranchesBounded

\* Only a request that passes the gate adds to the branches and reservations.
LEMMA ReservedGrowsAtGate ==
  ASSUME StudioOnly, Settled, [Next]_vars, ~ \E c \in Clients : BranchCount(c)
  PROVE  (branches \cup Reserved)' \subseteq branches \cup Reserved
<1> USE DEF StudioOnly, Requests
<1>1. ASSUME NEW c \in Clients, UserStep(c)
      PROVE  (branches \cup Reserved)' \subseteq branches \cup Reserved
  <2>1. branches' = branches
    BY <1>1 DEF UserStep, UserCreate, UserUpdate, UserLimit, UserCount, UserWrite, UserDelete, rows
  <2>2. \A d \in Clients : pc'[d] = "branch.write" =>
          pc[d] = "branch.write" /\ body'[d] = body[d]
    BY <1>1 DEF UserStep, UserCreate, UserUpdate, UserLimit, UserCount, UserWrite, UserDelete,
       Settled, Typed, TypeOK, Goto, Done, Idle
  <2> QED  BY <2>1, <2>2 DEF Reserved
<1>2. ASSUME NEW c \in Clients, BranchStep(c)
      PROVE  (branches \cup Reserved)' \subseteq branches \cup Reserved
  <2>1. ASSUME NEW b \in BranchIds, BranchCreate(c, b)
        PROVE  (branches \cup Reserved)' \subseteq branches \cup Reserved
    <3>1. branches' = branches
      BY <2>1 DEF BranchCreate, rows
    <3>2. \A d \in Clients : pc'[d] = "branch.write" =>
            \/ pc[d] = "branch.write" /\ body'[d] = body[d]
            \/ body'[d].branch = b /\ b \in branches
      BY <2>1 DEF BranchCreate, Settled, Typed, TypeOK, Goto, Idle
    <3> QED  BY <3>1, <3>2 DEF Reserved
  <2>2. CASE BranchLimit(c)
    BY <2>2 DEF BranchLimit, Settled, Typed, TypeOK, Goto, rows, Reserved
  <2>3. CASE BranchWrite(c)
    <3>1. branches' = branches \cup {body[c].branch} /\ body[c].branch \in Reserved
      BY <2>3 DEF BranchWrite, Reserved
    <3>2. \A d \in Clients : pc'[d] = "branch.write" =>
            pc[d] = "branch.write" /\ body'[d] = body[d]
      BY <2>3 DEF BranchWrite, Settled, Typed, TypeOK, Done
    <3>3. Reserved' \subseteq Reserved
      BY <3>2 DEF Reserved
    <3> QED  BY <3>1, <3>3
  <2>4. ASSUME NEW b \in BranchIds, BranchDelete(c, b)
        PROVE  (branches \cup Reserved)' \subseteq branches \cup Reserved
    BY <2>4 DEF BranchDelete, Reserved
  <2> QED  BY <1>2, <2>1, <2>2, <2>3, <2>4 DEF BranchStep
<1>3. CASE \E p \in Requests : Abandon(p)
  <2>1. branches' = branches
    BY <1>3 DEF Abandon, rows
  <2>2. \A d \in Clients : pc'[d] = "branch.write" =>
          pc[d] = "branch.write" /\ body'[d] = body[d]
    BY <1>3 DEF Abandon, Settled, Typed, TypeOK, Done
  <2> QED  BY <2>1, <2>2 DEF Reserved
<1>4. CASE UNCHANGED vars
  BY <1>4 DEF vars, Reserved
<1> QED  BY <1>1, <1>2, <1>3, <1>4 DEF Next

LEMMA BranchesBoundedNext ==
  StudioOnly /\ Settled /\ Settled' /\ BranchesBounded /\ [Next]_vars => BranchesBounded'
<1> SUFFICES ASSUME StudioOnly, Settled, Settled', BranchesBounded, [Next]_vars,
                    InitialPlan.maxBranches # Null
             PROVE  BranchesBounded'
  BY DEF BranchesBounded
<1>1. InitialPlan.maxBranches \in Nat /\ Cardinality(Clients) \in Nat
  BY SeatAssumption, FS_CardinalityType DEF Plan, Limit
<1>2. /\ IsFiniteSet(branches) /\ IsFiniteSet(branches \cup Reserved)
      /\ IsFiniteSet((branches \cup Reserved)')
  BY BranchesFinite, BranchesFiniteNext DEF Settled
<1>3. ASSUME (branches \cup Reserved)' \subseteq branches \cup Reserved PROVE BranchesBounded'
  <2>1. Cardinality((branches \cup Reserved)') <= Cardinality(branches \cup Reserved)
    BY <1>2, <1>3, FS_Subset
  <2>2. Cardinality((branches \cup Reserved)') \in Nat /\ Cardinality(branches \cup Reserved) \in Nat
    BY <1>2, FS_CardinalityType
  <2> QED  BY <1>1, <2>1, <2>2 DEF BranchesBounded
<1>4. ASSUME NEW c \in Clients, BranchCount(c) PROVE BranchesBounded'
  <2>1. branches' = branches /\ copy[c].maxBranches = InitialPlan.maxBranches
    BY <1>4 DEF BranchCount, rows, Settled
  <2>2. CASE WithinLimit(Cardinality(branches), copy[c].maxBranches)
    <3>1. Cardinality(branches) < InitialPlan.maxBranches
      BY <2>1, <2>2 DEF WithinLimit
    <3> DEFINE f == [d \in Clients |-> body'[d].branch]
    <3>2. Reserved' \subseteq {f[d] : d \in Clients}
      BY DEF Reserved
    <3> HIDE DEF f
    <3>3. Cardinality(branches \cup Reserved')
            <= InitialPlan.maxBranches + Cardinality(Clients) - 1
      BY <1>1, <1>2, <3>1, <3>2, Overshoot
    <3> QED  BY <2>1, <3>3 DEF BranchesBounded
  <2>3. CASE ~WithinLimit(Cardinality(branches), copy[c].maxBranches)
    <3>1. \A d \in Clients : pc'[d] = "branch.write" =>
            pc[d] = "branch.write" /\ body'[d] = body[d]
      BY <1>4, <2>3 DEF BranchCount, Settled, Typed, TypeOK, Done, Requests
    <3>2. Reserved' \subseteq Reserved
      BY <3>1 DEF Reserved
    <3> QED  BY <1>3, <2>1, <3>2
  <2> QED  BY <2>2, <2>3
<1> QED  BY <1>3, <1>4, ReservedGrowsAtGate

\* However the studio's requests interleave, the workshop's branches exceed the plan's
\* limit by less than the number of requests that can run at once.
THEOREM BranchOvershoot == ASSUME StudioOnly PROVE Spec => []BranchOvershootBounded
<1>1. Init => Settled /\ BranchesBounded
  BY SettledInit, BranchesBoundedInit
<1>2. Settled /\ BranchesBounded /\ [Next]_vars => (Settled /\ BranchesBounded)'
  BY SettledNext, BranchesBoundedNext
<1>3. Settled /\ BranchesBounded => BranchOvershootBounded
  <2> SUFFICES ASSUME Settled, BranchesBounded, plan.maxBranches # Null
               PROVE  Cardinality(branches) <= plan.maxBranches + Cardinality(Clients) - 1
    BY DEF BranchOvershootBounded
  <2>1. Cardinality(branches) <= Cardinality(branches \cup Reserved)
    BY BranchesFinite, FS_Subset DEF Settled
  <2>2. /\ InitialPlan.maxBranches \in Nat /\ Cardinality(Clients) \in Nat
        /\ Cardinality(branches) \in Nat /\ Cardinality(branches \cup Reserved) \in Nat
    BY BranchesFinite, SeatAssumption, FS_CardinalityType DEF Settled, Plan, Limit
  <2> QED  BY <2>1, <2>2 DEF Settled, BranchesBounded
<1> QED  BY <1>1, <1>2, <1>3, PTL DEF Spec

-----------------------------------------------------------------------------
(* Requests that run one at a time stay within the limits. *)

\* One request at a time, accounts keep their roles, and the platform always raises
\* the limit it needs.
Orderly ==
  /\ \A p, q \in Requests : p = q
  /\ RolePatches = {Absent}
  /\ RaiseChoices = {TRUE}

\* The pending write of an account takes no seat, keeps the one it has, or has room.
SeatCleared(p) ==
  LET current == users[body[p].user]
  IN  \/ WithinLimit(Cardinality(SeatHolders), plan.maxUsers)
      \/ body[p].create /\ ~Gated(body[p].active, body[p].role)
      \/ /\ ~body[p].create /\ current # Null
         /\ ~current.active => ~Gated(Sent(body[p].active, current.active), current.role)

\* The pending write of a branch repeats one, or has room.
BranchCleared(p) ==
  \/ body[p].branch \in branches
  \/ WithinLimit(Cardinality(branches), plan.maxBranches)

\* What the only request knows of the rows that nobody else writes.
Cleared(p) ==
  /\ pc[p] \in CopySteps => copy[p] = plan
  /\ pc[p] \in UserSteps /\ ~body[p].create => body[p].role = Absent
  /\ pc[p] = "user.write" => SeatCleared(p)
  /\ pc[p] = "branch.write" => BranchCleared(p)
  /\ pc[p] \in PlanSteps /\ body[p].branch # Absent =>
       body[p].field = "maxBranches" /\ body[p].value = Cardinality(branches) + 1

AllCleared == Typed /\ \A p \in Requests : Cleared(p)

LEMMA CountsAreNat ==
  Typed => /\ IsFiniteSet(branches) /\ Cardinality(branches) \in Nat
           /\ IsFiniteSet(SeatHolders) /\ Cardinality(SeatHolders) \in Nat
<1> SUFFICES ASSUME Typed PROVE branches \subseteq BranchIds /\ SeatHolders \subseteq UserIds
  BY FS_Subset, FS_CardinalityType, SeatAssumption
<1> QED  BY DEF Typed, TypeOK, SeatHolders

LEMMA ClearedInit == Init => AllCleared
BY InitTyped DEF AllCleared, Cleared, Init

\* A request that has ended is cleared.
LEMMA DoneCleared ==
  ASSUME Typed, NEW p \in Requests, Done(p)
  PROVE  Cleared(p)'
BY DEF Typed, TypeOK, Done, Cleared

LEMMA UserStepCleared ==
  ASSUME Orderly, AllCleared, NEW c \in Clients, UserStep(c)
  PROVE  Cleared(c)'
<1> USE DEF Requests
<1>1. ASSUME NEW u \in UserIds, NEW active \in BOOLEAN, UserCreate(c, u, active)
      PROVE  Cleared(c)'
  <2>1. /\ body'[c].create /\ body'[c].active = active /\ body'[c].role = CreatedAs[u]
        /\ pc'[c] = IF Gated(active, CreatedAs[u]) THEN "user.limit" ELSE "user.write"
    BY <1>1 DEF UserCreate, AllCleared, Typed, TypeOK, Goto
  <2> QED  BY <2>1 DEF Cleared, SeatCleared, Gated
<1>2. ASSUME NEW u \in UserIds, NEW active \in BOOLEAN \cup {Absent},
             UserUpdate(c, u, Absent, active)
      PROVE  Cleared(c)'
  <2>1. /\ ~body'[c].create /\ body'[c].active = active /\ body'[c].role = Absent
        /\ body'[c].user = u /\ users' = users /\ users[u] # Null
    BY <1>2 DEF UserUpdate, AllCleared, Typed, TypeOK, rows
  <2>2. pc'[c] = IF ~users[u].active /\ Gated(Sent(active, users[u].active), users[u].role)
                 THEN "user.limit" ELSE "user.write"
    BY <1>2 DEF UserUpdate, AllCleared, Typed, TypeOK, Goto, Sent
  <2>3. pc'[c] = "user.write" => SeatCleared(c)'
    BY <2>1, <2>2 DEF SeatCleared
  <2> QED  BY <2>1, <2>2, <2>3 DEF Cleared
<1>3. CASE UserLimit(c)
  BY <1>3 DEF UserLimit, AllCleared, Cleared, Typed, TypeOK, Goto, rows
<1>4. CASE UserCount(c)
  <2>1. CASE Done(c)
    BY <2>1, DoneCleared DEF AllCleared
  <2>2. CASE /\ WithinLimit(Cardinality(SeatHolders), copy[c].maxUsers)
             /\ Goto(c, "user.write") /\ UNCHANGED <<body, copy>>
    <3>1. WithinLimit(Cardinality(SeatHolders), plan.maxUsers)
      BY <1>4, <2>2 DEF UserCount, AllCleared, Cleared
    <3>2. SeatHolders' = SeatHolders /\ plan' = plan
      BY <1>4 DEF UserCount, rows, SeatHolders, TakesSeat
    <3>3. WithinLimit(Cardinality(SeatHolders), plan.maxUsers)'
      BY <3>1, <3>2
    <3> QED  BY <1>4, <2>2, <3>3 DEF UserCount, AllCleared, Cleared, SeatCleared, Typed, TypeOK, Goto
  <2> QED  BY <1>4, <2>1, <2>2 DEF UserCount
<1>5. CASE UserWrite(c)
  BY <1>5, DoneCleared DEF UserWrite, AllCleared
<1>6. ASSUME NEW u \in UserIds, UserDelete(c, u)
      PROVE  Cleared(c)'
  BY <1>6 DEF UserDelete, AllCleared, Cleared, Idle
<1> QED  BY <1>1, <1>2, <1>3, <1>4, <1>5, <1>6 DEF UserStep, Orderly

LEMMA BranchStepCleared ==
  ASSUME AllCleared, NEW c \in Clients, BranchStep(c)
  PROVE  Cleared(c)'
<1> USE DEF Requests
<1>1. ASSUME NEW b \in BranchIds, BranchCreate(c, b)
      PROVE  Cleared(c)'
  BY <1>1 DEF BranchCreate, AllCleared, Cleared, BranchCleared, Typed, TypeOK, Goto, rows
<1>2. CASE BranchLimit(c)
  BY <1>2 DEF BranchLimit, AllCleared, Cleared, Typed, TypeOK, Goto, rows
<1>3. CASE BranchCount(c)
  <2>1. CASE Done(c)
    BY <2>1, DoneCleared DEF AllCleared
  <2>2. CASE /\ WithinLimit(Cardinality(branches), copy[c].maxBranches)
             /\ Goto(c, "branch.write") /\ UNCHANGED <<body, copy>>
    BY <1>3, <2>2 DEF BranchCount, AllCleared, Cleared, BranchCleared, Typed, TypeOK, Goto, rows
  <2> QED  BY <1>3, <2>1, <2>2 DEF BranchCount
<1>4. CASE BranchWrite(c)
  BY <1>4, DoneCleared DEF BranchWrite, AllCleared
<1>5. ASSUME NEW b \in BranchIds, BranchDelete(c, b)
      PROVE  Cleared(c)'
  BY <1>5 DEF BranchDelete, AllCleared, Cleared, Idle
<1> QED  BY <1>1, <1>2, <1>3, <1>4, <1>5 DEF BranchStep

LEMMA PlatformStepCleared ==
  ASSUME Orderly, AllCleared, NEW p \in Platforms, PlatformStep(p)
  PROVE  Cleared(p)'
<1> USE DEF Requests
<1>1. ASSUME NEW b \in BranchIds \ branches, GrantBegin(p, b, TRUE)
      PROVE  Cleared(p)'
  BY <1>1 DEF GrantBegin, AllCleared, Cleared, Typed, TypeOK, Goto
<1>2. CASE GrantLimit(p)
  BY <1>2 DEF GrantLimit, AllCleared, Cleared, Typed, TypeOK, Goto, rows
<1>3. CASE GrantCount(p)
  <2>1. copy[p] = plan /\ UNCHANGED <<branches, plan>>
    BY <1>3 DEF GrantCount, AllCleared, Cleared, rows
  <2>2. CASE /\ body' = [body EXCEPT ![p] =
                    [branch |-> body[p].branch, field |-> "maxBranches",
                     value |-> Cardinality(branches) + 1]]
             /\ Goto(p, "plan.read")
    <3>1. /\ body'[p].field = "maxBranches" /\ body'[p].value = Cardinality(branches) + 1
          /\ pc'[p] = "plan.read"
      BY <2>2 DEF Goto, AllCleared, Typed, TypeOK
    <3> QED  BY <2>1, <3>1 DEF Cleared
  <2>3. CASE /\ WithinLimit(Cardinality(branches), copy[p].maxBranches)
             /\ Goto(p, "branch.write")
    <3>1. pc'[p] = "branch.write"
      BY <2>3 DEF Goto, AllCleared, Typed, TypeOK
    <3>2. BranchCleared(p)'
      BY <2>1, <2>3 DEF BranchCleared
    <3> QED  BY <3>1, <3>2 DEF Cleared
  <2> QED  BY <1>3, <2>2, <2>3 DEF GrantCount
<1>4. CASE BranchWrite(p)
  BY <1>4, DoneCleared DEF BranchWrite, AllCleared
<1>5. ASSUME NEW patch \in PlanPatches, PlanPatchBegin(p, patch[1], patch[2])
      PROVE  Cleared(p)'
  BY <1>5 DEF PlanPatchBegin, AllCleared, Cleared, Typed, TypeOK, Goto
<1>6. CASE PlanRead(p)
  BY <1>6 DEF PlanRead, AllCleared, Cleared, Typed, TypeOK, Goto, rows
<1>7. CASE PlanWrite(p)
  <2>1. CASE Done(p)
    BY <2>1, DoneCleared DEF AllCleared
  <2>2. CASE body[p].branch # Absent /\ Goto(p, "branch.write") /\ UNCHANGED <<body, copy>>
    <3>1. /\ copy[p] = plan /\ plan \in Plan /\ body[p].field = "maxBranches"
          /\ body[p].value = Cardinality(branches) + 1
      BY <1>7, <2>2 DEF PlanWrite, AllCleared, Cleared, Typed, TypeOK
    <3>2. plan'.maxBranches = Cardinality(branches) + 1 /\ branches' = branches
      BY <1>7, <3>1 DEF PlanWrite, Plan
    <3>3. Cardinality(branches) \in Nat
      BY CountsAreNat DEF AllCleared
    <3>4. WithinLimit(Cardinality(branches), Cardinality(branches) + 1)
      BY <3>3 DEF WithinLimit
    <3>5. WithinLimit(Cardinality(branches), plan.maxBranches)'
      BY <3>2, <3>4
    <3>6. pc'[p] = "branch.write"
      BY <2>2 DEF Goto, AllCleared, Typed, TypeOK
    <3> QED  BY <3>5, <3>6 DEF Cleared, BranchCleared
  <2> QED  BY <1>7, <2>1, <2>2 DEF PlanWrite
<1> QED  BY <1>1, <1>2, <1>3, <1>4, <1>5, <1>6, <1>7 DEF PlatformStep, Orderly

LEMMA ClearedNext == Orderly /\ AllCleared /\ [Next]_vars => AllCleared'
<1> SUFFICES ASSUME Orderly, AllCleared, [Next]_vars PROVE AllCleared'
  OBVIOUS
<1>0. Typed'
  BY NextTyped DEF AllCleared
<1>1. ASSUME NEW p \in Requests, Cleared(p)' PROVE AllCleared'
  BY <1>0, <1>1 DEF AllCleared, Orderly
<1>2. CASE \E c \in Clients : UserStep(c) \/ BranchStep(c)
  BY <1>1, <1>2, UserStepCleared, BranchStepCleared DEF Requests
<1>3. CASE \E p \in Platforms : PlatformStep(p)
  BY <1>1, <1>3, PlatformStepCleared DEF Requests
<1>4. CASE \E p \in Requests : Abandon(p)
  BY <1>1, <1>4, DoneCleared DEF Abandon, AllCleared
<1>5. CASE UNCHANGED vars
  BY <1>0, <1>5 DEF vars, AllCleared, Cleared, SeatCleared, BranchCleared, SeatHolders, TakesSeat
<1> QED  BY <1>2, <1>3, <1>4, <1>5 DEF Next

\* A set that gains at most one element grows by at most one.
LEMMA GrowsByOne ==
  ASSUME NEW S, NEW T, NEW x, IsFiniteSet(S), T \subseteq S \cup {x}
  PROVE  /\ Cardinality(T) \in Nat /\ Cardinality(S) \in Nat
         /\ Cardinality(T) <= Cardinality(S) + 1
         /\ T \subseteq S => Cardinality(T) <= Cardinality(S)
<1>1. IsFiniteSet(S \cup {x}) /\ Cardinality(S \cup {x}) <= Cardinality(S) + 1
  <2>1. Cardinality(S) \in Nat
    BY FS_CardinalityType
  <2>2. /\ IsFiniteSet(S \cup {x})
        /\ Cardinality(S \cup {x}) = IF x \in S THEN Cardinality(S) ELSE Cardinality(S) + 1
    BY FS_AddElement
  <2> QED  BY <2>1, <2>2
<1>2. IsFiniteSet(T) /\ Cardinality(T) <= Cardinality(S \cup {x})
  BY <1>1, FS_Subset
<1>3. /\ Cardinality(T) \in Nat /\ Cardinality(S) \in Nat
      /\ Cardinality(S \cup {x}) \in Nat
  BY <1>1, <1>2, FS_CardinalityType
<1> QED  BY <1>1, <1>2, <1>3, FS_Subset

\* The write of an account takes a seat only within the limit.
LEMMA SeatWithinLimit ==
  ASSUME AllCleared, NEW c \in Clients, UserWrite(c)
  PROVE  Cardinality(SeatHolders') > Cardinality(SeatHolders) =>
           plan.maxUsers = Null \/ Cardinality(SeatHolders') <= plan.maxUsers
<1> USE DEF Requests
<1> DEFINE u == body[c].user
           current == users[u]
<1>0. body[c] \in UserForm /\ plan \in Plan /\ SeatCleared(c)
      /\ (~body[c].create => body[c].role = Absent)
  BY DEF UserWrite, AllCleared, Cleared, Typed, TypeOK, Fits
<1>1. IsFiniteSet(SeatHolders)
  BY CountsAreNat DEF AllCleared
<1>2. \A v \in UserIds : v # u => users'[v] = users[v]
  BY DEF UserWrite, AllCleared, Typed, TypeOK
<1>3. SeatHolders' \subseteq SeatHolders \cup {u}
  BY <1>2 DEF SeatHolders, TakesSeat
<1>4. /\ Cardinality(SeatHolders') \in Nat /\ Cardinality(SeatHolders) \in Nat
      /\ SeatHolders' \subseteq SeatHolders =>
           Cardinality(SeatHolders') <= Cardinality(SeatHolders)
  BY <1>1, <1>3, GrowsByOne
<1>5. CASE WithinLimit(Cardinality(SeatHolders), plan.maxUsers)
  <2>1. plan.maxUsers \in Limit
    BY <1>0 DEF Plan
  <2>2. /\ Cardinality(SeatHolders') \in Nat /\ Cardinality(SeatHolders) \in Nat
        /\ Cardinality(SeatHolders') <= Cardinality(SeatHolders) + 1
    BY <1>1, <1>3, GrowsByOne
  <2> QED  BY <1>5, <2>1, <2>2 DEF WithinLimit, Limit
<1>6. CASE /\ body[c].create /\ ~Gated(body[c].active, body[c].role)
  <2>1. \/ users' = users
        \/ users' = [users EXCEPT ![u] = [role |-> body[c].role, active |-> body[c].active]]
    BY <1>6 DEF UserWrite
  <2>2. CASE users' = users
    <3>1. SeatHolders' = SeatHolders
      BY <2>2 DEF SeatHolders, TakesSeat
    <3> QED  BY <1>4, <3>1
  <2>3. CASE users' = [users EXCEPT ![u] = [role |-> body[c].role, active |-> body[c].active]]
    <3>1. users'[u] = [role |-> body[c].role, active |-> body[c].active]
      BY <1>0, <2>3 DEF AllCleared, Typed, TypeOK, UserForm
    <3>2. ~TakesSeat(users'[u])
      BY <1>6, <3>1 DEF TakesSeat, Gated
    <3>3. SeatHolders' \subseteq SeatHolders
      BY <1>2, <3>2 DEF SeatHolders
    <3> QED  BY <1>4, <3>3
  <2> QED  BY <2>1, <2>2, <2>3
<1>7. CASE /\ ~body[c].create /\ current # Null
           /\ ~current.active => ~Gated(Sent(body[c].active, current.active), current.role)
  <2>1. /\ u \in UserIds /\ current \in Account
    BY <1>0, <1>7 DEF UserForm, AllCleared, Typed, TypeOK
  <2>2. users'[u] = [role   |-> current.role,
                     active |-> Sent(body[c].active, current.active)]
    BY <1>0, <1>7, <2>1 DEF UserWrite, AllCleared, Typed, TypeOK, Sent
  <2>3. TakesSeat(users'[u]) => TakesSeat(current)
    BY <1>7, <2>1, <2>2 DEF TakesSeat, Gated, Account
  <2>4. SeatHolders' \subseteq SeatHolders
    BY <1>2, <2>3 DEF SeatHolders
  <2> QED  BY <1>4, <2>4
<1> QED  BY <1>0, <1>5, <1>6, <1>7 DEF SeatCleared

\* The write of a branch adds one only within the limit.
LEMMA BranchWithinLimit ==
  ASSUME AllCleared, NEW p \in Requests, BranchWrite(p)
  PROVE  Cardinality(branches') > Cardinality(branches) =>
           plan.maxBranches = Null \/ Cardinality(branches') <= plan.maxBranches
<1>1. branches' = branches \cup {body[p].branch} /\ BranchCleared(p)
  BY DEF BranchWrite, AllCleared, Cleared
<1>2. plan.maxBranches \in Limit /\ IsFiniteSet(branches)
  BY CountsAreNat DEF AllCleared, Typed, TypeOK, Plan
<1>3. /\ Cardinality(branches') \in Nat /\ Cardinality(branches) \in Nat
      /\ Cardinality(branches') <= Cardinality(branches) + 1
  BY <1>1, <1>2, GrowsByOne
<1>4. CASE body[p].branch \in branches
  BY <1>1, <1>3, <1>4
<1>5. CASE WithinLimit(Cardinality(branches), plan.maxBranches)
  BY <1>2, <1>3, <1>5 DEF WithinLimit, Limit
<1> QED  BY <1>1, <1>4, <1>5 DEF BranchCleared

\* A step takes a seat or adds a branch only within the limits.
LEMMA StepWithinLimits ==
  ASSUME AllCleared, [Next]_vars
  PROVE  /\ Cardinality(SeatHolders') > Cardinality(SeatHolders) =>
              plan.maxUsers = Null \/ Cardinality(SeatHolders') <= plan.maxUsers
         /\ Cardinality(branches') > Cardinality(branches) =>
              plan.maxBranches = Null \/ Cardinality(branches') <= plan.maxBranches
<1>0. /\ IsFiniteSet(branches) /\ Cardinality(branches) \in Nat
      /\ IsFiniteSet(SeatHolders) /\ Cardinality(SeatHolders) \in Nat
  BY CountsAreNat DEF AllCleared
<1>1. CASE users' = users /\ branches' \subseteq branches
  <2>1. SeatHolders' = SeatHolders
    BY <1>1 DEF SeatHolders, TakesSeat
  <2>2. Cardinality(branches') <= Cardinality(branches) /\ Cardinality(branches') \in Nat
    BY <1>0, <1>1, FS_Subset, FS_CardinalityType
  <2> QED  BY <1>0, <2>1, <2>2
<1>2. ASSUME NEW c \in Clients, UserWrite(c)
      PROVE  /\ branches' = branches
             /\ Cardinality(SeatHolders') > Cardinality(SeatHolders) =>
                  plan.maxUsers = Null \/ Cardinality(SeatHolders') <= plan.maxUsers
  BY <1>2, SeatWithinLimit DEF UserWrite
<1>3. ASSUME NEW c \in Clients, NEW u \in UserIds, UserDelete(c, u)
      PROVE  /\ branches' = branches
             /\ Cardinality(SeatHolders') <= Cardinality(SeatHolders)
             /\ Cardinality(SeatHolders') \in Nat
  <2>1. SeatHolders' \subseteq SeatHolders
    BY <1>3 DEF UserDelete, AllCleared, Typed, TypeOK, SeatHolders, TakesSeat
  <2> QED  BY <1>0, <1>3, <2>1, FS_Subset, FS_CardinalityType DEF UserDelete
<1>4. ASSUME NEW p \in Requests, BranchWrite(p)
      PROVE  /\ SeatHolders' = SeatHolders
             /\ Cardinality(branches') > Cardinality(branches) =>
                  plan.maxBranches = Null \/ Cardinality(branches') <= plan.maxBranches
  BY <1>4, BranchWithinLimit DEF BranchWrite, SeatHolders, TakesSeat
<1>5. \/ users' = users /\ branches' \subseteq branches
      \/ \E c \in Clients : UserWrite(c)
      \/ \E c \in Clients, u \in UserIds : UserDelete(c, u)
      \/ \E p \in Requests : BranchWrite(p)
  <2>1. ASSUME NEW c \in Clients, UserStep(c)
        PROVE  \/ users' = users /\ branches' \subseteq branches
               \/ UserWrite(c)
               \/ \E u \in UserIds : UserDelete(c, u)
    BY <2>1 DEF UserStep, UserCreate, UserUpdate, UserLimit, UserCount, rows
  <2>2. ASSUME NEW c \in Clients, BranchStep(c)
        PROVE  (users' = users /\ branches' \subseteq branches) \/ BranchWrite(c)
    BY <2>2 DEF BranchStep, BranchCreate, BranchLimit, BranchCount, BranchDelete, rows
  <2>3. ASSUME NEW p \in Platforms, PlatformStep(p)
        PROVE  (users' = users /\ branches' \subseteq branches) \/ BranchWrite(p)
    BY <2>3 DEF PlatformStep, GrantBegin, GrantLimit, GrantCount, PlanPatchBegin, PlanRead,
       PlanWrite, rows
  <2>4. CASE \E p \in Requests : Abandon(p)
    BY <2>4 DEF Abandon, rows
  <2>5. CASE UNCHANGED vars
    BY <2>5 DEF vars
  <2> QED  BY <2>1, <2>2, <2>3, <2>4, <2>5 DEF Next, Requests
<1> QED  BY <1>0, <1>1, <1>2, <1>3, <1>4, <1>5

\* Requests that run one at a time never take the workshop over a limit: a step that
\* takes a seat or adds a branch leaves no more of them than the plan allows, the
\* platform's branch creation included.  (An account that is given another role
\* passes no gate, and two requests can pass it together: hence the hypothesis.)
THEOREM StaysWithinLimits == ASSUME Orderly PROVE Spec => AddedWithinLimits
<1>1. Init => AllCleared
  BY ClearedInit
<1>2. AllCleared /\ [Next]_vars => AllCleared'
  BY ClearedNext
<1>3. AllCleared /\ [Next]_vars =>
        [/\ Cardinality(SeatHolders') > Cardinality(SeatHolders) =>
               plan.maxUsers = Null \/ Cardinality(SeatHolders') <= plan.maxUsers
         /\ Cardinality(branches') > Cardinality(branches) =>
               plan.maxBranches = Null \/ Cardinality(branches') <= plan.maxBranches]_vars
  BY StepWithinLimits
<1> QED  BY <1>1, <1>2, <1>3, PTL DEF Spec, AddedWithinLimits
=============================================================================
