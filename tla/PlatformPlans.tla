--------------------------- MODULE PlatformPlans ---------------------------
(***************************************************************************)
(* The plans that the platform sells (platform-settings.ts,                *)
(* platform.controller.ts): one settings row holds the catalog, the prices *)
(* and the defaults.  Every change reads the row, computes a new one and   *)
(* writes it in a later statement, whichever part of it was asked for; a   *)
(* row of an older version has overrides of the built-in plans instead of  *)
(* a catalog.  Workshops are provisioned on a plan, or moved to one, while *)
(* the catalog changes.  A plan's limits are one value.                    *)
(***************************************************************************)
EXTENDS Requests

CONSTANTS
  PlanCodes,
  DefaultCatalog,  \* DEFAULT_PLAN_CATALOG: code -> [name, limits, visible]
  EnvMultiplier,   \* prices of the environment: code -> multiplier,
  EnvBase,         \* and the price of the term
  StoredSettings,  \* the rows there may be at first
  PlanRequests,    \* bodies of POST, PATCH, DELETE and PUT /plans, and of PUT /settings
  Studios

\* With of f at x changed, and what g says besides f.
With(f, x, v) == [y \in DOMAIN f \cup {x} |-> IF y = x THEN v ELSE f[y]]
Over(f, g)    == [x \in DOMAIN f \cup DOMAIN g |-> IF x \in DOMAIN f THEN f[x] ELSE g[x]]

\* There are built-in plans, and a plan is made with a name.
PlanAssumption ==
  /\ DOMAIN DefaultCatalog \subseteq PlanCodes /\ DOMAIN DefaultCatalog # {}
  /\ \A s \in StoredSettings : DOMAIN s.catalog \cup DOMAIN s.overrides \subseteq PlanCodes
  /\ \A r \in PlanRequests :
       /\ r.form # Null => r.code \in PlanCodes
       /\ r.kind = "POST" => r.form # Null

ASSUME PlanAssumption

VARIABLES
  settings,  \* PlatformSettings.payload: [catalog, overrides, pricing, trial, gst];
             \* no catalog is an empty one, and no pricing one that sets nothing
  planOf,    \* OrganizationSubscription.planCode, or Null
  held       \* ghost, per client: what has been so since its request came

platformVars == <<settings, planOf, held>>

PlatformInit ==
  /\ settings \in StoredSettings
  /\ planOf = [o \in Studios |-> Null]
  /\ held = [c \in Clients |-> {}]

-----------------------------------------------------------------------------
(* What the row means                                                       *)

Given(value, default) == IF value = Null THEN default ELSE value

NewPlan(p) == [name |-> p, limits |-> 3, visible |-> TRUE]

\* resolvePlanCatalog: an override of a plan that is not there adds it
Plans(s) ==
  LET base == IF DOMAIN s.catalog = {} THEN DefaultCatalog ELSE s.catalog IN
  [p \in DOMAIN base \cup DOMAIN s.overrides |->
     LET plan == IF p \in DOMAIN base THEN base[p] ELSE NewPlan(p) IN
     IF p \in DOMAIN s.overrides THEN Over(s.overrides[p], plan) ELSE plan]

\* mergeSubscriptionPricingConfig, calculateSubscriptionPricing
Price(s, p) ==
  LET mult == Over(s.pricing.mult, EnvMultiplier) IN
  Given(s.pricing.base, EnvBase) * IF p \in DOMAIN mult THEN mult[p] ELSE 1

TrialDays(s) == Given(s.trial, 14)

\* The percentage of the prices hides the one of the settings.
Gst(s) == Given(s.pricing.gst, Given(s.gst, 18))

FactsOf(s) ==
  LET plans == Plans(s) IN
  {<<"plan", p, plans[p]>> : p \in DOMAIN plans}
  \cup {<<"price", p, Price(s, p)>> : p \in DOMAIN plans}
  \cup {<<"trial", Null, TrialDays(s)>>, <<"gst", Null, Gst(s)>>}

Facts == FactsOf(settings)

Hold ==
  held' = [c \in Clients |->
    IF pc'[c] = "idle" THEN {}
    ELSE Facts' \cap (IF pc[c] = "idle" THEN Facts ELSE held[c])]

-----------------------------------------------------------------------------
(* What a request writes                                                    *)

Left(f, x) == [y \in DOMAIN f \ {x} |-> f[y]]

NewCatalog(plans, r) ==
  CASE r.kind = "POST"   -> With(plans, r.code, Over(r.form, NewPlan(r.code)))
    [] r.kind = "DELETE" -> Left(plans, r.code)
    [] OTHER ->
         LET plan == IF r.code \in DOMAIN plans THEN plans[r.code] ELSE NewPlan(r.code)
         IN  IF r.form = Null THEN plans ELSE With(plans, r.code, Over(r.form, plan))

Nothing == [p \in {} |-> Null]

\* Mutant: the multipliers that are sent replace those that are stored.
Multipliers_Sent(old, r) == IF r.mult = Null THEN old ELSE With(Nothing, r.code, r.mult)

Multipliers(old, r) ==
  CASE r.kind = "DELETE" -> Left(old, r.code)
    [] r.kind = "POST"   -> With(old, r.code, Given(r.mult, 1))
    [] OTHER             -> IF r.mult = Null THEN old ELSE With(old, r.code, r.mult)

NewPricing(s, r) ==
  LET old == s.pricing IN
  IF r.kind = "SETTINGS" \/ (r.kind \in {"PATCH", "PUT"} /\ {r.mult, r.base, r.gst} = {Null})
  THEN s.pricing
  ELSE [mult |-> Multipliers(old.mult, r),
        base |-> Given(r.base, old.base),
        gst  |-> IF r.kind = "PUT" THEN Given(r.gst, old.gst) ELSE old.gst]

\* Mutant: the overrides stay beside the catalog they went into.
Saved_Overrides(s, r) ==
  [catalog |-> NewCatalog(Plans(s), r), overrides |-> s.overrides, pricing |-> NewPricing(s, r),
   trial |-> Given(r.trial, s.trial), gst |-> Given(r.gst, s.gst)]

\* The overrides of an older version go into the catalog with the first write.
Saved(s, r) ==
  [catalog |-> NewCatalog(Plans(s), r), overrides |-> Nothing, pricing |-> NewPricing(s, r),
   trial |-> Given(r.trial, s.trial), gst |-> Given(r.gst, s.gst)]

-----------------------------------------------------------------------------
(* The platform's requests                                                  *)

\* What was sent, and the row it is worked into.
Body(r, form, row) ==
  [kind |-> r.kind, code |-> r.code, form |-> form, mult |-> r.mult, base |-> r.base,
   gst |-> r.gst, trial |-> r.trial, read |-> row]

SendPlans(c) ==
  /\ \E r \in PlanRequests :
       r.kind # "SETTINGS" /\ Arrive(c, "plans.read", Body(r, r.form, Null))
  /\ UNCHANGED <<settings, planOf>>

SendSettings(c) ==
  /\ \E r \in PlanRequests :
       r.kind = "SETTINGS" /\ Arrive(c, "plans.update", Body(r, r.form, Null))
  /\ UNCHANGED <<settings, planOf>>

\* PUT /plans leaves out a plan it does not know, and reads the row again.
ReadPlans(c) ==
  LET r == req[c]  known == r.code \in DOMAIN Plans(settings) IN
  /\ pc[c] = "plans.read"
  /\ CASE \/ r.kind = "POST" /\ known
          \/ r.kind \in {"PATCH", "DELETE"} /\ ~known -> Answer(c)
       [] r.kind = "PUT" ->
            Goto(c, "plans.update", Body(r, IF known THEN r.form ELSE Null, Null))
       [] OTHER ->
            Goto(c, IF r.kind = "DELETE" THEN "plans.count" ELSE "plans.write",
                 Body(r, r.form, settings))
  /\ UNCHANGED <<settings, planOf>>

UpdatePlans(c) ==
  /\ pc[c] = "plans.update"
  /\ Goto(c, "plans.write", Body(req[c], req[c].form, settings))
  /\ UNCHANGED <<settings, planOf>>

InUse(p) == \E o \in Studios : planOf[o] = p

CountPlans(c) ==
  /\ pc[c] = "plans.count"
  /\ IF InUse(req[c].code) \/ DOMAIN Plans(req[c].read) = {req[c].code} THEN Answer(c)
     ELSE Goto(c, "plans.write", req[c])
  /\ UNCHANGED <<settings, planOf>>

WritePlans(c) ==
  /\ pc[c] = "plans.write"
  /\ settings' = Saved(req[c].read, req[c])
  /\ Answer(c)
  /\ UNCHANGED planOf

-----------------------------------------------------------------------------
(* Workshops                                                                *)

Provision(c) ==
  /\ \E p \in PlanCodes : Arrive(c, "provision.plan", [code |-> p])
  /\ UNCHANGED <<settings, planOf>>

\* Any plan of the catalog will do, a hidden one too.
ProvisionPlan(c) ==
  /\ pc[c] = "provision.plan"
  /\ IF req[c].code \in DOMAIN Plans(settings) THEN Goto(c, "provision.insert", req[c])
     ELSE Answer(c)
  /\ UNCHANGED <<settings, planOf>>

\* One transaction, which fails as a whole when the email or the slug is taken.
ProvisionInsert(c) ==
  /\ pc[c] = "provision.insert"
  /\ \/ \E o \in Studios : planOf[o] = Null /\ planOf' = [planOf EXCEPT ![o] = req[c].code]
     \/ UNCHANGED planOf
  /\ Answer(c)
  /\ UNCHANGED settings

\* patchOrganizationSubscription with a plan, and convertTrialSubscription.
MoveStudio(c) ==
  /\ \E o \in {o \in Studios : planOf[o] # Null}, p \in PlanCodes, limits \in BOOLEAN :
       Arrive(c, "move.plan", [studio |-> o, code |-> p, limits |-> limits])
  /\ UNCHANGED <<settings, planOf>>

\* The plan of a request with limits of its own is not looked up.
MovePlan(c) ==
  /\ pc[c] = "move.plan"
  /\ IF req[c].limits \/ req[c].code \in DOMAIN Plans(settings)
     THEN Goto(c, "move.write", req[c]) ELSE Answer(c)
  /\ UNCHANGED <<settings, planOf>>

MoveWrite(c) ==
  /\ pc[c] = "move.write"
  /\ planOf' = [planOf EXCEPT ![req[c].studio] = req[c].code]
  /\ Answer(c)
  /\ UNCHANGED settings

PlatformStep ==
  /\ \E c \in Clients :
       \/ SendPlans(c) \/ SendSettings(c) \/ ReadPlans(c)
       \/ UpdatePlans(c) \/ CountPlans(c) \/ WritePlans(c)
       \/ Provision(c) \/ ProvisionPlan(c) \/ ProvisionInsert(c)
       \/ MoveStudio(c) \/ MovePlan(c) \/ MoveWrite(c)
  /\ Hold

PlatformSpec == PlatformInit /\ RequestInit /\ [][PlatformStep]_<<platformVars, requestVars>>

-----------------------------------------------------------------------------
(* Properties                                                               *)

PlatformTypeOK ==
  /\ DOMAIN Plans(settings) \subseteq PlanCodes
  /\ DOMAIN Plans(settings) # {}
  /\ planOf \in [Studios -> PlanCodes \cup {Null}]

Writes(c) == pc[c] = "plans.write" /\ pc'[c] = "idle"

\* What a request may change: the plan and the price it names, every price when
\* it sends that of the term, and the defaults.
Names(r) ==
  (IF r.form # Null \/ r.kind = "DELETE" THEN {<<"plan", r.code>>} ELSE {})
  \cup (IF r.mult # Null \/ r.kind \in {"POST", "DELETE"} THEN {<<"price", r.code>>} ELSE {})
  \cup (IF r.base # Null THEN {<<"price", p>> : p \in PlanCodes} ELSE {})
  \cup (IF r.trial # Null THEN {<<"trial", Null>>} ELSE {})
  \cup (IF r.gst # Null THEN {<<"gst", Null>>} ELSE {})

\* A request that writes the whole row leaves every plan, price and default that
\* it does not name, and that nothing else changed since it came, as they were:
\* also when the row was one of the older version.
OnlyNamedChanges ==
  [][\A c \in Clients : Writes(c) =>
       \A f \in held[c] : f \in Facts' \/ <<f[1], f[2]>> \in Names(req[c])]_<<pc, settings, planOf>>

\* What was saved of a plan is what is read of it from then on, and a deleted
\* plan is no longer listed, whatever an older version had overridden.
SavedPlanIsRead ==
  [][\A c \in Clients : Writes(c) =>
       LET r == req[c]  plans == Plans(settings') IN
       IF r.kind = "DELETE" THEN r.code \notin DOMAIN plans
       ELSE r.form # Null =>
              /\ r.code \in DOMAIN plans
              /\ \A f \in DOMAIN r.form : plans[r.code][f] = r.form[f]]_<<pc, settings>>
=============================================================================
