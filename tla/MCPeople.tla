------------------------------ MODULE MCPeople ------------------------------
(* Accounts, attendance, customers, vehicles and the customers' portal,     *)
(* settings documents, parties and the platform's plans on small instances; *)
(* a behaviour exercises one of them.                                       *)
EXTENDS Credentials, Attendance, CustomerPortal, Singletons, PartyBooks, PlatformPlans

CONSTANTS s1, v1,                 \* an employee, a vehicle
          phone, short, kl1, kl2, \* phones, registrations
          secret, w1, w2, t1, t2  \* a password, workshops, texts

VARIABLE part

vars == <<part, requestVars, credVars, shiftVars, registryVars, portalVars, singletonVars,
          partyVars, platformVars>>

\* A blank row to be punched, and a shift that is under way.
MCEntries ==
  {[staff |-> s1, day |-> 1, in |-> Unset, out |-> Unset, status |-> "ABSENT"],
   [staff |-> s1, day |-> 1, in |-> 9, out |-> Unset, status |-> "PRESENT"]}

MCPhoneLists == {<<phone, phone, short>>}

\* A batch that repeats itself, and a fleet that is empty or one vehicle.
MCVehicleLists ==
  {<<[owner |-> k, reg |-> kl1], [owner |-> k, reg |-> kl1]>> : k \in Customers}
MCFleets ==
  {[v \in Vehicles |-> IF v = v1 THEN f ELSE Null] :
     f \in {Null} \cup {[owner |-> k, reg |-> kl2] : k \in Customers}}

MCNormalized == [n \in VendorNames |-> IF n = "Acme" THEN "acme" ELSE n]
MCMirrorKey == [n \in VendorNames |-> IF n = "acme oils" THEN "acme_oils" ELSE MCNormalized[n]]
MCNewIds == {<<"p", "1">>}

\* A vendor spelt in two ways, and a second vendor.
MCDirectories ==
  {<<[id |-> "V1", name |-> "acme"]>>,
   <<[id |-> "V1", name |-> "Acme"], [id |-> "V2", name |-> "bolt"]>>,
   <<[id |-> "V1", name |-> "bolt"]>>}

MCLedgers ==
  {[invoices |-> {}, expenses |-> {}]} \cup
  {[invoices |-> {[customer |-> "k1", total |-> 5, wallet |-> w, day |-> 1, payments |-> {}]},
    expenses |-> {[vendor |-> IF w = 0 THEN "acme" ELSE "bolt", amount |-> 4, paid |-> 1,
                   status |-> "PARTIAL", day |-> 1]}] :
     w \in {0, 2}}

MCDefaultCatalog ==
  [p \in {"STARTER", "GROWTH"} |-> [name |-> p, limits |-> IF p = "GROWTH" THEN 10 ELSE 3, visible |-> TRUE]]

\* No row yet; a row of the older version, with an override of a plan that is
\* there and of one that is not; and a catalog of which little is left.
MCStoredSettings ==
  {[catalog |-> <<>>, overrides |-> <<>>, trial |-> Null, gst |-> Null,
    pricing |-> [mult |-> <<>>, base |-> Null, gst |-> Null]],
   [catalog |-> <<>>, trial |-> 30, gst |-> 12,
    overrides |-> ("GROWTH" :> [name |-> "Plus"]) @@ ("PRO" :> [limits |-> 20]),
    pricing |-> [mult |-> "STARTER" :> 2, base |-> Null, gst |-> Null]],
   [catalog |-> "PRO" :> [name |-> "PRO", limits |-> 20, visible |-> FALSE], overrides |-> <<>>,
    pricing |-> [mult |-> <<>>, base |-> 200, gst |-> 5], trial |-> Null, gst |-> 5]}

MCEnvMultiplier == [p \in {"STARTER", "GROWTH"} |-> IF p = "GROWTH" THEN 2 ELSE 1]

NoPart == [form |-> Null, mult |-> Null, base |-> Null, gst |-> Null, trial |-> Null]
MCPlanRequests ==
  {[kind |-> "POST", code |-> "PRO", form |-> [limits |-> 5], mult |-> 3] @@ NoPart,
   [kind |-> "PATCH", code |-> "GROWTH", form |-> [limits |-> 6]] @@ NoPart,
   [kind |-> "PATCH", code |-> "PRO", form |-> [visible |-> FALSE], mult |-> 4] @@ NoPart,
   [kind |-> "DELETE", code |-> "GROWTH"] @@ NoPart,
   [kind |-> "DELETE", code |-> "PRO"] @@ NoPart,
   [kind |-> "PUT", code |-> "PRO", form |-> [name |-> "Prime"], base |-> 50, gst |-> 9] @@ NoPart,
   [kind |-> "PUT", code |-> "GROWTH", mult |-> 2] @@ NoPart,
   [kind |-> "SETTINGS", code |-> Null, trial |-> 7] @@ NoPart}

MaxPartRequests == 3

Init ==
  /\ part \in {"credentials", "attendance", "portal", "vehicles", "settings", "parties",
               "platform"}
  /\ RequestInit
  /\ CredInit
  /\ ShiftInit
  /\ RegistryInit
  /\ PortalInit
  /\ SingletonInit
  /\ PartyInit
  /\ PlatformInit
  /\ part = "parties" <=> invoices # {}
  /\ part # "platform" => DOMAIN settings.catalog # {}
  /\ part # "settings" => legacy = Null
  /\ \A k \in Customers : customers[k] # Null => part = "vehicles" /\ customers[k].phone = phone
  /\ part = "vehicles" => \E k \in Customers : customers[k] # Null

FleetStep ==
  /\ \E c \in Clients : VehicleStep(c) \/ DeletionStep(c)
  /\ Remember
  /\ UNCHANGED portalVars

Next ==
  /\ UNCHANGED part
  /\ IF part = "credentials" THEN CredStep ELSE UNCHANGED credVars
  /\ IF part = "attendance" THEN ShiftStep ELSE UNCHANGED shiftVars
  /\ CASE part = "vehicles" -> FleetStep
       [] part = "portal" -> PortalStep
       [] OTHER -> UNCHANGED <<registryVars, portalVars>>
  /\ IF part = "settings" THEN SingletonStep ELSE UNCHANGED singletonVars
  /\ IF part = "parties" THEN PartyStep ELSE UNCHANGED partyVars
  /\ IF part = "platform" THEN PlatformStep ELSE UNCHANGED platformVars
  /\ part \notin {"attendance", "credentials"} => sent' <= MaxPartRequests
  /\ part = "parties" /\ sent' # sent /\ sent = 2 => Quiet   \* the third is served alone

Spec == Init /\ [][Next]_vars

Symmetry ==
  Permutations(Clients) \cup Permutations(Customers) \cup
  Permutations(Workshops) \cup Permutations(Texts)
=============================================================================
