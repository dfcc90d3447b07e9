------------------------------ MODULE Registry ------------------------------
(***************************************************************************)
(* Customers and their vehicles (customer.service.ts,                      *)
(* vehicle-api.service.ts).  Nothing in the database keeps two customers   *)
(* from having one phone number, or two vehicles one registration: every   *)
(* handler asks first and writes in a later statement.  A phone stands for *)
(* its last ten digits; referral codes are named after their customer.     *)
(***************************************************************************)
EXTENDS Requests, FiniteSets, Sequences

CONSTANTS
  Customers,     \* ids, generated: used once
  Gone,          \* the value of a deleted customer
  Phones,
  ShortPhones,   \* those with fewer than ten digits, which clash with none
  Vehicles,      \* ids, chosen by the client
  Registrations,
  PhoneLists,    \* what an import of customers may send
  VehicleLists,  \* what an import of vehicles may send
  Fleets         \* what a snapshot of the vehicles may send

Vehicle == [owner : Customers, reg : Registrations]

ASSUME RegistryAssumption ==
  /\ ShortPhones \subseteq Phones
  /\ PhoneLists \subseteq Seq(Phones)
  /\ VehicleLists \subseteq Seq(Vehicle)
  /\ Fleets \subseteq [Vehicles -> Vehicle \cup {Null}]

VARIABLES
  customers,  \* per id: Null, the row, or Gone
  vehicles,   \* the Vehicle rows of the organization
  since       \* ghost, per client: what has been so since its request came

registryVars == <<customers, vehicles, since>>

RegistryInit ==
  /\ customers \in [Customers -> {Null} \cup [phone : Phones, referredBy : {Null}]]
  /\ vehicles = [v \in Vehicles |-> Null]
  /\ since = [c \in Clients |-> {}]

Registered == {k \in Customers : customers[k] \notin {Null, Gone}}
Kept       == {v \in Vehicles : vehicles[v] # Null}

Known ==
  {<<"customer", k, customers[k].phone>> : k \in Registered}
  \cup {<<"vehicle", v, vehicles[v]>> : v \in Kept}

Remember ==
  since' = [c \in Clients |->
    IF pc'[c] = "idle" THEN {}
    ELSE Known' \cap (IF pc[c] = "idle" THEN Known ELSE since[c])]

Holders(p) == {k \in Registered : customers[k].phone = p}

-----------------------------------------------------------------------------
(* Customers                                                                *)

CreateCustomer(c) ==
  /\ \E p \in Phones, k \in Customers \cup {Null} :
       Arrive(c, "customer.clash", [phone |-> p, referredBy |-> k])
  /\ UNCHANGED <<customers, vehicles>>

PhoneTaken(p, others) == p \notin ShortPhones /\ Holders(p) \cap others # {}

CustomerClash(c) ==
  /\ pc[c] = "customer.clash"
  /\ IF PhoneTaken(req[c].phone, Customers) THEN Answer(c)
     ELSE Goto(c, "customer.referrer", req[c])
  /\ UNCHANGED <<customers, vehicles>>

\* resolveAdvocateReferralCode; the password is hashed before the insert.
CustomerReferrer(c) ==
  /\ pc[c] = "customer.referrer"
  /\ IF req[c].referredBy \in Registered \cup {Null}
     THEN Goto(c, "customer.insert", req[c]) ELSE Answer(c)
  /\ UNCHANGED <<customers, vehicles>>

CustomerInsert(c) ==
  /\ pc[c] = "customer.insert"
  /\ \E k \in Customers :
       /\ customers[k] = Null
       /\ customers' = [customers EXCEPT ![k] = req[c]]
  /\ Answer(c)
  /\ UNCHANGED vehicles

ImportCustomers(c) ==
  /\ \E list \in PhoneLists : Arrive(c, "customers.read", [list |-> list])
  /\ UNCHANGED <<customers, vehicles>>

\* Mutant: what is repeated within the batch is not skipped.
Fresh_Repeats(list, taken) == {i \in DOMAIN list : list[i] \notin taken}

\* The entries that are neither taken nor repeat an earlier one.
Fresh(list, taken) ==
  {i \in DOMAIN list :
     list[i] \notin taken /\ \A j \in DOMAIN list : j < i => list[j] # list[i]}

CustomersRead(c) ==
  LET list  == req[c].list
      fresh == Fresh(list, ShortPhones \cup {customers[k].phone : k \in Registered}) IN
  /\ pc[c] = "customers.read"
  /\ IF fresh = {} THEN Answer(c)
     ELSE Goto(c, "customers.insert", [list |-> list, fresh |-> fresh])
  /\ UNCHANGED <<customers, vehicles>>

\* createMany, one statement
CustomersInsert(c) ==
  /\ pc[c] = "customers.insert"
  /\ \E f \in [req[c].fresh -> Customers] :
       /\ \A i, j \in req[c].fresh : f[i] = f[j] => i = j
       /\ \A i \in req[c].fresh : customers[f[i]] = Null
       /\ customers' = [k \in Customers |->
            IF \E i \in req[c].fresh : f[i] = k
            THEN [phone |-> req[c].list[CHOOSE i \in req[c].fresh : f[i] = k], referredBy |-> Null]
            ELSE customers[k]]
  /\ Answer(c)
  /\ UNCHANGED vehicles

UpdateCustomer(c) ==
  /\ \E k \in Customers, p \in Phones :
       Arrive(c, "update.clash", [customer |-> k, phone |-> p])
  /\ UNCHANGED <<customers, vehicles>>

UpdateClash(c) ==
  /\ pc[c] = "update.clash"
  /\ IF PhoneTaken(req[c].phone, Customers \ {req[c].customer}) THEN Answer(c)
     ELSE Goto(c, "update.current", req[c])
  /\ UNCHANGED <<customers, vehicles>>

UpdateCurrent(c) ==
  /\ pc[c] = "update.current"
  /\ IF req[c].customer \in Registered THEN Goto(c, "update.write", req[c]) ELSE Answer(c)
  /\ UNCHANGED <<customers, vehicles>>

\* The update fails when the customer has been deleted.
UpdateWrite(c) ==
  /\ pc[c] = "update.write"
  /\ customers' = IF req[c].customer \in Registered
                  THEN [customers EXCEPT ![req[c].customer].phone = req[c].phone]
                  ELSE customers
  /\ Answer(c)
  /\ UNCHANGED vehicles

DeleteCustomer(c) ==
  /\ \E k \in Registered : Arrive(c, "delete.vehicles", [customer |-> k])
  /\ UNCHANGED <<customers, vehicles>>

Without(k) == [v \in Vehicles |-> IF v \in Kept /\ vehicles[v].owner = k THEN Null ELSE vehicles[v]]

DeleteVehicles(c) ==
  /\ pc[c] = "delete.vehicles"
  /\ vehicles' = Without(req[c].customer)
  /\ Goto(c, "delete.customer", req[c])
  /\ UNCHANGED customers

\* Vehicles added in the meantime go with the row (onDelete: Cascade).
DeleteRow(c) ==
  /\ pc[c] = "delete.customer"
  /\ customers' = [customers EXCEPT ![req[c].customer] = Gone]
  /\ vehicles' = Without(req[c].customer)
  /\ Answer(c)

-----------------------------------------------------------------------------
(* Vehicles.  The foreign key makes a write fail whose owner is gone.       *)

AddVehicle(c) ==
  /\ \E v \in Vehicles, row \in Vehicle :
       Arrive(c, "vehicle.customer", [vehicle |-> v, row |-> row])
  /\ UNCHANGED <<customers, vehicles>>

VehicleCustomer(c) ==
  /\ pc[c] = "vehicle.customer"
  /\ IF req[c].row.owner \in Registered THEN Goto(c, "vehicle.insert", req[c]) ELSE Answer(c)
  /\ UNCHANGED <<customers, vehicles>>

VehicleInsert(c) ==
  LET v == req[c].vehicle  row == req[c].row IN
  /\ pc[c] = "vehicle.insert"
  /\ vehicles' = IF v \notin Kept /\ row.owner \in Registered
                 THEN [vehicles EXCEPT ![v] = row] ELSE vehicles
  /\ Answer(c)
  /\ UNCHANGED customers

UpdateVehicle(c) ==
  /\ \E v \in Kept, row \in Vehicle : Arrive(c, "vehicle.write", [vehicle |-> v, row |-> row])
  /\ UNCHANGED <<customers, vehicles>>

VehicleWrite(c) ==
  LET v == req[c].vehicle  row == req[c].row IN
  /\ pc[c] = "vehicle.write"
  /\ vehicles' = IF v \in Kept /\ row.owner \in Registered
                 THEN [vehicles EXCEPT ![v] = row] ELSE vehicles
  /\ Answer(c)
  /\ UNCHANGED customers

DeleteVehicle(c) ==
  /\ AtOnce(c)
  /\ \E v \in Kept : vehicles' = [vehicles EXCEPT ![v] = Null]
  /\ UNCHANGED customers

ImportVehicles(c) ==
  /\ \E list \in VehicleLists : Arrive(c, "vehicles.registrations", [list |-> list])
  /\ UNCHANGED <<customers, vehicles>>

VehiclesRegistrations(c) ==
  /\ pc[c] = "vehicles.registrations"
  /\ Goto(c, "vehicles.customers",
          [list |-> req[c].list, taken |-> {vehicles[v].reg : v \in Kept}])
  /\ UNCHANGED <<customers, vehicles>>

\* An entry without a customer is skipped before its registration counts.
VehiclesCustomers(c) ==
  LET list  == req[c].list
      owned == {i \in DOMAIN list : list[i].owner \in Registered}
      fresh == Fresh([i \in owned |-> list[i].reg], req[c].taken) IN
  /\ pc[c] = "vehicles.customers"
  /\ IF fresh = {} THEN Answer(c)
     ELSE Goto(c, "vehicles.insert", [rows |-> [i \in fresh |-> list[i]]])
  /\ UNCHANGED <<customers, vehicles>>

VehiclesInsert(c) ==
  LET rows == req[c].rows IN
  /\ pc[c] = "vehicles.insert"
  /\ IF \A i \in DOMAIN rows : rows[i].owner \in Registered
     THEN \E f \in [DOMAIN rows -> Vehicles \ Kept] :
            /\ \A i, j \in DOMAIN rows : f[i] = f[j] => i = j
            /\ vehicles' = [v \in Vehicles |->
                 IF \E i \in DOMAIN rows : f[i] = v
                 THEN rows[CHOOSE i \in DOMAIN rows : f[i] = v] ELSE vehicles[v]]
     ELSE UNCHANGED vehicles
  /\ Answer(c)
  /\ UNCHANGED customers

\* postVehicleSnapshot counts the rows only when it was sent none.
SendFleet(c) ==
  /\ \E fleet \in Fleets :
       Arrive(c, IF \A v \in Vehicles : fleet[v] = Null THEN "fleet.count" ELSE "fleet.replace",
              [fleet |-> fleet])
  /\ UNCHANGED <<customers, vehicles>>

MayBeEmptied(rows) == rows = {}

FleetCount(c) ==
  /\ pc[c] = "fleet.count"
  /\ IF MayBeEmptied(Kept) THEN Goto(c, "fleet.replace", req[c]) ELSE Answer(c)
  /\ UNCHANGED <<customers, vehicles>>

\* replaceAllVehiclesApi: one transaction, which a missing owner undoes
FleetReplace(c) ==
  LET fleet == req[c].fleet IN
  /\ pc[c] = "fleet.replace"
  /\ vehicles' = IF \A v \in Vehicles : fleet[v] # Null => fleet[v].owner \in Registered
                 THEN fleet ELSE vehicles
  /\ Answer(c)
  /\ UNCHANGED customers

CustomerStep(c) ==
  \/ CreateCustomer(c) \/ CustomerClash(c) \/ CustomerReferrer(c) \/ CustomerInsert(c)
  \/ ImportCustomers(c) \/ CustomersRead(c) \/ CustomersInsert(c)
  \/ UpdateCustomer(c) \/ UpdateClash(c) \/ UpdateCurrent(c) \/ UpdateWrite(c)

DeletionStep(c) == DeleteCustomer(c) \/ DeleteVehicles(c) \/ DeleteRow(c)

VehicleStep(c) ==
  \/ AddVehicle(c) \/ VehicleCustomer(c) \/ VehicleInsert(c)
  \/ UpdateVehicle(c) \/ VehicleWrite(c) \/ DeleteVehicle(c)
  \/ ImportVehicles(c) \/ VehiclesRegistrations(c) \/ VehiclesCustomers(c) \/ VehiclesInsert(c)
  \/ SendFleet(c) \/ FleetCount(c) \/ FleetReplace(c)

-----------------------------------------------------------------------------
RegistrySpec ==
  /\ RegistryInit /\ RequestInit
  /\ [][(\E c \in Clients : CustomerStep(c) \/ DeletionStep(c) \/ VehicleStep(c)) /\ Remember
       ]_<<registryVars, requestVars>>

-----------------------------------------------------------------------------
(* Properties                                                               *)

RegistryTypeOK ==
  /\ customers \in [Customers -> {Null, Gone} \cup
                                 [phone : Phones, referredBy : Customers \cup {Null}]]
  /\ vehicles \in [Vehicles -> Vehicle \cup {Null}]
  /\ \A v \in Kept : vehicles[v].owner \in Registered

Done(c, step) == pc[c] = step /\ pc'[c] = "idle"

Numbered == {k \in Registered : customers[k].phone \notin ShortPhones}

(* A request gives no phone number to a second customer and no registration  *)
(* to a second vehicle while another has had it since the request came, nor   *)
(* one of them to two of its own rows: two share one only when requests       *)
(* overlapped (createCustomer, createCustomersBulk, updateCustomer,           *)
(* createVehiclesBulk).                                                       *)
NoSecondOfOne ==
  [][\A c \in Clients :
       /\ Done(c, "customer.insert") \/ Done(c, "customers.insert") \/ Done(c, "update.write") =>
            \A k \in Numbered', k2 \in Numbered' :
              /\ k # k2 /\ customers'[k].phone = customers'[k2].phone
              /\ customers[k] # customers'[k]
              => <<"customer", k2, customers'[k2].phone>> \notin since[c] /\ customers'[k2] = customers[k2]
       /\ Done(c, "vehicles.insert") =>
            \A v \in Kept', v2 \in Kept' :
              /\ v # v2 /\ vehicles'[v].reg = vehicles'[v2].reg
              /\ vehicles[v] # vehicles'[v]
              => <<"vehicle", v2, vehicles'[v2]>> \notin since[c] /\ vehicles'[v2] = vehicles[v2]
    ]_<<registryVars, requestVars>>
=============================================================================
