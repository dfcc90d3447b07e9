SPECIFICATION Spec
CONSTANTS
  Clients = {p1, p2}
  MaxRequests = 3
  Null = Null
  j = j
  u = u
  Cards = {j}
  Quotes = {q}
  Invoices = {i1, i2}
  Customers = {u}
  Prices = {1, 2}
  CardBodies <- MCCardBodies
  InvoiceBodies <- MCInvoiceBodies
  MaySnapshot = TRUE
  Appts = {a1}
  Dates = {1, 2}
  Drivers = {d}
  Branches = {b1, b2}
  Staff = {"boss", "mech"}
  Modules = {"EXPENSES", "STAFF", "REMINDERS"}
  GranularModules = {"EXPENSES", "STAFF"}
  UpsertModules = {"EXPENSES"}
  RoleModules <- MCRoleModules
  FirstAccounts <- MCAccounts
  StaffPatches <- MCStaffPatches
  Items = {1, 2, 3}
  Shops = {"s1", "s2"}
  Homes <- MCHomes
  Collection = "EXPENSES"
  Financial = TRUE
  PageSize = 1
  FirstRows <- MCFirstRows
  Payloads <- MCPayloads
SYMMETRY Symmetry
INVARIANTS   PagesMissNothing
PROPERTIES PriceLockedByInvoice ReferralsForNewCustomers RemovedOnlyUnused
CHECK_DEADLOCK FALSE
