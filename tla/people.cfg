SPECIFICATION Spec
CONSTANTS
  Clients = {p1, p2}
  MaxRequests = 4
  Null = Null
  Users = {u1, u2}
  Passwords = {1}
  Production = TRUE
  s1 = s1
  Staff = {s1}
  Days = {1}
  Times = {9, 10}
  LateCutoff = 9
  HalfDay = 1
  Entries <- MCEntries
  MaxShifts = 4
  Customers = {k1, k2}
  Gone = Gone
  phone = phone
  short = short
  kl1 = kl1
  kl2 = kl2
  v1 = v1
  Phones = {phone, short}
  ShortPhones = {short}
  Vehicles = {v1, v2}
  Registrations = {kl1, kl2}
  PhoneLists <- MCPhoneLists
  VehicleLists <- MCVehicleLists
  Fleets <- MCFleets
  secret = secret
  Chosen = {secret}
  w1 = w1
  w2 = w2
  Workshops = {w1, w2}
  t1 = t1
  t2 = t2
  Texts = {t1, t2}
  Lifetime = 1
  MaxNow = 2
  None = None
  PartyCustomers = {"k1"}
  Profiles = {"V1", "V2"}
  VendorNames = {"acme", "Acme", "bolt"}
  Normalized <- MCNormalized
  MirrorKey <- MCMirrorKey
  NewIds <- MCNewIds
  Directories <- MCDirectories
  Ledgers <- MCLedgers
  LedgerDays = {1, 2}
  Openings = {3}
  Sides = {"toPay"}
  PlanCodes = {"STARTER", "GROWTH", "PRO"}
  DefaultCatalog <- MCDefaultCatalog
  EnvMultiplier <- MCEnvMultiplier
  EnvBase = 100
  StoredSettings <- MCStoredSettings
  PlanRequests <- MCPlanRequests
  Studios = {"o1"}
SYMMETRY Symmetry
INVARIANTS ToldOpensPortal UsedOnceIsGone  
PROPERTIES ReadsCurrent ShellLagsALifetime  NoSecondOfOne OnlyNamedChanges SavedPlanIsRead
CHECK_DEADLOCK FALSE
