SPECIFICATION Spec
CONSTANTS
  Clients = {p1}
  Syncers = {p1}
  Customers = {c1, c2}
  Invoices = {i1}
  Edits <- SharedInvoices
  PayIds = {x1, x2}
  Extra <- OneEach
  Payers <- AnyCustomer
  Uses = {0, 1}
  Adjustments = {1}
  Overwrites = {}
  Resends = {TRUE, FALSE}
  CutOffAt <- AnyStep
  Opening = 1
  MaxLedger = 1
  MaxBalance = 4
  Manual = Manual
  Null = Null
SYMMETRY CustomerSymmetry
INVARIANTS BalanceIsLedgerSum
