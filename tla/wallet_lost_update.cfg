SPECIFICATION Spec
CONSTANTS
  Clients = {p1, p2}
  Syncers = {}
  Customers = {c1}
  Invoices = {i1, i2}
  Edits <- OwnInvoice
  PayIds = {x1}
  Extra <- OneEach
  Payers <- NamedCustomers
  Uses = {0}
  Adjustments = {1}
  Overwrites = {}
  Resends = {FALSE}
  CutOffAt <- BeforeSaved
  Opening = 1
  MaxLedger = 2
  MaxBalance = 4
  Manual = Manual
  Null = Null
INVARIANT BalanceIsLedgerSum
