SPECIFICATION Spec
CONSTANTS
  Clients = {p1, p2}
  Syncers = {}
  Customers = {c1}
  Invoices = {i1, i2}
  Edits <- OwnInvoice
  PayIds = {x1, x2}
  Extra <- OneEach
  Payers <- NamedCustomers
  Uses = {0, 1}
  Adjustments = {1}
  Overwrites = {1}
  Resends = {FALSE}
  CutOffAt <- BeforeSaved
  Opening = 0
  MaxLedger = 2
  MaxBalance = 2
  Manual = Manual
  Null = Null
INVARIANTS WalletNotNegative 
