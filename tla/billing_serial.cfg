SPECIFICATION Spec
CONSTANTS
  Admins = {a1}
  Studios = {s1}
  Terms = {1, 2}
  DefaultTerm = 2
  PlanLimits = {1}
  ExtraSeats = {1}
  NotesSent = {FALSE}
  PatchInputs <- OverridePatch
  InitialSubs <- TrialOrPaid
  MonthsPerYear = 2
  MaxPayments = 2
  MaxNow = 1
  Null = Null
  Absent = Absent
INVARIANTS TypeOK BillsReachExpiry OneProcessing
PROPERTIES  ImplementsLedger
