SPECIFICATION Spec
CONSTANTS
  Admins = {a1, a2}
  Studios = {}
  Terms = {1}
  DefaultTerm = 1
  PlanLimits = {1}
  ExtraSeats = {0}
  NotesSent = {FALSE}
  PatchInputs <- NoPatches
  InitialSubs <- PaidOnly
  MonthsPerYear = 1
  MaxPayments = 2
  MaxNow = 1
  Null = Null
  Absent = Absent
SYMMETRY AdminSymmetry
INVARIANTS BillNumbersGapFree BilledOnce PaidIsBilled
