SPECIFICATION Spec
CONSTANTS
  s1 = s1
  s2 = s2
  o1 = o1
  o2 = o2
  r1 = r1
  wrong = wrong
  FirstDay <- MCFirstDay
  LastDay <- MCLastDay
  Crew = {s1, s2}
  CrewRole <- MCCrewRole
  JoinedOn <- MCJoinedOn
  RoleKey <- MCRoleKey
  TargetPlans <- MCTargetPlans
  PeriodTypes = {"MONTHLY", "QUARTERLY"}
  SaleDays <- MCSaleDays
  SaleTotals = {150}
  MaxSales = 2
  TargetYear = 2024
  Jobs = {cron, studio}
  Cron = cron
  Orgs = {o1, o2}
  Rems = {r1, wrong}
  OrgOf <- MCOrgOf
  Plans <- MCPlans
  NoPhone = {}
  BadPhones = {wrong}
  Lead = 7
  Clock <- MCClock
  MaxFailures = 1
  None = None
INVARIANTS RevenueCountedOnce 
PROPERTIES PeriodBecomesPrevious SalesNeverCostStaff AdvancesOnePeriod DueIsSent
CHECK_DEADLOCK FALSE
