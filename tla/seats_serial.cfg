SPECIFICATION Spec
CONSTANTS
  Clients = {r1}
  Platforms = {r1}
  UserIds = {u1, u2, u3, u4}
  BranchIds = {b1, b2, b3, b4}
  Owner = u1
  HomeBranch = b1
  Shopfloor = {u4}
  OfficeRole = OfficeRole
  CreatedAs <- Staff
  RolePatches = {Absent}
  RaiseChoices = {TRUE}
  InitialPlan <- TwoOfEach
  PlanPatches <- LimitSaves
  Null = Null
  Absent = Absent
PROPERTIES AddedWithinLimits
