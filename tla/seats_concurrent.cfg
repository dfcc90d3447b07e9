SPECIFICATION Spec
CONSTANTS
  Clients = {c1, c2}
  Platforms = {}
  UserIds = {u1, u2, u3, u4}
  BranchIds = {b1, b2, b3}
  Owner = u1
  HomeBranch = b1
  Shopfloor = {u4}
  OfficeRole = OfficeRole
  CreatedAs <- Staff
  RolePatches = {Absent}
  RaiseChoices = {TRUE}
  InitialPlan <- OneOfEach
  PlanPatches <- NoPlans
  Null = Null
  Absent = Absent
SYMMETRY ClientSymmetry
INVARIANTS TypeOK UserOvershootBounded BranchOvershootBounded
