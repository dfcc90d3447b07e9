SPECIFICATION Spec
CONSTANTS
  Requests = {r1, r2}
  Tenants = {t1, t2}
  Ids = {d1, d2}
  Saved = {edit}
  Sent = {s1, s2}
  Financial = FALSE
  Parts = {"accounts"}
  LegacyParts = {"accounts"}
  LegacyOwner = t1
  Null = Null
SYMMETRY StoreSymmetry
INVARIANTS OneSettingsRow
PROPERTIES SnapshotsDontMix SnapshotKeepsOthers
