SPECIFICATION Spec
CONSTANTS
  own = own  apr = apr  apr2 = apr2  acc = acc  out = out
  t1 = t1  t2 = t2  r1 = r1  r2 = r2  i1 = i1  i2 = i2  i3 = i3
  w1 = w1  w2 = w2  w3 = w3
  Users = {own, apr}
  Tenants = {t1, t2}
  TenantOf <- MCTenantOf
  RoleOf <- MCRoleOf
  Reports = {r1, r2}
  Items = {i1, i2}
  Amounts = {1, 2}
  Null = Null
  Workers = {w1}
  MaxTx = 5
  Mix <- Ops
  SeedOwner <- MCSeedOwner
  SeedReport <- MCSeedReport
CHECK_DEADLOCK FALSE
INVARIANTS
  TotalIsSum
  DeletedReportIsEmpty
  ResubmissionOfRejected
PROPERTIES
  SubmittedIsFrozen
