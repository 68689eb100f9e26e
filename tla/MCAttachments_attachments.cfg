SPECIFICATION FairSpec
CONSTANTS
  own = own  apr = apr
  t1 = t1  r1 = r1  i1 = i1  i2 = i2
  a1 = a1  a2 = a2
  w1 = w1  w2 = w2
  Users = {own, apr}
  Tenants = {t1}
  TenantOf <- MCTenantOf
  RoleOf <- MCRoleOf
  Reports = {r1}
  Items = {i1, i2}
  Amounts = {1}
  Null = Null
  Atts = {a1, a2}
  TheReport = r1
  Owner = own
  SeedItem <- MCSeedItem
  Pos <- MCPos
  Workers = {w1, w2}
  MaxReq = 3
CHECK_DEADLOCK FALSE
INVARIANTS
  TypeOK
  StoredObjects
  SurvivorsAreLate
  CircleOfDeletions
PROPERTIES
  OnlyOvertakenChange
  RequestEnds
