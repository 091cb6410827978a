CONSTANTS
  t1 = t1  t2 = t2  e1 = e1  c1 = c1  c2 = c2
  Requests = {q1, q2}
  Admin = admin
  Holders = {e1}
  Tenants = {t1, t2}
  HolderOf <- Holder
  Ips = {i1}
  MaxPerEmail = 1
  MaxPerIp = 2
  MaxFailures = 4
  Connectors = {c1, c2}
  OwnerOf <- Owner
  MaxTokens = 3
  Faults = TRUE
SPECIFICATION FairSpec
INVARIANTS TypeOK OvershootBounded
PROPERTIES RetiredAdmitsNone LockoutEnds
CHECK_DEADLOCK FALSE
