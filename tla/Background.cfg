CONSTANTS
  t1 = t1  r1 = r1
  Tenants = {t1, t2}
  Incidents = {i1}
  TenantOf <- FirstOwns
  Connectors = {c1}
  Replicas = {r1}
  Requests = {q1}
  Home <- OneHome
  Day = 2
  StaleAfter = 1
  HealthInterval = 1
  MaxFaults = 1
  Nobody = Nobody
SPECIFICATION FairSpec
INVARIANTS BackgroundInv ReportsSpaced
PROPERTIES OnlyWritingHides NoFalseAlarm SilenceIsReported ReportsKeepComing
CHECK_DEADLOCK FALSE
