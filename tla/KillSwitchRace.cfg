CONSTANTS
  i1 = i1  i2 = i2  i3 = i3  t1 = t1  t2 = t2  a1 = a1  a2 = a2
  Incidents = {i1}
  Case <- OneBlock
  Tenants = {t1}
  Users = {admin}
  Admins = {admin}
  HomeTenant <- Homes
  Addresses = {a1}
  NoAddress = NoAddress
  Replicas = {r1}
  Requests = {q1, q2}
  Home <- OneHome
  RealExecution = TRUE
  Faults = FALSE
  Nobody = Nobody  NoProposal = NoProposal  NoResult = NoResult  NoTenant = NoTenant
SPECIFICATION Spec
PROPERTIES StopsImmediately
CHECK_DEADLOCK FALSE
