CONSTANTS
  i1 = i1  i2 = i2  i3 = i3  t1 = t1  t2 = t2  a1 = a1  a2 = a2
  Incidents = {i1, i2, i3}
  Case <- SharedAndNotify
  Tenants = {t1, t2}
  Users = {admin}
  Admins = {admin}
  HomeTenant <- Homes
  Addresses = {a1}
  NoAddress = NoAddress
  Replicas = {r1}
  Requests = {q1}
  Home <- OneHome
  RealExecution = TRUE
  Faults = FALSE
  Nobody = Nobody  NoProposal = NoProposal  NoResult = NoResult  NoTenant = NoTenant
SPECIFICATION FairSpec
INVARIANTS RolledBackIsUnblocked
PROPERTIES ApprovedIsSettled ProposalIsRouted
CHECK_DEADLOCK FALSE
