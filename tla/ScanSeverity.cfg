CONSTANTS
  t1 = t1  a1 = a1  a2 = a2  u1 = u1  c1 = c1  c2 = c2
  f1 = f1  f2 = f2  f3 = f3  f4 = f4  f5 = f5  f6 = f6
  s1 = s1  s2 = s2  p1 = p1  p2 = p2  p3 = p3  o1 = o1  x1 = x1  k1 = k1
  RawEvents = {p1}
  RawOf <- Story
  Scans = {x1}
  Packages = {k1}
  SiteAnswers <- Sites
  SearchAnswers <- Searches
  OsvAnswers <- Osv
  GithubAnswers <- Github
  NoAnswer = NoAnswer  NoId = NoId
  Tenants = {t1}
  Addresses = {a1, a2}
  Users = {u1}
  Countries = {c1, c2}
  NoIp = NoIp  NoUser = NoUser  NoCountry = NoCountry
  CountryOf <- Located1
  FarApart <- Far
  Malicious = {a1}
  Replicas = {r1}
  Expiry = FALSE
  Faults = FALSE
  NoMessage = NoMessage
SPECIFICATION Spec
PROPERTIES ScanSeverityIsKept
CHECK_DEADLOCK FALSE
